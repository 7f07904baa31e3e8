--------------------------- MODULE RecorderProofs ---------------------------
(***************************************************************************)
(* Proofs about Recorder, for all values of its constants.                 *)
(*                                                                         *)
(* What is unread stands between the shell and the recorder.  The proofs   *)
(* therefore look at the recorder as it will be once it has read all that  *)
(* is in tty: that recorder is in step with the shell, mark by mark, and   *)
(* on its way there whatever it stores is right, even if it is made to     *)
(* stop at any token.                                                      *)
(***************************************************************************)
EXTENDS MCRecorderScenarios, FiniteSetTheorems, SequenceTheorems, TLAPS

(***************************************************************************)
(* The recorder's state r with what it has stored, as a value.  c stands   *)
(* for the history, cmds, at some moment.                                  *)
(***************************************************************************)
RState ==
  [capturing : BOOLEAN, alt : BOOLEAN, phase : {"off", "prompt", "input"}, input : BOOLEAN,
   echo : Seq(Tokens), wez : 0..MaxCommands,
   cmd : 0..MaxCommands, hint : 0..MaxCommands, echoed : 0..MaxCommands, garbled : BOOLEAN,
   cwd : 0..MaxCommands, open : BOOLEAN, buf : Seq(Tokens), paused : BOOLEAN, done : BOOLEAN]

Entry == [name : 0..MaxCommands, garbled : BOOLEAN, out : Seq(Tokens), cwd : 0..MaxCommands,
          code : 0..1, ok : BOOLEAN]

State == [r : RState, stored : Seq(Entry)]

Command == [kind : Kinds, dir : 0..MaxCommands, code : 0..1, off : BOOLEAN,
            wrote : Nat, shown : Nat, told : BOOLEAN, ended : BOOLEAN]

Histories == {c \in Seq(Command) : Len(c) <= MaxCommands}

AllTokens ==
  Tokens \cup {A, A2, B, C, BareD} \cup {D(code) : code \in 0..1}
    \cup {Cmd(n) : n \in 0..MaxCommands} \cup {Hint(n) : n \in 0..MaxCommands}
    \cup {SplitHint(n) : n \in 0..MaxCommands} \cup {Cwd(n) : n \in 0..MaxCommands}
    \cup {Rec(on) : on \in BOOLEAN} \cup {Alt(on) : on \in BOOLEAN}

\* Keeps and Flush of Recorder, with c for cmds.
KindIn(c, s) ==
  IF Garbled(s) THEN "garbled" ELSE IF CmdName(s) = 0 THEN "empty" ELSE c[CmdName(s)].kind

KeepsIn(c, s) ==
  /\ s.open /\ ~s.paused
  /\ KindIn(c, s) \notin Matching /\ KindIn(c, s) # "exit"
  /\ KindIn(c, s) = "empty" => s.buf # <<>>

EntryOf(s, code, ok) ==
  [name |-> CmdName(s), garbled |-> Garbled(s), out |-> s.buf, cwd |-> s.cwd,
   code |-> code, ok |-> ok]

FlushIn(c, s, q, e) ==
  [r |-> IF s.open THEN Forget(s) ELSE s, stored |-> IF KeepsIn(c, s) THEN Append(q, e) ELSE q]

\* What reading a token makes of x.
DueAt(x, tok) == IF IsOSC(tok) THEN Due(x.r) ELSE x.r

Take(c, x, tok) ==
  LET s == DueAt(x, tok)
      t == [EchoReset(s) EXCEPT !.capturing = FALSE]
  IN  IF tok.t # "D" THEN [r |-> Observe(s, tok), stored |-> x.stored]
      ELSE IF s.capturing THEN FlushIn(c, t, x.stored, EntryOf(t, tok.code, tok.ok))
                          ELSE [r |-> EchoReset(s), stored |-> x.stored]

\* What the end of the loop makes of x.
End(c, x) ==
  LET s == [x.r EXCEPT !.done = TRUE, !.open = @ /\ KindIn(c, x.r) # "exit"]
  IN  FlushIn(c, s, x.stored, EntryOf(s, 0, FALSE))

-----------------------------------------------------------------------------
(***************************************************************************)
(* What is right to have stored: Attribution, PausedNotStored.             *)
(***************************************************************************)
TrueEntry(c, e) ==
  /\ Subject(e) \in 1..Len(c)
  /\ \A i \in DOMAIN e.out : e.out[i].t = "text" /\ e.out[i].by = Subject(e)
  /\ e.cwd = c[Subject(e)].dir
  /\ e.ok => /\ c[Subject(e)].ended /\ e.code = c[Subject(e)].code
             /\ ~(c[Subject(e)].told /\ e.garbled)

\* Entries of ever later commands, none later than the n-th, and phantoms.
UpTo(c, q, n) ==
  /\ \A i \in DOMAIN q : Phantom(q[i]) \/ (TrueEntry(c, q[i]) /\ Subject(q[i]) <= n)
  /\ \A i, j \in DOMAIN q :
       i < j /\ ~Phantom(q[i]) /\ ~Phantom(q[j]) => Subject(q[i]) < Subject(q[j])

Shown(out) == \A i \in DOMAIN out : ~out[i].hidden

Bare(q) == "script" \notin Kinds => \A i \in DOMAIN q : Shown(q[i].out)

Right(c, q) == UpTo(c, q, Len(c)) /\ Bare(q)

Good(c, x) ==
  /\ x \in State /\ ~x.r.done
  /\ {x.r.cmd, x.r.hint, x.r.echoed, x.r.wez} \subseteq 0..Len(c)
  /\ x.r.buf # <<>> => x.r.open
  /\ x.r.capturing => x.r.open
  /\ End(c, x).r.buf # <<>> => End(c, x).r.open
  /\ Right(c, x.stored) /\ Right(c, End(c, x).stored)

\* Reading q leads from x to y, and on the way nothing wrong is stored, even if
\* the loop ends there.
Path(c, x, q, y, st) ==
  /\ st[1] = x /\ st[Len(q) + 1] = y
  /\ \A i \in 1..Len(q) : st[i + 1] = Take(c, st[i], q[i])
  /\ \A i \in 1..Len(q) + 1 : Good(c, st[i])

Reads(c, x, q, y) == \E st \in [1..Len(q) + 1 -> State] : Path(c, x, q, y, st)

\* From any of X, reading q leads to one of Y.
Leads(c, X, q, Y) ==
  /\ q \in Seq(AllTokens)
  /\ \A x \in X : \E y \in Y : Reads(c, x, q, y)

LEMMA ReadNothing ==
  ASSUME NEW c, NEW x, Good(c, x)
  PROVE  Reads(c, x, <<>>, x)
<1> DEFINE st == [i \in 1..1 |-> x]
<1>1. x \in State
  BY DEF Good
<1>2. st \in [1..Len(<<>>) + 1 -> State] /\ Path(c, x, <<>>, x, st)
  BY <1>1 DEF Path
<1>3. QED BY <1>2 DEF Reads

LEMMA ReadToken ==
  ASSUME NEW c, NEW x, NEW tok, Good(c, x), Good(c, Take(c, x, tok))
  PROVE  Reads(c, x, <<tok>>, Take(c, x, tok))
<1> DEFINE y == Take(c, x, tok)
<1> HIDE DEF y
<1> DEFINE st == [i \in 1..2 |-> IF i = 1 THEN x ELSE y]
<1>1. x \in State /\ y \in State
  BY DEF Good, y
<1>2. st \in [1..2 -> State]
  BY <1>1
<1>3. Len(<<tok>>) = 1 /\ <<tok>>[1] = tok /\ 1 + 1 = 2
  OBVIOUS
<1>4. st[1] = x /\ st[2] = y
  OBVIOUS
<1>5. \A i \in 1..1 : st[i + 1] = Take(c, st[i], <<tok>>[i])
  BY <1>3, <1>4 DEF y
<1>6. \A i \in 1..2 : Good(c, st[i])
  BY <1>4 DEF y
<1> HIDE DEF st
<1>7. Path(c, x, <<tok>>, y, st)
  BY <1>3, <1>4, <1>5, <1>6 DEF Path
<1>8. QED BY <1>2, <1>3, <1>7 DEF Reads, y

LEMMA ReadOn ==
  ASSUME NEW c, NEW x, NEW y, NEW z, NEW T, NEW q \in Seq(T), NEW q2 \in Seq(T),
         Reads(c, x, q, y), Reads(c, y, q2, z)
  PROVE  Reads(c, x, q \o q2, z)
<1>1. PICK st \in [1..Len(q) + 1 -> State] : Path(c, x, q, y, st)
  BY DEF Reads
<1>2. PICK st2 \in [1..Len(q2) + 1 -> State] : Path(c, y, q2, z, st2)
  BY DEF Reads
<1>3. /\ Len(q) \in Nat /\ Len(q2) \in Nat /\ Len(q \o q2) = Len(q) + Len(q2)
      /\ \A i \in 1..Len(q) : (q \o q2)[i] = q[i]
      /\ \A i \in Len(q) + 1..Len(q) + Len(q2) : (q \o q2)[i] = q2[i - Len(q)]
  OBVIOUS
<1> DEFINE all == [i \in 1..Len(q \o q2) + 1 |->
                     IF i <= Len(q) + 1 THEN st[i] ELSE st2[i - Len(q)]]
<1>4. all \in [1..Len(q \o q2) + 1 -> State]
  <2>1. ASSUME NEW i \in 1..Len(q \o q2) + 1 PROVE all[i] \in State
    <3>1. CASE i <= Len(q) + 1
      BY <1>3, <3>1
    <3>2. CASE ~(i <= Len(q) + 1)
      <4>1. i - Len(q) \in 1..Len(q2) + 1
        BY <1>3, <3>2
      <4>2. QED BY <3>2, <4>1
    <3>3. QED BY <3>1, <3>2
  <2>2. QED BY <2>1
<1>5. \A i \in 1..Len(q) + 1 : all[i] = st[i]
  BY <1>3
<1>6. \A i \in 1..Len(q2) + 1 : all[Len(q) + i] = st2[i]
  <2>1. ASSUME NEW i \in 1..Len(q2) + 1 PROVE all[Len(q) + i] = st2[i]
    <3>1. CASE i = 1
      <4>1. all[Len(q) + 1] = st[Len(q) + 1]
        BY <1>3
      <4>2. QED BY <1>1, <1>2, <3>1, <4>1 DEF Path
    <3>2. CASE i # 1
      <4>1. Len(q) + i \in 1..Len(q \o q2) + 1 /\ ~(Len(q) + i <= Len(q) + 1)
            /\ Len(q) + i - Len(q) = i
        BY <1>3, <3>2
      <4>2. QED BY <4>1
    <3>3. QED BY <3>1, <3>2
  <2>2. QED BY <2>1
<1> HIDE DEF all
<1>7. \A i \in 1..Len(q \o q2) : all[i + 1] = Take(c, all[i], (q \o q2)[i])
  <2>1. ASSUME NEW i \in 1..Len(q) PROVE all[i + 1] = Take(c, all[i], (q \o q2)[i])
    <3>1. i \in 1..Len(q) + 1 /\ i + 1 \in 1..Len(q) + 1
      BY <1>3
    <3>2. QED BY <1>1, <1>3, <1>5, <2>1, <3>1 DEF Path
  <2>2. ASSUME NEW i \in 1..Len(q2)
        PROVE  all[(Len(q) + i) + 1] = Take(c, all[Len(q) + i], (q \o q2)[Len(q) + i])
    <3>1. /\ i \in 1..Len(q2) + 1 /\ i + 1 \in 1..Len(q2) + 1
          /\ (Len(q) + i) + 1 = Len(q) + (i + 1)
          /\ Len(q) + i \in Len(q) + 1..Len(q) + Len(q2) /\ (Len(q) + i) - Len(q) = i
      BY <1>3
    <3>2. all[Len(q) + (i + 1)] = st2[i + 1] /\ all[Len(q) + i] = st2[i]
      BY <1>6, <3>1
    <3>3. (q \o q2)[Len(q) + i] = q2[i]
      BY <1>3, <3>1
    <3>4. st2[i + 1] = Take(c, st2[i], q2[i])
      BY <1>2 DEF Path
    <3>5. QED BY <3>1, <3>2, <3>3, <3>4
  <2>3. ASSUME NEW i \in 1..Len(q \o q2) PROVE all[i + 1] = Take(c, all[i], (q \o q2)[i])
    <3>1. CASE i <= Len(q)
      BY <1>3, <2>1, <3>1
    <3>2. CASE ~(i <= Len(q))
      <4>1. PICK k \in 1..Len(q2) : i = Len(q) + k
        <5>1. i - Len(q) \in 1..Len(q2) /\ i = Len(q) + (i - Len(q))
          BY <1>3, <3>2
        <5>2. QED BY <5>1
      <4>2. QED BY <2>2, <4>1
    <3>3. QED BY <3>1, <3>2
  <2>4. QED BY <2>3
<1>8. \A i \in 1..Len(q \o q2) + 1 : Good(c, all[i])
  <2>1. ASSUME NEW i \in 1..Len(q \o q2) + 1 PROVE Good(c, all[i])
    <3>1. CASE i <= Len(q) + 1
      BY <1>1, <1>3, <1>5, <3>1 DEF Path
    <3>2. CASE ~(i <= Len(q) + 1)
      <4>1. i - Len(q) \in 1..Len(q2) + 1 /\ Len(q) + (i - Len(q)) = i
        BY <1>3, <3>2
      <4>2. QED BY <1>2, <1>6, <4>1 DEF Path
    <3>3. QED BY <3>1, <3>2
  <2>2. QED BY <2>1
<1>9. all[1] = x /\ all[Len(q \o q2) + 1] = z
  <2>1. all[1] = st[1] /\ all[Len(q) + (Len(q2) + 1)] = st2[Len(q2) + 1]
    BY <1>3, <1>5, <1>6
  <2>2. Len(q \o q2) + 1 = Len(q) + (Len(q2) + 1)
    BY <1>3
  <2>3. QED BY <1>1, <1>2, <2>1, <2>2 DEF Path
<1>10. QED BY <1>4, <1>7, <1>8, <1>9 DEF Reads, Path

LEMMA ReadOff ==
  ASSUME NEW c, NEW x, NEW y, NEW T, NEW q \in Seq(T), q # <<>>, Reads(c, x, q, y)
  PROVE  Good(c, x) /\ Reads(c, Take(c, x, Head(q)), Tail(q), y)
<1>1. PICK st \in [1..Len(q) + 1 -> State] : Path(c, x, q, y, st)
  BY DEF Reads
<1>2. /\ Len(q) \in Nat /\ Len(q) >= 1 /\ Len(Tail(q)) = Len(q) - 1 /\ Head(q) = q[1]
      /\ \A i \in 1..Len(Tail(q)) : Tail(q)[i] = q[i + 1]
  OBVIOUS
<1> DEFINE tl == [i \in 1..Len(Tail(q)) + 1 |-> st[i + 1]]
<1>3. \A i \in 1..Len(Tail(q)) + 1 : i + 1 \in 1..Len(q) + 1
  BY <1>2
<1>4. tl \in [1..Len(Tail(q)) + 1 -> State]
  BY <1>3
<1>5. \A i \in 1..Len(Tail(q)) + 1 : tl[i] = st[i + 1]
  OBVIOUS
<1> HIDE DEF tl
<1>6. tl[1] = Take(c, x, Head(q)) /\ tl[Len(Tail(q)) + 1] = y
  <2>1. 1 \in 1..Len(Tail(q)) + 1 /\ Len(Tail(q)) + 1 \in 1..Len(Tail(q)) + 1
        /\ (Len(Tail(q)) + 1) + 1 = Len(q) + 1 /\ 1 \in 1..Len(q)
    BY <1>2
  <2>2. tl[1] = st[1 + 1] /\ tl[Len(Tail(q)) + 1] = st[Len(q) + 1]
    BY <1>5, <2>1
  <2>3. QED BY <1>1, <1>2, <2>1, <2>2 DEF Path
<1>7. \A i \in 1..Len(Tail(q)) : tl[i + 1] = Take(c, tl[i], Tail(q)[i])
  <2>1. ASSUME NEW i \in 1..Len(Tail(q)) PROVE tl[i + 1] = Take(c, tl[i], Tail(q)[i])
    <3>1. i \in 1..Len(Tail(q)) + 1 /\ i + 1 \in 1..Len(Tail(q)) + 1 /\ i + 1 \in 1..Len(q)
      BY <1>2
    <3>2. QED BY <1>1, <1>2, <1>5, <3>1 DEF Path
  <2>2. QED BY <2>1
<1>8. \A i \in 1..Len(Tail(q)) + 1 : Good(c, tl[i])
  BY <1>1, <1>3, <1>5 DEF Path
<1>9. Good(c, x)
  BY <1>1, <1>2 DEF Path
<1>10. QED BY <1>4, <1>6, <1>7, <1>8, <1>9 DEF Reads, Path

LEMMA LeadNowhere ==
  ASSUME NEW c, NEW X, \A x \in X : Good(c, x)
  PROVE  Leads(c, X, <<>>, X)
BY ReadNothing DEF Leads

LEMMA LeadToken ==
  ASSUME NEW c, NEW X, NEW Y, NEW tok \in AllTokens,
         \A x \in X : Good(c, x) /\ Take(c, x, tok) \in Y,
         \A y \in Y : Good(c, y)
  PROVE  Leads(c, X, <<tok>>, Y)
<1>1. <<tok>> \in Seq(AllTokens)
  OBVIOUS
<1>2. QED BY <1>1, ReadToken DEF Leads

LEMMA LeadOn ==
  ASSUME NEW c, NEW X, NEW Y, NEW Z, NEW q, NEW q2,
         Leads(c, X, q, Y), Leads(c, Y, q2, Z)
  PROVE  Leads(c, X, q \o q2, Z)
<1>1. q \in Seq(AllTokens) /\ q2 \in Seq(AllTokens)
  BY DEF Leads
<1>2. q \o q2 \in Seq(AllTokens)
  BY <1>1
<1>3. ASSUME NEW x \in X PROVE \E z \in Z : Reads(c, x, q \o q2, z)
  <2>1. PICK y \in Y : Reads(c, x, q, y)
    BY DEF Leads
  <2>2. PICK z \in Z : Reads(c, y, q2, z)
    BY DEF Leads
  <2>3. QED BY <1>1, <2>1, <2>2, ReadOn
<1>4. QED BY <1>2, <1>3 DEF Leads

\* A token more.
LEMMA LeadMore ==
  ASSUME NEW c, NEW X, NEW Y, NEW Z, NEW q, NEW tok \in AllTokens,
         Leads(c, X, q, Y),
         \A y \in Y : Good(c, y) /\ Take(c, y, tok) \in Z,
         \A z \in Z : Good(c, z)
  PROVE  Leads(c, X, Append(q, tok), Z)
<1>1. Leads(c, X, q \o <<tok>>, Z)
  BY LeadToken, LeadOn
<1>2. q \in Seq(AllTokens)
  BY DEF Leads
<1>3. Append(q, tok) = q \o <<tok>>
  BY <1>2
<1>4. QED BY <1>1, <1>3

-----------------------------------------------------------------------------
(***************************************************************************)
(* History goes on: commands are added, run and end, and what is said of a *)
(* command that has ended stays.                                           *)
(***************************************************************************)
Later(c, c2) ==
  /\ c \in Histories /\ c2 \in Histories /\ Len(c) <= Len(c2)
  /\ \A n \in 1..Len(c) :
       /\ c2[n].kind = c[n].kind /\ c2[n].dir = c[n].dir /\ (c2[n].told <=> c[n].told)
       /\ c[n].ended => c2[n].ended /\ c2[n].code = c[n].code

LEMMA LaterKind ==
  ASSUME NEW c, NEW c2, Later(c, c2), NEW s, CmdName(s) \in 0..Len(c)
  PROVE  KindIn(c2, s) = KindIn(c, s)
<1>1. Len(c) \in Nat
  BY DEF Later, Histories
<1>2. CmdName(s) = 0 \/ CmdName(s) \in 1..Len(c)
  BY <1>1
<1>3. QED BY <1>2 DEF Later, KindIn

LEMMA LaterTrue ==
  ASSUME NEW c, NEW c2, Later(c, c2), NEW e, TrueEntry(c, e)
  PROVE  TrueEntry(c2, e)
<1>1. Len(c) \in Nat /\ Len(c2) \in Nat /\ Len(c) <= Len(c2)
  BY DEF Later, Histories
<1>2. PICK n \in 1..Len(c) : n = Subject(e)
  BY DEF TrueEntry
<1>3. n \in 1..Len(c2)
  BY <1>1
<1>4. QED BY <1>2, <1>3 DEF Later, TrueEntry

LEMMA LaterUpTo ==
  ASSUME NEW c, NEW c2, Later(c, c2), NEW q, NEW n, UpTo(c, q, n)
  PROVE  UpTo(c2, q, n)
<1>1. \A i \in DOMAIN q : TrueEntry(c, q[i]) => TrueEntry(c2, q[i])
  BY LaterTrue
<1>2. QED BY <1>1 DEF UpTo

LEMMA LaterRight ==
  ASSUME NEW c, NEW c2, Later(c, c2), NEW q, Right(c, q)
  PROVE  Right(c2, q)
<1>1. Len(c) \in Nat /\ Len(c2) \in Nat /\ Len(c) <= Len(c2)
  BY DEF Later, Histories
<1>2. UpTo(c2, q, Len(c))
  BY LaterUpTo DEF Right
<1>3. ASSUME NEW i \in DOMAIN q, ~Phantom(q[i]) PROVE Subject(q[i]) <= Len(c2)
  <2>1. PICK m \in 1..Len(c) : m = Subject(q[i])
    BY <1>3 DEF Right, UpTo, TrueEntry
  <2>2. QED BY <1>1, <2>1
<1>4. QED BY <1>2, <1>3 DEF Right, UpTo

LEMMA LaterFlush ==
  ASSUME NEW c, NEW c2, Later(c, c2), NEW s, CmdName(s) \in 0..Len(c), NEW q, NEW e
  PROVE  FlushIn(c2, s, q, e) = FlushIn(c, s, q, e)
BY LaterKind DEF FlushIn, KeepsIn

LEMMA LaterTake ==
  ASSUME NEW c, NEW c2, Later(c, c2), NEW x, Good(c, x), NEW tok
  PROVE  Take(c2, x, tok) = Take(c, x, tok) /\ End(c2, x) = End(c, x)
<1>1. /\ Len(c) \in Nat
      /\ x.r \in RState
      /\ {x.r.cmd, x.r.hint, x.r.echoed, x.r.wez} \subseteq 0..Len(c)
  BY DEF Good, Later, Histories, State
<1>2. ASSUME NEW s, s = x.r \/ s = [x.r EXCEPT !.hint = x.r.wez, !.wez = 0]
      PROVE  CmdName([EchoReset(s) EXCEPT !.capturing = FALSE]) \in 0..Len(c)
  BY <1>1, <1>2 DEF CmdName, EchoReset, RState
<1>3. CmdName([EchoReset(DueAt(x, tok)) EXCEPT !.capturing = FALSE]) \in 0..Len(c)
  BY <1>2 DEF DueAt, Due
<1>4. Take(c2, x, tok) = Take(c, x, tok)
  BY <1>3, LaterFlush DEF Take
<1>5. CmdName(x.r) \in 0..Len(c)
  BY <1>1 DEF CmdName
<1>6. \A open : CmdName([x.r EXCEPT !.done = TRUE, !.open = open]) = CmdName(x.r)
  BY <1>1 DEF CmdName, RState
<1>7. End(c2, x) = End(c, x)
  <2> DEFINE o == x.r.open /\ KindIn(c, x.r) # "exit"
             s == [x.r EXCEPT !.done = TRUE, !.open = o]
             e == EntryOf(s, 0, FALSE)
  <2>1. KindIn(c2, x.r) = KindIn(c, x.r)
    BY <1>5, LaterKind
  <2>2. CmdName(s) \in 0..Len(c)
    BY <1>5, <1>6
  <2>3. End(c, x) = FlushIn(c, s, x.stored, e)
    BY DEF End
  <2>4. End(c2, x) = FlushIn(c2, s, x.stored, e)
    BY <2>1 DEF End
  <2> HIDE DEF s, e
  <2>5. FlushIn(c2, s, x.stored, e) = FlushIn(c, s, x.stored, e)
    BY <2>2, LaterFlush
  <2>6. QED BY <2>3, <2>4, <2>5
<1>8. QED BY <1>4, <1>7

LEMMA LaterGood ==
  ASSUME NEW c, NEW c2, Later(c, c2), NEW x, Good(c, x)
  PROVE  Good(c2, x)
<1>1. 0..Len(c) \subseteq 0..Len(c2)
  BY DEF Later, Histories
<1>2. End(c2, x) = End(c, x)
  BY LaterTake
<1>3. Right(c2, x.stored) /\ Right(c2, End(c2, x).stored)
  BY <1>2, LaterRight DEF Good
<1>4. QED BY <1>1, <1>2, <1>3 DEF Good

LEMMA LaterReads ==
  ASSUME NEW c, NEW c2, Later(c, c2), NEW x, NEW q \in Seq(AllTokens), NEW y, Reads(c, x, q, y)
  PROVE  Reads(c2, x, q, y)
<1>1. PICK st \in [1..Len(q) + 1 -> State] : Path(c, x, q, y, st)
  BY DEF Reads
<1>2. \A i \in 1..Len(q) + 1 : Good(c2, st[i])
  BY <1>1, LaterGood DEF Path
<1>3. \A i \in 1..Len(q) : st[i + 1] = Take(c2, st[i], q[i])
  <2>1. Len(q) \in Nat
    OBVIOUS
  <2>2. QED BY <1>1, <2>1, LaterTake DEF Path
<1>4. QED BY <1>1, <1>2, <1>3 DEF Path, Reads

-----------------------------------------------------------------------------
(***************************************************************************)
(* In which state the recorder is when it has read what the shell wrote.   *)
(***************************************************************************)
Names(s) == {s.cmd, s.hint, s.echoed, s.wez}

\* The text of the n-th command line is known, and is the one to store.
Named(s, n) == n \in {s.cmd, s.hint, s.wez} \/ (s.echoed = n /\ ~s.garbled)

\* The echo shows no command lines but those of ns.
KeysOf(s, ns) == \A i \in DOMAIN s.echo : s.echo[i].t = "keys" => s.echo[i].of \in ns

OutOf(out, n) == \A i \in DOMAIN out : out[i].t = "text" /\ out[i].by = n

\* Of these commands an entry is due.
Wanted(cmd) ==
  ~cmd.off /\ cmd.kind \notin Matching \cup {"exit"} /\ (cmd.told \/ cmd.shown > 0)

Tells(cmd, n, e) ==
  Subject(e) = n /\ (cmd.told => e.name = n /\ ~e.garbled) /\ Len(e.out) = cmd.shown

KeptUpTo(c, q, n) ==
  \A m \in 1..n : Wanted(c[m]) => \E i \in DOMAIN q : Tells(c[m], m, q[i])

\* Between commands: no entry is open, the last command has its entry.
Outside(c, off) ==
  {x \in State :
    /\ ~x.r.done /\ (x.r.paused <=> off)
    /\ ~x.r.open /\ ~x.r.capturing /\ x.r.buf = <<>>
    /\ Names(x.r) = {0} /\ ~x.r.garbled /\ KeysOf(x.r, {0})
    /\ Right(c, x.stored) /\ KeptUpTo(c, x.stored, Len(c))}

\* At a prompt: has says which of its marks have come, "cwd", and either
\* "prompt" or "input" if nothing is echoed yet.
Prompting(c, off, has) ==
  {x \in Outside(c, off) :
    /\ "cwd" \in has => x.r.cwd = Len(c)
    /\ "prompt" \in has => x.r.phase = "prompt" /\ x.r.echo = <<>>
    /\ "input" \in has => x.r.phase = "input" /\ x.r.input /\ x.r.echo = <<>>}

\* The C D of an idle prompt; its entry is a phantom, if it has a text at all.
Bracket(c, off) ==
  {x \in State :
    /\ ~x.r.done /\ (x.r.paused <=> off)
    /\ x.r.open /\ x.r.capturing /\ x.r.buf = <<>>
    /\ Names(x.r) = {0} /\ KeysOf(x.r, {0})
    /\ Right(c, x.stored) /\ KeptUpTo(c, x.stored, Len(c))}

\* A command line is typed and sent off: has says whether C has come, "open",
\* and whether its text has, "named".
Starting(c, off, has) ==
  {x \in State :
    /\ ~x.r.done /\ (x.r.paused <=> off)
    /\ (x.r.open <=> "open" \in has) /\ (x.r.capturing <=> "open" \in has) /\ x.r.buf = <<>>
    /\ Names(x.r) \subseteq {0, Len(c)} /\ KeysOf(x.r, {0, Len(c)})
    /\ "open" \in has => x.r.phase = "off" /\ ~x.r.alt
    /\ "named" \in has => Len(c) \in {x.r.cmd, x.r.hint, x.r.wez}
    /\ x.r.cwd = c[Len(c)].dir
    /\ UpTo(c, x.stored, Len(c) - 1) /\ Bare(x.stored) /\ KeptUpTo(c, x.stored, Len(c) - 1)}

\* The last command runs, or has run and its D is still to come.
Inside(c, off) ==
  {x \in State :
    /\ ~x.r.done /\ (x.r.paused <=> off)
    /\ x.r.open /\ x.r.capturing /\ x.r.phase = "off"
    /\ Names(x.r) \subseteq {0, Len(c)}
    /\ c[Len(c)].told => Named(x.r, Len(c))
    /\ x.r.cwd = c[Len(c)].dir
    /\ OutOf(x.r.buf, Len(c)) /\ Len(x.r.buf) = c[Len(c)].shown
    /\ "script" \notin Kinds => off \/ Shown(x.r.buf)
    /\ c[Len(c)].kind = "exit" => x.r.buf = <<>>
    /\ UpTo(c, x.stored, Len(c) - 1) /\ Bare(x.stored) /\ KeptUpTo(c, x.stored, Len(c) - 1)}

\* What the entry of the last command is about.
LEMMA SubjectIs ==
  ASSUME NEW s, NEW n \in Nat, n # 0, Names(s) \subseteq {0, n}, OutOf(s.buf, n),
         s.buf \in Seq(Tokens), CmdName(s) = 0 => s.buf # <<>>, NEW code, NEW ok
  PROVE  /\ Subject(EntryOf(s, code, ok)) = n
         /\ EntryOf(s, code, ok).name = CmdName(s)
         /\ EntryOf(s, code, ok).out = s.buf
<1>1. CmdName(s) \in {0, n}
  BY DEF CmdName, Names
<1>2. EntryOf(s, code, ok).name = CmdName(s) /\ EntryOf(s, code, ok).out = s.buf
  BY DEF EntryOf
<1>3. CASE CmdName(s) = n
  BY <1>2, <1>3 DEF Subject
<1>4. CASE CmdName(s) = 0
  <2>1. 1 \in DOMAIN s.buf
    BY <1>4
  <2>2. QED BY <1>2, <1>4, <2>1 DEF Subject, OutOf
<1>5. QED BY <1>1, <1>3, <1>4

\* It may be stored after those of the commands before.
LEMMA StoreRight ==
  ASSUME NEW c \in Histories, NEW q \in Seq(Entry), NEW e \in Entry, Len(c) >= 1,
         UpTo(c, q, Len(c) - 1), Bare(q),
         TrueEntry(c, e), Subject(e) = Len(c), "script" \notin Kinds => Shown(e.out)
  PROVE  Right(c, Append(q, e))
<1>1. /\ Len(c) \in Nat /\ Len(q) \in Nat /\ Append(q, e) \in Seq(Entry)
      /\ Len(Append(q, e)) = Len(q) + 1 /\ DOMAIN Append(q, e) = 1..Len(q) + 1
      /\ \A i \in 1..Len(q) : Append(q, e)[i] = q[i] /\ i \in DOMAIN q
      /\ Append(q, e)[Len(q) + 1] = e
  BY DEF Histories
<1> DEFINE q2 == Append(q, e)
<1> HIDE DEF q2
<1>2. \A i \in 1..Len(q) :
        Phantom(q[i]) \/ (TrueEntry(c, q[i]) /\ Subject(q[i]) <= Len(c) - 1)
  BY <1>1 DEF UpTo
<1>3. \A i \in 1..Len(q) : Phantom(q[i]) \/ (Subject(q[i]) \in Nat /\ Subject(q[i]) < Len(c))
  <2>1. \A i \in 1..Len(q) : Phantom(q[i]) \/ Subject(q[i]) \in 1..Len(c)
    BY <1>2 DEF TrueEntry
  <2>2. \A a, b \in Nat : a <= b - 1 => a < b
    OBVIOUS
  <2>3. QED BY <1>1, <1>2, <2>1, <2>2
<1>4. \A i \in DOMAIN q2 : Phantom(q2[i]) \/ (TrueEntry(c, q2[i]) /\ Subject(q2[i]) <= Len(c))
  <2>1. ASSUME NEW i \in DOMAIN q2, ~Phantom(q2[i])
        PROVE  TrueEntry(c, q2[i]) /\ Subject(q2[i]) <= Len(c)
    <3>1. i \in 1..Len(q) \/ i = Len(q) + 1
      BY <1>1 DEF q2
    <3>2. QED BY <1>1, <1>2, <1>3, <2>1, <3>1 DEF q2
  <2>2. QED BY <2>1
<1>5. \A i, j \in DOMAIN q2 :
        i < j /\ ~Phantom(q2[i]) /\ ~Phantom(q2[j]) => Subject(q2[i]) < Subject(q2[j])
  <2>1. ASSUME NEW i \in DOMAIN q2, NEW j \in DOMAIN q2, i < j, ~Phantom(q2[i]), ~Phantom(q2[j])
        PROVE  Subject(q2[i]) < Subject(q2[j])
    <3>1. i \in 1..Len(q) /\ (j \in 1..Len(q) \/ j = Len(q) + 1)
      BY <1>1, <2>1 DEF q2
    <3>2. q2[i] = q[i] /\ (j \in 1..Len(q) => q2[j] = q[j]) /\ q2[Len(q) + 1] = e
      BY <1>1, <3>1 DEF q2
    <3>3. CASE j \in 1..Len(q)
      BY <1>1, <2>1, <3>1, <3>2, <3>3 DEF UpTo
    <3>4. CASE j = Len(q) + 1
      BY <1>3, <2>1, <3>1, <3>2, <3>4
    <3>5. QED BY <3>1, <3>3, <3>4
  <2>2. QED BY <2>1
<1>6. Bare(q2)
  <2>1. ASSUME "script" \notin Kinds, NEW i \in DOMAIN q2 PROVE Shown(q2[i].out)
    <3>1. i \in 1..Len(q) \/ i = Len(q) + 1
      BY <1>1 DEF q2
    <3>2. QED BY <1>1, <2>1, <3>1 DEF q2, Bare
  <2>2. QED BY <2>1 DEF Bare
<1>7. QED BY <1>4, <1>5, <1>6 DEF Right, UpTo, q2

\* Storing it keeps what was stored.
LEMMA StoreKeeps ==
  ASSUME NEW c \in Histories, NEW q \in Seq(Entry), NEW e \in Entry, Len(c) >= 1,
         KeptUpTo(c, q, Len(c) - 1), Wanted(c[Len(c)]) => Tells(c[Len(c)], Len(c), e)
  PROVE  KeptUpTo(c, Append(q, e), Len(c))
<1>1. /\ Len(c) \in Nat /\ Len(q) \in Nat
      /\ DOMAIN Append(q, e) = 1..Len(q) + 1
      /\ \A i \in DOMAIN q : Append(q, e)[i] = q[i] /\ i \in 1..Len(q) + 1
      /\ Append(q, e)[Len(q) + 1] = e /\ Len(q) + 1 \in 1..Len(q) + 1
  BY DEF Histories
<1>2. ASSUME NEW m \in 1..Len(c), Wanted(c[m])
      PROVE  \E i \in DOMAIN Append(q, e) : Tells(c[m], m, Append(q, e)[i])
  <2>1. CASE m = Len(c)
    BY <1>1, <1>2, <2>1
  <2>2. CASE m # Len(c)
    <3>1. m \in 1..Len(c) - 1
      BY <1>1, <2>2
    <3>2. PICK i \in DOMAIN q : Tells(c[m], m, q[i])
      BY <1>2, <3>1 DEF KeptUpTo
    <3>3. QED BY <1>1, <3>2
  <2>3. QED BY <2>1, <2>2
<1>3. QED BY <1>2 DEF KeptUpTo

\* A phantom changes nothing.
LEMMA StorePhantom ==
  ASSUME NEW c \in Histories, NEW q \in Seq(Entry), NEW e \in Entry, Phantom(e), Right(c, q)
  PROVE  /\ Right(c, Append(q, e))
         /\ \A n : KeptUpTo(c, q, n) => KeptUpTo(c, Append(q, e), n)
<1>1. /\ Len(q) \in Nat
      /\ DOMAIN Append(q, e) = 1..Len(q) + 1
      /\ \A i \in DOMAIN q : Append(q, e)[i] = q[i] /\ i \in 1..Len(q) + 1
      /\ Append(q, e)[Len(q) + 1] = e
      /\ \A i \in 1..Len(q) + 1 : i \in DOMAIN q \/ i = Len(q) + 1
  OBVIOUS
<1> DEFINE q2 == Append(q, e)
<1> HIDE DEF q2
<1>2. \A i \in DOMAIN q2 : (i \in DOMAIN q /\ q2[i] = q[i]) \/ Phantom(q2[i])
  BY <1>1 DEF q2
<1>3. UpTo(c, q2, Len(c))
  BY <1>2 DEF Right, UpTo
<1>4. Shown(e.out)
  BY DEF Phantom, Shown
<1>5. Bare(q2)
  BY <1>1, <1>4 DEF Right, Bare, q2
<1>6. \A n : KeptUpTo(c, q, n) => KeptUpTo(c, q2, n)
  BY <1>1 DEF KeptUpTo, q2
<1>7. QED BY <1>3, <1>5, <1>6 DEF Right, q2

\* One that is not wanted may be left out.
LEMMA LeaveOut ==
  ASSUME NEW c \in Histories, NEW q \in Seq(Entry), Len(c) >= 1,
         KeptUpTo(c, q, Len(c) - 1), ~Wanted(c[Len(c)])
  PROVE  KeptUpTo(c, q, Len(c))
<1>1. Len(c) \in Nat /\ \A m \in 1..Len(c) : m = Len(c) \/ m \in 1..Len(c) - 1
  BY DEF Histories
<1>2. QED BY <1>1 DEF KeptUpTo

\* What is right before the last command is right.
LEMMA RightBefore ==
  ASSUME NEW c \in Histories, NEW q, Len(c) >= 1, UpTo(c, q, Len(c) - 1), Bare(q)
  PROVE  Right(c, q)
<1>1. Len(c) \in Nat
  BY DEF Histories
<1>2. \A i \in DOMAIN q : Phantom(q[i]) \/ Subject(q[i]) \in 1..Len(c)
  BY DEF UpTo, TrueEntry
<1>3. QED BY <1>1, <1>2 DEF Right, UpTo

-----------------------------------------------------------------------------
(***************************************************************************)
(* In each of these states the loop may end.                               *)
(***************************************************************************)

LEMMA EntryOfType ==
  ASSUME NEW s \in RState, NEW code \in 0..1, NEW ok \in BOOLEAN
  PROVE  EntryOf(s, code, ok) \in Entry
<1>1. Garbled(s) \in BOOLEAN
  BY DEF Garbled
<1>2. CmdName(s) \in 0..MaxCommands /\ s.buf \in Seq(Tokens) /\ s.cwd \in 0..MaxCommands
  BY DEF CmdName, RState
<1>3. QED BY <1>1, <1>2 DEF EntryOf, Entry

LEMMA GoodClosed ==
  ASSUME NEW c \in Histories, NEW x \in State, ~x.r.done, ~x.r.open, ~x.r.capturing,
         x.r.buf = <<>>, Names(x.r) \subseteq 0..Len(c), Right(c, x.stored)
  PROVE  Good(c, x)
<1> DEFINE s == [x.r EXCEPT !.done = TRUE, !.open = @ /\ KindIn(c, x.r) # "exit"]
<1>1. x.r \in RState
  BY DEF State
<1>2. ~s.open /\ s.buf = <<>>
  BY <1>1 DEF RState
<1> HIDE DEF s
<1>3. ~KeepsIn(c, s)
  BY <1>2 DEF KeepsIn
<1>4. End(c, x).r = s /\ End(c, x).stored = x.stored
  BY <1>2, <1>3 DEF End, FlushIn, s
<1>5. QED BY <1>2, <1>4 DEF Good, Names

LEMMA GoodEmpty ==
  ASSUME NEW c \in Histories, NEW x \in State, ~x.r.done, x.r.open, x.r.buf = <<>>,
         Names(x.r) = {0}, Right(c, x.stored)
  PROVE  Good(c, x)
<1> DEFINE s == [x.r EXCEPT !.done = TRUE, !.open = @ /\ KindIn(c, x.r) # "exit"]
           e == EntryOf(s, 0, FALSE)
<1>1. x.r \in RState /\ Len(c) \in Nat /\ x.stored \in Seq(Entry)
  BY DEF State, Histories
<1>2. s \in RState /\ s.buf = <<>> /\ CmdName(s) = 0
  BY <1>1 DEF RState, CmdName, Names
<1> HIDE DEF s
<1>3. Right(c, IF KeepsIn(c, s) THEN Append(x.stored, e) ELSE x.stored)
  <2>1. KeepsIn(c, s) => Garbled(s)
    BY <1>2 DEF KeepsIn, KindIn
  <2>2. e \in Entry
    <3>1. 0 \in 0..1 /\ FALSE \in BOOLEAN
      OBVIOUS
    <3> HIDE DEF e
    <3>2. e \in Entry
      BY <1>2, <3>1, EntryOfType DEF e
    <3>3. QED BY <3>2
  <2>3. Garbled(s) => Phantom(e)
    BY <1>2 DEF Phantom, EntryOf
  <2>4. QED BY <1>1, <2>1, <2>2, <2>3, StorePhantom
<1>4. Forget(s).buf = <<>>
  <2>1. s \in RState
    BY <1>1 DEF s, RState
  <2>2. QED BY <2>1 DEF Forget, RState
<1>5. End(c, x).r.buf = <<>> /\ Right(c, End(c, x).stored)
  BY <1>2, <1>3, <1>4 DEF End, FlushIn, s
<1>6. Names(x.r) \subseteq 0..Len(c)
  BY <1>1
<1>7. QED BY <1>5, <1>6 DEF Good, Names

LEMMA GoodOpen ==
  ASSUME NEW c \in Histories, Len(c) >= 1, NEW x \in State, ~x.r.done, x.r.open,
         Names(x.r) \subseteq {0, Len(c)}, OutOf(x.r.buf, Len(c)),
         x.r.cwd = c[Len(c)].dir,
         "script" \notin Kinds => x.r.paused \/ Shown(x.r.buf),
         c[Len(c)].kind = "exit" => x.r.buf = <<>>,
         UpTo(c, x.stored, Len(c) - 1), Bare(x.stored)
  PROVE  Good(c, x)
<1> DEFINE n == Len(c)
           s == [x.r EXCEPT !.done = TRUE, !.open = @ /\ KindIn(c, x.r) # "exit"]
           e == EntryOf(s, 0, FALSE)
<1>1. x.r \in RState /\ n \in Nat /\ x.stored \in Seq(Entry) /\ n # 0 /\ n \in 1..Len(c)
  BY DEF State, Histories
<1>2. /\ s \in RState /\ s.buf = x.r.buf /\ s.cwd = x.r.cwd /\ (s.paused <=> x.r.paused)
      /\ Names(s) = Names(x.r) /\ CmdName(s) = CmdName(x.r) /\ (Garbled(s) <=> Garbled(x.r))
      /\ s.open <=> KindIn(c, x.r) # "exit"
  BY <1>1 DEF RState, Names, CmdName, Garbled
<1>3. CmdName(s) \in {0, n}
  BY <1>2 DEF CmdName, Names
<1> HIDE DEF n, s
<1>4. s.buf \in Seq(Tokens)
  BY <1>2 DEF RState
<1>5. e.cwd = s.cwd /\ ~e.ok
  BY DEF EntryOf
<1>6. e \in Entry /\ (CmdName(s) = 0 /\ Garbled(s) /\ s.buf = <<>> => Phantom(e))
  <2>1. 0 \in 0..1 /\ FALSE \in BOOLEAN
    OBVIOUS
  <2>2. CmdName(s) = 0 /\ Garbled(s) /\ s.buf = <<>> => Phantom(e)
    BY DEF Phantom, EntryOf
  <2> HIDE DEF e
  <2>3. e \in Entry
    BY <1>2, <2>1, EntryOfType DEF e
  <2>4. QED BY <2>2, <2>3
<1> HIDE DEF e
<1>7. Right(c, x.stored)
  BY <1>1, RightBefore
<1>8. ASSUME KeepsIn(c, s), ~Phantom(e) PROVE Right(c, Append(x.stored, e))
  <2>1. Subject(e) = n /\ e.out = s.buf
    <3>1. OutOf(s.buf, n) /\ Names(s) \subseteq {0, n}
      BY <1>2 DEF n
    <3>2. CmdName(s) = 0 => s.buf # <<>>
      BY <1>6, <1>8 DEF KeepsIn, KindIn
    <3>3. QED BY <1>1, <1>4, <3>1, <3>2, SubjectIs DEF e
  <2>2. TrueEntry(c, e)
    BY <1>1, <1>2, <1>5, <2>1 DEF TrueEntry, OutOf, n
  <2>3. "script" \notin Kinds => Shown(e.out)
    BY <1>2, <1>8, <2>1 DEF KeepsIn
  <2>4. QED BY <1>1, <1>6, <2>1, <2>2, <2>3, StoreRight DEF n
<1>9. Right(c, End(c, x).stored)
  <2>1. End(c, x).stored = IF KeepsIn(c, s) THEN Append(x.stored, e) ELSE x.stored
    BY DEF End, FlushIn, s, e
  <2>2. Phantom(e) => Right(c, Append(x.stored, e))
    BY <1>1, <1>6, <1>7, StorePhantom
  <2>3. QED BY <1>7, <1>8, <2>1, <2>2
<1>10. End(c, x).r.buf = <<>>
  <2>1. End(c, x).r = IF s.open THEN Forget(s) ELSE s
    BY DEF End, FlushIn, s
  <2>2. Forget(s).buf = <<>>
    BY <1>2 DEF Forget, RState
  <2>3. ASSUME ~s.open PROVE s.buf = <<>>
    <3>1. KindIn(c, s) = "exit"
      BY <1>2, <2>3 DEF KindIn
    <3>2. c[n].kind = "exit"
      BY <1>3, <3>1 DEF KindIn
    <3>3. QED BY <1>2, <3>2 DEF n
  <2>4. QED BY <2>1, <2>2, <2>3
<1>11. Names(x.r) \subseteq 0..Len(c)
  BY <1>1 DEF n
<1>12. QED BY <1>7, <1>9, <1>10, <1>11 DEF Good, Names

LEMMA GoodStates ==
  ASSUME NEW c \in Histories, NEW off
  PROVE  /\ \A x \in Outside(c, off) \cup Bracket(c, off) : Good(c, x)
         /\ Len(c) >= 1 =>
              /\ \A x \in Inside(c, off) : Good(c, x)
              /\ \A has : \A x \in Starting(c, off, has) : Good(c, x)
<1>1. Len(c) \in Nat
  BY DEF Histories
<1>2. ASSUME NEW x \in Outside(c, off) PROVE Good(c, x)
  BY <1>1, GoodClosed DEF Outside
<1>3. ASSUME NEW x \in Bracket(c, off) PROVE Good(c, x)
  BY GoodEmpty DEF Bracket
<1>4. ASSUME Len(c) >= 1, NEW x \in Inside(c, off) PROVE Good(c, x)
  BY <1>4, GoodOpen DEF Inside
<1>5. ASSUME Len(c) >= 1, NEW has, NEW x \in Starting(c, off, has)
      PROVE  Good(c, x)
  <2>1. /\ x \in State /\ ~x.r.done /\ x.r.buf = <<>> /\ Names(x.r) \subseteq {0, Len(c)}
        /\ x.r.cwd = c[Len(c)].dir /\ UpTo(c, x.stored, Len(c) - 1) /\ Bare(x.stored)
        /\ x.r.open <=> x.r.capturing
    BY <1>5 DEF Starting
  <2>2. OutOf(x.r.buf, Len(c)) /\ Shown(x.r.buf)
    BY <2>1 DEF OutOf, Shown
  <2>3. CASE x.r.open
    BY <1>5, <2>1, <2>2, <2>3, GoodOpen
  <2>4. CASE ~x.r.open
    <3>1. Right(c, x.stored)
      BY <1>5, <2>1, RightBefore
    <3>2. Names(x.r) \subseteq 0..Len(c)
      BY <1>1, <2>1
    <3>3. QED BY <2>1, <2>4, <3>1, <3>2, GoodClosed
  <2>5. QED BY <2>3, <2>4
<1>6. QED BY <1>2, <1>3, <1>4, <1>5

-----------------------------------------------------------------------------
(***************************************************************************)
(* Prompts, token by token.                                                *)
(***************************************************************************)

LEMMA TokensKnown ==
  /\ {A, A2, B, C, BareD} \subseteq AllTokens
  /\ \A code \in 0..1 : D(code) \in AllTokens
  /\ \A n \in 0..MaxCommands : {Cmd(n), Hint(n), SplitHint(n), Cwd(n)} \subseteq AllTokens
  /\ \A on \in BOOLEAN : Rec(on) \in AllTokens /\ Alt(on) \in AllTokens
  /\ Tokens \subseteq AllTokens
BY DEF AllTokens

\* What each operation of the recorder changes, field by field.
SameEntry(s, t) ==
  /\ t.open = s.open /\ t.capturing = s.capturing /\ t.buf = s.buf /\ t.cwd = s.cwd
  /\ t.paused = s.paused /\ t.done = s.done /\ t.alt = s.alt
SameNames(s, t) ==
  /\ t.cmd = s.cmd /\ t.hint = s.hint /\ t.wez = s.wez
  /\ t.echoed = s.echoed /\ t.garbled = s.garbled
SameEcho(s, t) == t.phase = s.phase /\ t.input = s.input /\ t.echo = s.echo

LEMMA EchoResetIs ==
  ASSUME NEW s \in RState
  PROVE  LET t == EchoReset(s)
         IN  /\ t \in RState /\ SameEntry(s, t) /\ SameNames(s, t)
             /\ t.phase = "off" /\ ~t.input /\ t.echo = <<>>
<1>1. <<>> \in Seq(Tokens)
  OBVIOUS
<1>2. EchoReset(s) \in RState
  BY <1>1 DEF EchoReset, RState
<1>3. SameEntry(s, EchoReset(s)) /\ SameNames(s, EchoReset(s))
  BY DEF EchoReset, RState, SameEntry, SameNames
<1>4. QED BY <1>2, <1>3 DEF EchoReset, RState

LEMMA PromptStartIs ==
  ASSUME NEW s \in RState
  PROVE  LET t == PromptStart(s)
         IN  /\ t \in RState /\ SameEntry(s, t) /\ SameNames(s, t)
             /\ t.phase = "prompt" /\ ~t.input /\ t.echo = <<>>
<1>1. PICK u \in RState : u = EchoReset(s)
  BY EchoResetIs
<1>2. PromptStart(s) = [u EXCEPT !.phase = "prompt"]
  BY <1>1 DEF PromptStart
<1>3. [u EXCEPT !.phase = "prompt"] \in RState
  BY DEF RState
<1>4. PICK t \in RState : t = PromptStart(s)
  BY <1>2, <1>3
<1>5. SameEntry(u, t) /\ SameNames(u, t) /\ t.phase = "prompt" /\ t.input = u.input /\ t.echo = u.echo
  BY <1>2, <1>4 DEF RState, SameEntry, SameNames
<1>6. SameEntry(s, u) /\ SameNames(s, u) /\ ~u.input /\ u.echo = <<>>
  BY <1>1, EchoResetIs
<1>7. QED BY <1>4, <1>5, <1>6 DEF SameEntry, SameNames

LEMMA MarkBIs ==
  ASSUME NEW s \in RState
  PROVE  LET t == MarkB(s)
         IN  /\ t \in RState /\ SameEntry(s, t) /\ SameNames(s, t)
             /\ t.phase = "input" /\ t.input
             /\ t.echo = IF s.phase = "prompt" THEN s.echo ELSE <<>>
<1>1. PICK u \in RState : u = IF s.phase = "prompt" THEN s ELSE EchoReset(s)
  BY EchoResetIs
<1>2. SameEntry(s, u) /\ SameNames(s, u) /\ u.echo = IF s.phase = "prompt" THEN s.echo ELSE <<>>
  BY <1>1, EchoResetIs DEF SameEntry, SameNames
<1>3. MarkB(s) = [u EXCEPT !.phase = "input", !.input = TRUE]
  BY <1>1 DEF MarkB
<1>4. [u EXCEPT !.phase = "input", !.input = TRUE] \in RState
  BY DEF RState
<1>5. QED BY <1>2, <1>3, <1>4 DEF RState, SameEntry, SameNames

LEMMA DueIs ==
  ASSUME NEW s \in RState
  PROVE  LET t == Due(s)
         IN  /\ t \in RState /\ SameEntry(s, t) /\ SameEcho(s, t)
             /\ t.cmd = s.cmd /\ t.echoed = s.echoed /\ t.garbled = s.garbled /\ t.wez = 0
             /\ t.hint = IF s.wez # 0 THEN s.wez ELSE s.hint
<1>1. [s EXCEPT !.hint = s.wez, !.wez = 0] \in RState
  <2>1. 0 \in 0..MaxCommands
    BY RecorderAssumption
  <2>2. QED BY <2>1 DEF RState
<1>2. CASE s.wez = 0
  BY <1>2 DEF Due, SameEntry, SameEcho
<1>3. CASE s.wez # 0
  <2>1. Due(s) = [s EXCEPT !.hint = s.wez, !.wez = 0] /\ Due(s) \in RState
    BY <1>1, <1>3 DEF Due
  <2>2. QED BY <1>3, <2>1 DEF RState, SameEntry, SameEcho
<1>4. QED BY <1>2, <1>3

LEMMA ReconstructIs ==
  ASSUME NEW echo \in Seq(Tokens), NEW ns,
         \A i \in DOMAIN echo : echo[i].t = "keys" => echo[i].of \in ns
  PROVE  /\ Reconstruct(echo) \in 0..MaxCommands
         /\ Reconstruct(echo) \in ns \cup {0}
         /\ Garbles(echo) \in BOOLEAN
         /\ \A n \in Numbers :
              echo = <<Keys(n, 1), Keys(n, 2)>> => Reconstruct(echo) = n /\ ~Garbles(echo)
<1>1. ASSUME NEW n \in Numbers, echo = <<Keys(n, 1), Keys(n, 2)>>
      PROVE  Reconstruct(echo) = n /\ ~Garbles(echo)
  <2>1. /\ echo[1] = Keys(n, 1) /\ echo[2] = Keys(n, 2) /\ Len(echo) = 2
        /\ DOMAIN echo = 1..2 /\ echo # <<>>
    BY <1>1
  <2>2. /\ \A p \in {1, 2} : Keys(n, p).t = "keys" /\ Keys(n, p).part # 0
        /\ Keys(n, 2).of = n
    BY DEF Keys
  <2>3. Legible(echo)
    <3>1. \A i \in 1..2 : i = 1 \/ i = 2
      OBVIOUS
    <3>2. QED BY <2>1, <2>2, <3>1 DEF Legible
  <2>4. QED BY <1>1, <2>1, <2>2, <2>3 DEF Reconstruct, Garbles
<1>2. CASE Legible(echo) /\ echo[Len(echo)].t = "keys"
  <2>1. Len(echo) \in DOMAIN echo
    BY <1>2 DEF Legible
  <2>2. echo[Len(echo)] \in Tokens /\ echo[Len(echo)].of \in ns
    BY <1>2, <2>1
  <2>3. echo[Len(echo)].of \in 0..MaxCommands
    BY <1>2, <2>2 DEF Tokens
  <2>4. Reconstruct(echo) = echo[Len(echo)].of
    BY <1>2 DEF Reconstruct
  <2>5. QED BY <1>1, <2>2, <2>3, <2>4 DEF Garbles
<1>3. CASE ~(Legible(echo) /\ echo[Len(echo)].t = "keys")
  <2>1. Reconstruct(echo) = 0
    BY <1>3 DEF Reconstruct
  <2>2. 0 \in 0..MaxCommands
    BY RecorderAssumption
  <2>3. QED BY <1>1, <2>1, <2>2 DEF Garbles
<1>4. QED BY <1>2, <1>3

LEMMA MarkCIs ==
  ASSUME NEW s \in RState
  PROVE  LET t == MarkC(s)
         IN  /\ t \in RState /\ t.capturing /\ t.open /\ ~t.alt /\ t.buf = <<>>
             /\ t.cwd = s.cwd /\ t.paused = s.paused /\ t.done = s.done
             /\ t.cmd = s.cmd /\ t.hint = s.hint /\ t.wez = s.wez
             /\ t.echoed = IF s.input THEN Reconstruct(s.echo) ELSE s.echoed
             /\ t.garbled = IF s.input THEN Garbles(s.echo) ELSE s.garbled
             /\ t.phase = "off" /\ ~t.input /\ t.echo = <<>>
<1>1. PICK u \in RState : u = EchoReset(s)
  BY EchoResetIs
<1>2. SameEntry(s, u) /\ SameNames(s, u) /\ u.phase = "off" /\ ~u.input /\ u.echo = <<>>
  BY <1>1, EchoResetIs
<1>3. PICK m \in 0..MaxCommands, g \in BOOLEAN :
        /\ m = IF s.input THEN Reconstruct(s.echo) ELSE s.echoed
        /\ g = IF s.input THEN Garbles(s.echo) ELSE s.garbled
  <2>1. Reconstruct(s.echo) \in 0..MaxCommands /\ Garbles(s.echo) \in BOOLEAN
    <3>1. s.echo \in Seq(Tokens)
      BY DEF RState
    <3>2. \A i \in DOMAIN s.echo : s.echo[i].t = "keys" => s.echo[i].of \in {s.echo[k].of : k \in DOMAIN s.echo}
      OBVIOUS
    <3>3. QED BY <3>1, <3>2, ReconstructIs
  <2>2. s.echoed \in 0..MaxCommands /\ s.garbled \in BOOLEAN
    BY DEF RState
  <2>3. QED BY <2>1, <2>2
<1> DEFINE t == [u EXCEPT !.capturing = TRUE, !.alt = FALSE, !.echoed = m, !.garbled = g,
                          !.open = TRUE, !.buf = <<>>]
<1>4. MarkC(s) = t
  <2>1. u.echoed = s.echoed /\ u.garbled = s.garbled
    BY <1>2 DEF SameNames
  <2>2. QED BY <1>1, <1>3, <2>1 DEF MarkC
<1>5. t \in RState
  <2>1. <<>> \in Seq(Tokens)
    OBVIOUS
  <2>2. QED BY <2>1 DEF RState
<1>6. /\ t.capturing /\ t.open /\ ~t.alt /\ t.buf = <<>> /\ t.echoed = m /\ t.garbled = g
      /\ t.cwd = u.cwd /\ t.paused = u.paused /\ t.done = u.done
      /\ t.cmd = u.cmd /\ t.hint = u.hint /\ t.wez = u.wez
      /\ t.phase = u.phase /\ t.input = u.input /\ t.echo = u.echo
  BY DEF RState
<1> HIDE DEF t
<1>7. QED BY <1>2, <1>3, <1>4, <1>5, <1>6 DEF SameEntry, SameNames

\* What the recorder knows of names once it has seen a further mark.
Moved(s, t) ==
  /\ t.cmd = s.cmd /\ t.echoed = s.echoed /\ t.garbled = s.garbled /\ t.wez = 0
  /\ t.hint = IF s.wez # 0 THEN s.wez ELSE s.hint

LEMMA MovedNames ==
  ASSUME NEW s, NEW t, Moved(s, t), NEW n, Names(s) \subseteq {0, n}
  PROVE  /\ Names(t) \subseteq {0, n}
         /\ n \in {s.cmd, s.hint, s.wez} => n \in {t.cmd, t.hint, t.wez}
         /\ n # 0 /\ Named(s, n) => Named(t, n)
BY DEF Moved, Names, Named

LEMMA TakeMark ==
  ASSUME NEW c, NEW x \in State, NEW tok, IsOSC(tok), tok.t # "D"
  PROVE  /\ Take(c, x, tok) = [r |-> Observe(Due(x.r), tok), stored |-> x.stored]
         /\ Due(x.r) \in RState
<1>1. x.r \in RState
  BY DEF State
<1>2. QED BY <1>1, DueIs DEF Take, DueAt

LEMMA TakeA ==
  ASSUME NEW c, NEW x \in State
  PROVE  LET y == Take(c, x, A)
         IN  /\ y \in State /\ y.stored = x.stored /\ SameEntry(x.r, y.r) /\ Moved(x.r, y.r)
             /\ y.r.phase = "prompt" /\ ~y.r.input /\ y.r.echo = <<>>
<1>1. A.t = "A" /\ IsOSC(A)
  BY DEF A, IsOSC
<1>2. PICK s \in RState : s = Due(x.r)
  BY DueIs DEF State
<1>3. Take(c, x, A) = [r |-> PromptStart(s), stored |-> x.stored]
  BY <1>1, <1>2, TakeMark DEF Observe
<1>4. x.r \in RState /\ x.stored \in Seq(Entry)
  BY DEF State
<1>5. SameEntry(x.r, s) /\ Moved(x.r, s)
  BY <1>2, <1>4, DueIs DEF Moved
<1>6. PICK t \in RState : t = PromptStart(s)
  BY PromptStartIs
<1>7. SameEntry(x.r, t) /\ Moved(x.r, t)
  BY <1>5, <1>6, PromptStartIs DEF SameEntry, SameNames, Moved
<1>8. [r |-> t, stored |-> x.stored] \in State
  BY <1>4 DEF State
<1>9. QED BY <1>3, <1>6, <1>7, <1>8, PromptStartIs

LEMMA TakeB ==
  ASSUME NEW c, NEW x \in State
  PROVE  LET y == Take(c, x, B)
         IN  /\ y \in State /\ y.stored = x.stored /\ SameEntry(x.r, y.r) /\ Moved(x.r, y.r)
             /\ y.r.phase = "input" /\ y.r.input
             /\ y.r.echo = IF x.r.phase = "prompt" THEN x.r.echo ELSE <<>>
<1>1. B.t = "B" /\ IsOSC(B)
  BY DEF B, IsOSC
<1>2. PICK s \in RState : s = Due(x.r)
  BY DueIs DEF State
<1>3. Take(c, x, B) = [r |-> MarkB(s), stored |-> x.stored]
  BY <1>1, <1>2, TakeMark DEF Observe
<1>4. x.r \in RState /\ x.stored \in Seq(Entry)
  BY DEF State
<1>5. SameEntry(x.r, s) /\ SameEcho(x.r, s) /\ Moved(x.r, s)
  BY <1>2, <1>4, DueIs DEF Moved
<1>6. PICK t \in RState : t = MarkB(s)
  BY MarkBIs
<1>7. SameEntry(x.r, t) /\ Moved(x.r, t)
  BY <1>5, <1>6, MarkBIs DEF SameEntry, SameNames, Moved
<1>8. t.phase = "input" /\ t.input /\ t.echo = IF x.r.phase = "prompt" THEN x.r.echo ELSE <<>>
  BY <1>5, <1>6, MarkBIs DEF SameEcho
<1>9. [r |-> t, stored |-> x.stored] \in State
  BY <1>4 DEF State
<1>10. QED BY <1>3, <1>6, <1>7, <1>8, <1>9

LEMMA TakeA2 ==
  ASSUME NEW c, NEW x \in State
  PROVE  LET y == Take(c, x, A2)
         IN  /\ y \in State /\ y.stored = x.stored /\ SameEntry(x.r, y.r) /\ Moved(x.r, y.r)
             /\ y.r.phase = "prompt"
             /\ y.r.echo = IF x.r.input THEN x.r.echo ELSE <<>>
             /\ x.r.input => y.r.input
<1>1. A2.t = "A2" /\ IsOSC(A2)
  BY DEF A2, IsOSC
<1>2. PICK s \in RState : s = Due(x.r)
  BY DueIs DEF State
<1>3. Take(c, x, A2) = [r |-> SecondPrompt(s), stored |-> x.stored]
  BY <1>1, <1>2, TakeMark DEF Observe
<1>4. x.r \in RState /\ x.stored \in Seq(Entry)
  BY DEF State
<1>5. SameEntry(x.r, s) /\ SameEcho(x.r, s) /\ Moved(x.r, s)
  BY <1>2, <1>4, DueIs DEF Moved
<1>6. /\ SecondPrompt(s) \in RState /\ SameEntry(s, SecondPrompt(s)) /\ SameNames(s, SecondPrompt(s))
      /\ SecondPrompt(s).phase = "prompt"
      /\ SecondPrompt(s).echo = IF s.input THEN s.echo ELSE <<>>
      /\ s.input => SecondPrompt(s).input
  <2>1. CASE s.input
    <3>1. SecondPrompt(s) = [s EXCEPT !.phase = "prompt"]
      BY <2>1 DEF SecondPrompt
    <3>2. [s EXCEPT !.phase = "prompt"] \in RState
      BY DEF RState
    <3>3. QED BY <2>1, <3>1, <3>2 DEF RState, SameEntry, SameNames
  <2>2. CASE ~s.input
    BY <2>2, PromptStartIs DEF SecondPrompt
  <2>3. QED BY <2>1, <2>2
<1>7. PICK t \in RState : t = SecondPrompt(s)
  BY <1>6
<1>8. SameEntry(x.r, t) /\ Moved(x.r, t)
  BY <1>5, <1>6, <1>7 DEF SameEntry, SameNames, Moved
<1>9. /\ t.phase = "prompt" /\ t.echo = IF x.r.input THEN x.r.echo ELSE <<>>
      /\ x.r.input => t.input
  BY <1>5, <1>6, <1>7 DEF SameEcho
<1>10. [r |-> t, stored |-> x.stored] \in State
  BY <1>4 DEF State
<1>11. QED BY <1>3, <1>7, <1>8, <1>9, <1>10

LEMMA TakeC ==
  ASSUME NEW c, NEW x \in State
  PROVE  LET y == Take(c, x, C)
         IN  /\ y \in State /\ y.stored = x.stored
             /\ y.r.capturing /\ y.r.open /\ ~y.r.alt /\ y.r.buf = <<>>
             /\ y.r.cwd = x.r.cwd /\ y.r.paused = x.r.paused /\ y.r.done = x.r.done
             /\ y.r.cmd = x.r.cmd /\ y.r.wez = 0
             /\ y.r.hint = IF x.r.wez # 0 THEN x.r.wez ELSE x.r.hint
             /\ y.r.echoed = IF x.r.input THEN Reconstruct(x.r.echo) ELSE x.r.echoed
             /\ y.r.garbled = IF x.r.input THEN Garbles(x.r.echo) ELSE x.r.garbled
             /\ y.r.phase = "off" /\ ~y.r.input /\ y.r.echo = <<>>
<1>1. C.t = "C" /\ IsOSC(C)
  BY DEF C, IsOSC
<1>2. PICK s \in RState : s = Due(x.r)
  BY DueIs DEF State
<1>3. Take(c, x, C) = [r |-> MarkC(s), stored |-> x.stored]
  BY <1>1, <1>2, TakeMark DEF Observe
<1>4. x.r \in RState /\ x.stored \in Seq(Entry)
  BY DEF State
<1>5. SameEntry(x.r, s) /\ SameEcho(x.r, s) /\ Moved(x.r, s)
  BY <1>2, <1>4, DueIs DEF Moved
<1>6. PICK t \in RState : t = MarkC(s)
  BY MarkCIs
<1>7. /\ t.capturing /\ t.open /\ ~t.alt /\ t.buf = <<>>
      /\ t.phase = "off" /\ ~t.input /\ t.echo = <<>>
      /\ t.cwd = s.cwd /\ t.paused = s.paused /\ t.done = s.done
      /\ t.cmd = s.cmd /\ t.hint = s.hint /\ t.wez = s.wez
      /\ t.echoed = IF s.input THEN Reconstruct(s.echo) ELSE s.echoed
      /\ t.garbled = IF s.input THEN Garbles(s.echo) ELSE s.garbled
  BY <1>6, MarkCIs
<1>8. /\ t.cwd = x.r.cwd /\ t.paused = x.r.paused /\ t.done = x.r.done
      /\ t.cmd = x.r.cmd /\ t.wez = 0 /\ t.hint = IF x.r.wez # 0 THEN x.r.wez ELSE x.r.hint
      /\ t.echoed = IF x.r.input THEN Reconstruct(x.r.echo) ELSE x.r.echoed
      /\ t.garbled = IF x.r.input THEN Garbles(x.r.echo) ELSE x.r.garbled
  BY <1>5, <1>7 DEF SameEntry, SameEcho, Moved
<1>9. [r |-> t, stored |-> x.stored] \in State
  BY <1>4 DEF State
<1>10. QED BY <1>3, <1>6, <1>7, <1>8, <1>9

\* A token that tells the text of a command.
Learns(x, y, n) ==
  /\ y \in State /\ y.stored = x.stored /\ SameEntry(x.r, y.r) /\ SameEcho(x.r, y.r)
  /\ Names(y.r) \subseteq {0, n} /\ n \in {y.r.cmd, y.r.hint, y.r.wez}
  /\ y.r.garbled = x.r.garbled

LEMMA TakeName ==
  ASSUME NEW c, NEW x \in State, NEW n \in 0..MaxCommands, Names(x.r) \subseteq {0, n},
         NEW tok, tok = Cmd(n) \/ tok = Hint(n) \/ tok = SplitHint(n)
  PROVE  Learns(x, Take(c, x, tok), n)
<1>1. IsOSC(tok) /\ tok.t # "D"
  BY DEF Cmd, Hint, SplitHint, IsOSC
<1>2. PICK s \in RState : s = Due(x.r)
  BY DueIs DEF State
<1>3. Take(c, x, tok) = [r |-> Observe(s, tok), stored |-> x.stored]
  BY <1>1, <1>2, TakeMark
<1>4. x.r \in RState /\ x.stored \in Seq(Entry)
  BY DEF State
<1>5. SameEntry(x.r, s) /\ SameEcho(x.r, s) /\ Moved(x.r, s)
  BY <1>2, <1>4, DueIs DEF Moved
<1>6. Names(s) \subseteq {0, n}
  BY <1>5, MovedNames
<1>7. /\ Observe(s, tok) \in RState
      /\ SameEntry(s, Observe(s, tok)) /\ SameEcho(s, Observe(s, tok))
      /\ Names(Observe(s, tok)) \subseteq {0, n}
      /\ n \in {Observe(s, tok).cmd, Observe(s, tok).hint, Observe(s, tok).wez}
      /\ Observe(s, tok).garbled = s.garbled
  <2>1. CASE tok = Cmd(n)
    <3>1. Observe(s, tok) = [s EXCEPT !.cmd = n]
      BY <2>1 DEF Observe, Cmd
    <3>2. [s EXCEPT !.cmd = n] \in RState
      BY DEF RState
    <3>3. QED BY <1>6, <3>1, <3>2 DEF RState, SameEntry, SameEcho, Names
  <2>2. CASE tok = Hint(n)
    <3>1. Observe(s, tok) = [s EXCEPT !.hint = n]
      BY <2>2 DEF Observe, Hint
    <3>2. [s EXCEPT !.hint = n] \in RState
      BY DEF RState
    <3>3. QED BY <1>6, <3>1, <3>2 DEF RState, SameEntry, SameEcho, Names
  <2>3. CASE tok = SplitHint(n)
    <3>1. Observe(s, tok) = [s EXCEPT !.wez = n]
      BY <2>3 DEF Observe, SplitHint
    <3>2. [s EXCEPT !.wez = n] \in RState
      BY DEF RState
    <3>3. QED BY <1>6, <3>1, <3>2 DEF RState, SameEntry, SameEcho, Names
  <2>4. QED BY <2>1, <2>2, <2>3
<1>8. PICK t \in RState : t = Observe(s, tok)
  BY <1>7
<1>9. SameEntry(x.r, t) /\ SameEcho(x.r, t) /\ t.garbled = x.r.garbled
  BY <1>5, <1>7, <1>8 DEF SameEntry, SameEcho, Moved
<1>10. [r |-> t, stored |-> x.stored] \in State
  BY <1>4 DEF State
<1>11. QED BY <1>3, <1>7, <1>8, <1>9, <1>10 DEF Learns

LEMMA TakeCwd ==
  ASSUME NEW c, NEW x \in State, NEW d \in 0..MaxCommands
  PROVE  LET y == Take(c, x, Cwd(d))
         IN  /\ y \in State /\ y.stored = x.stored /\ SameEcho(x.r, y.r) /\ Moved(x.r, y.r)
             /\ y.r.cwd = d /\ y.r.open = x.r.open /\ y.r.capturing = x.r.capturing
             /\ y.r.buf = x.r.buf /\ y.r.paused = x.r.paused /\ y.r.done = x.r.done
<1>1. IsOSC(Cwd(d)) /\ Cwd(d).t = "cwd" /\ Cwd(d).of = d
  BY DEF Cwd, IsOSC
<1>2. PICK s \in RState : s = Due(x.r)
  BY DueIs DEF State
<1>3. Take(c, x, Cwd(d)) = [r |-> [s EXCEPT !.cwd = d], stored |-> x.stored]
  BY <1>1, <1>2, TakeMark DEF Observe
<1>4. x.r \in RState /\ x.stored \in Seq(Entry)
  BY DEF State
<1>5. SameEntry(x.r, s) /\ SameEcho(x.r, s) /\ Moved(x.r, s)
  BY <1>2, <1>4, DueIs DEF Moved
<1> DEFINE t == [s EXCEPT !.cwd = d]
<1>6. t \in RState
  BY DEF RState
<1>7. /\ t.cwd = d /\ t.open = s.open /\ t.capturing = s.capturing
      /\ t.buf = s.buf /\ t.paused = s.paused /\ t.done = s.done
      /\ SameEcho(s, t) /\ SameNames(s, t)
  BY DEF RState, SameEcho, SameNames
<1> HIDE DEF t
<1>8. SameEcho(x.r, t) /\ Moved(x.r, t)
  BY <1>5, <1>7 DEF SameEcho, SameNames, Moved
<1>9. [r |-> t, stored |-> x.stored] \in State
  BY <1>4, <1>6 DEF State
<1>10. Take(c, x, Cwd(d)) = [r |-> t, stored |-> x.stored]
  BY <1>3 DEF t
<1>11. QED BY <1>5, <1>7, <1>8, <1>9, <1>10 DEF SameEntry

LEMMA TakeRec ==
  ASSUME NEW c, NEW x \in State, NEW on \in BOOLEAN
  PROVE  LET y == Take(c, x, Rec(on))
         IN  /\ y \in State /\ y.stored = x.stored /\ SameEcho(x.r, y.r) /\ Moved(x.r, y.r)
             /\ (y.r.paused <=> ~on) /\ y.r.open = x.r.open /\ y.r.capturing = x.r.capturing
             /\ y.r.buf = x.r.buf /\ y.r.cwd = x.r.cwd /\ y.r.done = x.r.done
             /\ y.r.alt = x.r.alt
<1>1. IsOSC(Rec(on)) /\ Rec(on).t = "rec" /\ Rec(on).on = on
  BY DEF Rec, IsOSC
<1>2. PICK s \in RState : s = Due(x.r)
  BY DueIs DEF State
<1>3. PICK off \in BOOLEAN : off = ~on
  OBVIOUS
<1>4. Take(c, x, Rec(on)) = [r |-> [s EXCEPT !.paused = off], stored |-> x.stored]
  BY <1>1, <1>2, <1>3, TakeMark DEF Observe
<1>5. x.r \in RState /\ x.stored \in Seq(Entry)
  BY DEF State
<1>6. SameEntry(x.r, s) /\ SameEcho(x.r, s) /\ Moved(x.r, s)
  BY <1>2, <1>5, DueIs DEF Moved
<1> DEFINE t == [s EXCEPT !.paused = off]
<1>7. t \in RState
  BY DEF RState
<1>8. /\ t.paused = off /\ t.open = s.open /\ t.capturing = s.capturing
      /\ t.buf = s.buf /\ t.cwd = s.cwd /\ t.done = s.done /\ t.alt = s.alt
      /\ SameEcho(s, t) /\ SameNames(s, t)
  BY DEF RState, SameEcho, SameNames
<1> HIDE DEF t
<1>9. SameEcho(x.r, t) /\ Moved(x.r, t)
  BY <1>6, <1>8 DEF SameEcho, SameNames, Moved
<1>10. [r |-> t, stored |-> x.stored] \in State
  BY <1>5, <1>7 DEF State
<1>11. Take(c, x, Rec(on)) = [r |-> t, stored |-> x.stored]
  BY <1>4 DEF t
<1>12. t.paused <=> ~on
  BY <1>3, <1>8
<1>13. /\ t.open = x.r.open /\ t.capturing = x.r.capturing /\ t.buf = x.r.buf
       /\ t.cwd = x.r.cwd /\ t.done = x.r.done /\ t.alt = x.r.alt
  BY <1>6, <1>8 DEF SameEntry
<1>14. QED BY <1>9, <1>10, <1>11, <1>12, <1>13

\* The alternate screen, and bytes that are no mark.
LEMMA TakeAlt ==
  ASSUME NEW c, NEW x \in State, NEW on \in BOOLEAN
  PROVE  LET y == Take(c, x, Alt(on))
         IN  /\ y \in State /\ y.stored = x.stored /\ SameEcho(x.r, y.r) /\ SameNames(x.r, y.r)
             /\ (y.r.alt <=> on) /\ y.r.open = x.r.open /\ y.r.capturing = x.r.capturing
             /\ y.r.buf = x.r.buf /\ y.r.cwd = x.r.cwd /\ y.r.done = x.r.done
             /\ y.r.paused = x.r.paused
<1>1. ~IsOSC(Alt(on)) /\ Alt(on).t = "alt" /\ Alt(on).on = on
  BY DEF Alt, IsOSC
<1>2. x.r \in RState /\ x.stored \in Seq(Entry)
  BY DEF State
<1>3. Take(c, x, Alt(on)) = [r |-> [x.r EXCEPT !.alt = on], stored |-> x.stored]
  BY <1>1 DEF Take, DueAt, Observe
<1> DEFINE t == [x.r EXCEPT !.alt = on]
<1>4. t \in RState
  BY <1>2 DEF RState
<1>5. /\ t.alt = on /\ t.open = x.r.open /\ t.capturing = x.r.capturing
      /\ t.buf = x.r.buf /\ t.cwd = x.r.cwd /\ t.done = x.r.done /\ t.paused = x.r.paused
      /\ SameEcho(x.r, t) /\ SameNames(x.r, t)
  BY <1>2 DEF RState, SameEcho, SameNames
<1> HIDE DEF t
<1>6. [r |-> t, stored |-> x.stored] \in State
  BY <1>2, <1>4 DEF State
<1>7. Take(c, x, Alt(on)) = [r |-> t, stored |-> x.stored]
  BY <1>3 DEF t
<1>8. QED BY <1>5, <1>6, <1>7

\* Bytes go to the output or to the echo.
Fed(x, tok, y) ==
  /\ y \in State /\ y.stored = x.stored /\ SameNames(x.r, y.r)
  /\ y.r.open = x.r.open /\ y.r.capturing = x.r.capturing /\ y.r.cwd = x.r.cwd
  /\ y.r.paused = x.r.paused /\ y.r.done = x.r.done /\ y.r.alt = x.r.alt
  /\ y.r.phase = x.r.phase /\ y.r.input = x.r.input
  /\ y.r.buf = IF x.r.capturing /\ ~x.r.alt /\ x.r.open THEN Append(x.r.buf, tok) ELSE x.r.buf
  /\ y.r.echo = IF ~(x.r.capturing /\ ~x.r.alt) /\ x.r.phase # "off"
                  THEN Append(x.r.echo, tok) ELSE x.r.echo

LEMMA TakeBytes ==
  ASSUME NEW c, NEW x \in State, NEW tok \in Tokens
  PROVE  Fed(x, tok, Take(c, x, tok))
<1>1. ~IsOSC(tok) /\ tok.t \in {"text", "keys"} /\ tok.t # "D"
  BY DEF Tokens, IsOSC
<1>2. x.r \in RState /\ x.stored \in Seq(Entry)
  BY DEF State
<1>3. Take(c, x, tok) = [r |-> AddBytes(x.r, tok), stored |-> x.stored]
  <2>1. Observe(x.r, tok) = AddBytes(x.r, tok)
    BY <1>1 DEF Observe
  <2>2. QED BY <1>1, <2>1 DEF Take, DueAt
<1>4. PICK buf \in Seq(Tokens) : buf = IF x.r.capturing /\ ~x.r.alt /\ x.r.open
                                         THEN Append(x.r.buf, tok) ELSE x.r.buf
  <2>1. x.r.buf \in Seq(Tokens)
    BY <1>2 DEF RState
  <2>2. Append(x.r.buf, tok) \in Seq(Tokens)
    BY <2>1
  <2>3. QED BY <2>1, <2>2
<1>5. PICK echo \in Seq(Tokens) : echo = IF ~(x.r.capturing /\ ~x.r.alt) /\ x.r.phase # "off"
                                           THEN Append(x.r.echo, tok) ELSE x.r.echo
  <2>1. x.r.echo \in Seq(Tokens)
    BY <1>2 DEF RState
  <2>2. Append(x.r.echo, tok) \in Seq(Tokens)
    BY <2>1
  <2>3. QED BY <2>1, <2>2
<1> DEFINE t == [x.r EXCEPT !.buf = buf, !.echo = echo]
<1>6. AddBytes(x.r, tok) = t
  BY <1>2, <1>4, <1>5 DEF AddBytes, RState
<1>7. t \in RState
  BY <1>2 DEF RState
<1>8. /\ SameNames(x.r, t) /\ t.buf = buf /\ t.echo = echo
      /\ t.open = x.r.open /\ t.capturing = x.r.capturing /\ t.cwd = x.r.cwd
      /\ t.paused = x.r.paused /\ t.done = x.r.done /\ t.alt = x.r.alt
      /\ t.phase = x.r.phase /\ t.input = x.r.input
  BY <1>2 DEF RState, SameNames
<1> HIDE DEF t
<1>9. [r |-> t, stored |-> x.stored] \in State
  BY <1>2, <1>7 DEF State
<1>10. Take(c, x, tok) = [r |-> t, stored |-> x.stored]
  BY <1>3, <1>6
<1>11. QED BY <1>4, <1>5, <1>8, <1>9, <1>10 DEF Fed

\* A D mark where no output is captured.
LEMMA TakeIdleD ==
  ASSUME NEW c, NEW x \in State, ~x.r.capturing, NEW tok \in {BareD, D(0), D(1)}
  PROVE  LET y == Take(c, x, tok)
         IN  /\ y \in State /\ y.stored = x.stored /\ SameEntry(x.r, y.r) /\ Moved(x.r, y.r)
             /\ y.r.phase = "off" /\ ~y.r.input /\ y.r.echo = <<>>
<1>1. tok.t = "D" /\ IsOSC(tok)
  BY DEF D, BareD, IsOSC
<1>2. PICK s \in RState : s = Due(x.r)
  BY DueIs DEF State
<1>3. x.r \in RState /\ x.stored \in Seq(Entry)
  BY DEF State
<1>4. SameEntry(x.r, s) /\ Moved(x.r, s)
  BY <1>2, <1>3, DueIs DEF Moved
<1>5. ~s.capturing
  BY <1>4 DEF SameEntry
<1>6. Take(c, x, tok) = [r |-> EchoReset(s), stored |-> x.stored]
  BY <1>1, <1>2, <1>5 DEF Take, DueAt
<1>7. PICK t \in RState : t = EchoReset(s)
  BY EchoResetIs
<1>8. SameEntry(x.r, t) /\ Moved(x.r, t)
  BY <1>4, <1>7, EchoResetIs DEF SameEntry, SameNames, Moved
<1>9. [r |-> t, stored |-> x.stored] \in State
  BY <1>3 DEF State
<1>10. QED BY <1>6, <1>7, <1>8, <1>9, EchoResetIs

\* A D mark that ends the open entry, of which s is what the recorder knows:
\* either it is stored or it is not.
Closes(c, x, tok, s, y) ==
  /\ Moved(x.r, s) /\ s.buf = x.r.buf /\ s.cwd = x.r.cwd /\ s.open
  /\ s.paused = x.r.paused
  /\ EntryOf(s, tok.code, tok.ok) \in Entry
  /\ y \in State
  /\ y.stored = IF KeepsIn(c, s) THEN Append(x.stored, EntryOf(s, tok.code, tok.ok)) ELSE x.stored
  /\ ~y.r.open /\ ~y.r.capturing /\ y.r.buf = <<>> /\ Names(y.r) = {0}
  /\ ~y.r.garbled /\ y.r.phase = "off" /\ ~y.r.input /\ y.r.echo = <<>>
  /\ y.r.paused = x.r.paused /\ y.r.done = x.r.done /\ y.r.cwd = x.r.cwd

LEMMA TakeD ==
  ASSUME NEW c, NEW x \in State, x.r.capturing, x.r.open,
         NEW tok \in {BareD, D(0), D(1)}
  PROVE  \E s \in RState : Closes(c, x, tok, s, Take(c, x, tok))
<1>1. tok.t = "D" /\ IsOSC(tok) /\ tok.code \in 0..1 /\ tok.ok \in BOOLEAN
  <2>1. CASE tok = BareD
    BY <2>1 DEF BareD, IsOSC
  <2>2. CASE tok = D(0) \/ tok = D(1)
    <3>1. PICK code \in 0..1 : tok = D(code)
      BY <2>2
    <3>2. tok.t = "D" /\ tok.ok /\ tok.code = code
      BY <3>1 DEF D
    <3>3. QED BY <3>2 DEF IsOSC
  <2>3. QED BY <2>1, <2>2
<1>2. PICK u \in RState : u = Due(x.r)
  BY DueIs DEF State
<1>3. x.r \in RState /\ x.stored \in Seq(Entry)
  BY DEF State
<1>4. SameEntry(x.r, u) /\ Moved(x.r, u)
  BY <1>2, <1>3, DueIs DEF Moved
<1>5. PICK v \in RState : v = EchoReset(u)
  BY EchoResetIs
<1>6. /\ SameEntry(x.r, v) /\ Moved(x.r, v)
      /\ v.phase = "off" /\ ~v.input /\ v.echo = <<>>
  BY <1>4, <1>5, EchoResetIs DEF SameEntry, SameNames, Moved
<1> DEFINE s == [v EXCEPT !.capturing = FALSE]
<1>7. s \in RState
  BY DEF RState
<1>8. /\ SameNames(v, s) /\ s.buf = v.buf /\ s.cwd = v.cwd /\ s.open = v.open
      /\ s.paused = v.paused /\ s.done = v.done /\ ~s.capturing
      /\ s.phase = v.phase /\ s.input = v.input /\ s.echo = v.echo
  BY DEF RState, SameNames
<1>9. Take(c, x, tok) = FlushIn(c, s, x.stored, EntryOf(s, tok.code, tok.ok))
  <2>1. u.capturing
    BY <1>4 DEF SameEntry
  <2>2. QED BY <1>1, <1>2, <1>5, <2>1 DEF Take, DueAt
<1> HIDE DEF s
<1>10. s.open
  BY <1>6, <1>8 DEF SameEntry
<1>11. PICK t \in RState : t = Forget(s)
  <2>1. <<>> \in Seq(Tokens) /\ 0 \in 0..MaxCommands
    BY RecorderAssumption
  <2>2. QED BY <1>7, <2>1 DEF Forget, RState
<1>12. /\ ~t.open /\ t.buf = <<>> /\ t.cmd = 0 /\ t.hint = 0 /\ t.echoed = 0 /\ t.wez = s.wez
       /\ t.capturing = s.capturing /\ t.phase = s.phase /\ t.input = s.input
       /\ t.echo = s.echo /\ t.paused = s.paused /\ t.done = s.done /\ t.cwd = s.cwd
       /\ ~t.garbled
  BY <1>7, <1>11 DEF Forget, RState
<1>13. Names(t) = {0}
  BY <1>6, <1>8, <1>12 DEF Names, SameNames, Moved
<1> DEFINE e == EntryOf(s, tok.code, tok.ok)
<1>14. e \in Entry
  <2>1. PICK code \in 0..1, ok \in BOOLEAN : code = tok.code /\ ok = tok.ok
    BY <1>1
  <2> HIDE DEF e
  <2>2. EntryOf(s, code, ok) \in Entry
    BY <1>7, EntryOfType
  <2>3. QED BY <2>1, <2>2 DEF e
<1> HIDE DEF e
<1>15. Take(c, x, tok) = [r |-> t, stored |-> IF KeepsIn(c, s) THEN Append(x.stored, e) ELSE x.stored]
  BY <1>9, <1>10, <1>11 DEF FlushIn, e
<1>16. Take(c, x, tok) \in State
  BY <1>3, <1>14, <1>15 DEF State
<1>17. Moved(x.r, s) /\ s.buf = x.r.buf /\ s.cwd = x.r.cwd /\ s.paused = x.r.paused
  BY <1>6, <1>8 DEF Moved, SameNames, SameEntry
<1>18. /\ t.paused = x.r.paused /\ t.done = x.r.done /\ t.cwd = x.r.cwd
       /\ ~t.capturing /\ t.phase = "off" /\ ~t.input /\ t.echo = <<>>
  BY <1>6, <1>8, <1>12 DEF SameEntry
<1>19. Closes(c, x, tok, s, Take(c, x, tok))
  BY <1>10, <1>12, <1>13, <1>14, <1>15, <1>16, <1>17, <1>18 DEF Closes, e
<1>20. QED BY <1>7, <1>19

-----------------------------------------------------------------------------
(***************************************************************************)
(* Each mark of a prompt, and what else arrives while no command runs.     *)
(***************************************************************************)
LEMMA StaysOutside ==
  ASSUME NEW c, NEW off, NEW x \in Outside(c, off), NEW y \in State, y.stored = x.stored,
         y.r.done = x.r.done, y.r.paused = x.r.paused, y.r.open = x.r.open,
         y.r.capturing = x.r.capturing, y.r.buf = x.r.buf,
         Names(y.r) \subseteq {0}, y.r.garbled = x.r.garbled, KeysOf(y.r, {0})
  PROVE  y \in Outside(c, off)
<1>1. Names(y.r) = {0}
  BY DEF Names
<1>2. QED BY <1>1 DEF Outside

LEMMA ZeroMoved ==
  ASSUME NEW s, NEW t, Moved(s, t), Names(s) = {0}
  PROVE  Names(t) \subseteq {0} /\ t.garbled = s.garbled
BY DEF Moved, Names

LEMMA KeysMore ==
  ASSUME NEW s, NEW t, NEW ns, NEW tok, s.echo \in Seq(Tokens), KeysOf(s, ns),
         tok.t = "keys" => tok.of \in ns, t.echo \in {s.echo, Append(s.echo, tok)}
  PROVE  KeysOf(t, ns)
<1>1. CASE t.echo = s.echo
  BY <1>1 DEF KeysOf
<1>2. CASE t.echo = Append(s.echo, tok)
  <2>1. ASSUME NEW i \in DOMAIN t.echo, t.echo[i].t = "keys" PROVE t.echo[i].of \in ns
    <3>1. /\ Len(s.echo) \in Nat /\ DOMAIN s.echo = 1..Len(s.echo)
          /\ DOMAIN t.echo = 1..Len(s.echo) + 1
          /\ \A k \in 1..Len(s.echo) : t.echo[k] = s.echo[k]
          /\ t.echo[Len(s.echo) + 1] = tok
      BY <1>2
    <3>2. i \in 1..Len(s.echo) \/ i = Len(s.echo) + 1
      BY <3>1
    <3>3. QED BY <2>1, <3>1, <3>2 DEF KeysOf
  <2>2. QED BY <2>1 DEF KeysOf
<1>3. QED BY <1>1, <1>2

LEMMA PromptA ==
  ASSUME NEW c, NEW off, NEW has, NEW x \in Prompting(c, off, has),
         NEW has2, has2 \subseteq {"cwd", "prompt"}, "cwd" \in has2 => "cwd" \in has
  PROVE  Take(c, x, A) \in Prompting(c, off, has2)
<1>1. x \in State /\ x \in Outside(c, off) /\ Names(x.r) = {0}
  BY DEF Prompting, Outside
<1>2. PICK y : y = Take(c, x, A)
  OBVIOUS
<1>3. /\ y \in State /\ y.stored = x.stored /\ SameEntry(x.r, y.r) /\ Moved(x.r, y.r)
      /\ y.r.phase = "prompt" /\ y.r.echo = <<>>
  BY <1>1, <1>2, TakeA
<1>4. KeysOf(y.r, {0})
  BY <1>3 DEF KeysOf
<1>5. y \in Outside(c, off)
  BY <1>1, <1>3, <1>4, StaysOutside, ZeroMoved DEF SameEntry
<1>6. "cwd" \in has2 => y.r.cwd = Len(c)
  BY <1>3 DEF Prompting, SameEntry
<1>7. QED BY <1>2, <1>3, <1>5, <1>6 DEF Prompting

LEMMA PromptB ==
  ASSUME NEW c, NEW off, NEW has, "prompt" \in has, NEW x \in Prompting(c, off, has),
         NEW has2, has2 \subseteq {"cwd", "input"}, "cwd" \in has2 => "cwd" \in has
  PROVE  Take(c, x, B) \in Prompting(c, off, has2)
<1>1. x \in State /\ x \in Outside(c, off) /\ Names(x.r) = {0}
  BY DEF Prompting, Outside
<1>2. PICK y : y = Take(c, x, B)
  OBVIOUS
<1>3. /\ y \in State /\ y.stored = x.stored /\ SameEntry(x.r, y.r) /\ Moved(x.r, y.r)
      /\ y.r.phase = "input" /\ y.r.input /\ y.r.echo = <<>>
  BY <1>1, <1>2, TakeB DEF Prompting
<1>4. KeysOf(y.r, {0})
  BY <1>3 DEF KeysOf
<1>5. y \in Outside(c, off)
  BY <1>1, <1>3, <1>4, StaysOutside, ZeroMoved DEF SameEntry
<1>6. "cwd" \in has2 => y.r.cwd = Len(c)
  BY <1>3 DEF Prompting, SameEntry
<1>7. QED BY <1>2, <1>3, <1>5, <1>6 DEF Prompting

LEMMA PromptCwd ==
  ASSUME NEW c \in Histories, NEW off, NEW has, NEW x \in Prompting(c, off, has),
         NEW has2, has2 \subseteq has \cup {"cwd"}
  PROVE  Take(c, x, Cwd(Len(c))) \in Prompting(c, off, has2)
<1>1. x \in State /\ x \in Outside(c, off) /\ Names(x.r) = {0} /\ KeysOf(x.r, {0})
  BY DEF Prompting, Outside
<1>2. Len(c) \in 0..MaxCommands
  BY RecorderAssumption DEF Histories
<1>3. PICK y : y = Take(c, x, Cwd(Len(c)))
  OBVIOUS
<1>4. /\ y \in State /\ y.stored = x.stored /\ SameEcho(x.r, y.r) /\ Moved(x.r, y.r)
      /\ y.r.cwd = Len(c) /\ y.r.open = x.r.open /\ y.r.capturing = x.r.capturing
      /\ y.r.buf = x.r.buf /\ y.r.paused = x.r.paused /\ y.r.done = x.r.done
  BY <1>1, <1>2, <1>3, TakeCwd
<1>5. KeysOf(y.r, {0})
  BY <1>1, <1>4 DEF KeysOf, SameEcho
<1>6. y \in Outside(c, off)
  BY <1>1, <1>4, <1>5, StaysOutside, ZeroMoved
<1>7. QED BY <1>3, <1>4, <1>6 DEF Prompting, SameEcho

LEMMA PromptD ==
  ASSUME NEW c, NEW off, NEW has, NEW x \in Prompting(c, off, has),
         NEW tok \in {BareD, D(0), D(1)}, NEW has2, has2 \subseteq has \cap {"cwd"}
  PROVE  Take(c, x, tok) \in Prompting(c, off, has2)
<1>1. x \in State /\ x \in Outside(c, off) /\ Names(x.r) = {0} /\ ~x.r.capturing
  BY DEF Prompting, Outside
<1>2. PICK y : y = Take(c, x, tok)
  OBVIOUS
<1>3. /\ y \in State /\ y.stored = x.stored /\ SameEntry(x.r, y.r) /\ Moved(x.r, y.r)
      /\ y.r.echo = <<>>
  BY <1>1, <1>2, TakeIdleD
<1>4. KeysOf(y.r, {0})
  BY <1>3 DEF KeysOf
<1>5. y \in Outside(c, off)
  BY <1>1, <1>3, <1>4, StaysOutside, ZeroMoved DEF SameEntry
<1>6. "cwd" \in has2 => y.r.cwd = Len(c)
  BY <1>3 DEF Prompting, SameEntry
<1>7. QED BY <1>2, <1>5, <1>6 DEF Prompting

LEMMA PromptHint ==
  ASSUME NEW c, NEW off, NEW x \in Outside(c, off)
  PROVE  Take(c, x, Hint(0)) \in Outside(c, off)
<1>1. x \in State /\ Names(x.r) = {0} /\ KeysOf(x.r, {0}) /\ 0 \in 0..MaxCommands
  BY RecorderAssumption DEF Outside
<1>2. PICK y : y = Take(c, x, Hint(0))
  OBVIOUS
<1>3. /\ y \in State /\ y.stored = x.stored /\ SameEntry(x.r, y.r) /\ SameEcho(x.r, y.r)
      /\ Names(y.r) \subseteq {0, 0} /\ y.r.garbled = x.r.garbled
  <2>1. PICK n \in 0..MaxCommands : n = 0
    BY <1>1
  <2>2. PICK tok : tok = Hint(n)
    OBVIOUS
  <2>3. Names(x.r) \subseteq {0, n}
    BY <1>1, <2>1
  <2>4. y = Take(c, x, tok)
    BY <1>2, <2>1, <2>2
  <2>5. Learns(x, y, n)
    <3>1. x \in State
      BY <1>1
    <3>2. tok = Cmd(n) \/ tok = Hint(n) \/ tok = SplitHint(n)
      BY <2>2
    <3>3. QED BY <2>3, <2>4, <3>1, <3>2, TakeName
  <2>6. QED BY <2>1, <2>5 DEF Learns
<1>4. KeysOf(y.r, {0})
  BY <1>1, <1>3 DEF KeysOf, SameEcho
<1>5. QED BY <1>2, <1>3, <1>4, StaysOutside DEF SameEntry

LEMMA PromptBytes ==
  ASSUME NEW c, NEW off, NEW has, NEW x \in Prompting(c, off, has),
         NEW tok \in {KeysLost(0), Text(0, FALSE)}, NEW has2, has2 \subseteq has \cap {"cwd"}
  PROVE  Take(c, x, tok) \in Prompting(c, off, has2)
<1>1. /\ x \in State /\ x \in Outside(c, off) /\ Names(x.r) = {0} /\ KeysOf(x.r, {0})
      /\ ~x.r.capturing /\ x.r.echo \in Seq(Tokens)
  BY DEF Prompting, Outside, State, RState
<1>2. tok \in Tokens /\ (tok.t = "keys" => tok.of = 0)
  <2>1. 0 \in 0..MaxCommands
    BY RecorderAssumption
  <2>2. CASE tok = KeysLost(0)
    BY <2>1, <2>2 DEF KeysLost, Tokens
  <2>3. CASE tok = Text(0, FALSE)
    <3>1. Text(0, FALSE) \in [t : {"text"}, by : 0..MaxCommands, hidden : BOOLEAN]
      BY <2>1 DEF Text
    <3>2. QED BY <2>3, <3>1 DEF Tokens
  <2>4. QED BY <2>2, <2>3
<1>3. PICK y : y = Take(c, x, tok)
  OBVIOUS
<1>4. /\ y \in State /\ y.stored = x.stored /\ SameNames(x.r, y.r)
      /\ y.r.open = x.r.open /\ y.r.capturing = x.r.capturing /\ y.r.cwd = x.r.cwd
      /\ y.r.paused = x.r.paused /\ y.r.done = x.r.done /\ y.r.buf = x.r.buf
      /\ y.r.echo \in {x.r.echo, Append(x.r.echo, tok)}
  <2>1. /\ y \in State /\ y.stored = x.stored /\ SameNames(x.r, y.r)
        /\ y.r.open = x.r.open /\ y.r.capturing = x.r.capturing /\ y.r.cwd = x.r.cwd
        /\ y.r.paused = x.r.paused /\ y.r.done = x.r.done
        /\ y.r.buf = IF x.r.capturing /\ ~x.r.alt /\ x.r.open THEN Append(x.r.buf, tok)
                                                              ELSE x.r.buf
        /\ y.r.echo = IF ~(x.r.capturing /\ ~x.r.alt) /\ x.r.phase # "off"
                        THEN Append(x.r.echo, tok) ELSE x.r.echo
    <3>1. Fed(x, tok, y)
      BY <1>1, <1>2, <1>3, TakeBytes
    <3>2. QED BY <3>1 DEF Fed
  <2>2. QED BY <1>1, <2>1
<1>5. KeysOf(y.r, {0})
  BY <1>1, <1>2, <1>4, KeysMore
<1>6. Names(y.r) \subseteq {0} /\ y.r.garbled = x.r.garbled
  BY <1>1, <1>4 DEF Names, SameNames
<1>7. y \in Outside(c, off)
  BY <1>1, <1>4, <1>5, <1>6, StaysOutside
<1>8. QED BY <1>3, <1>4, <1>7 DEF Prompting

\* The C and the D of an idle prompt.
LEMMA BracketOpens ==
  ASSUME NEW c, NEW off, NEW x \in Outside(c, off)
  PROVE  Take(c, x, C) \in Bracket(c, off)
<1>1. /\ x \in State /\ Names(x.r) = {0} /\ KeysOf(x.r, {0})
      /\ ~x.r.done /\ (x.r.paused <=> off)
      /\ Right(c, x.stored) /\ KeptUpTo(c, x.stored, Len(c)) /\ x.r.echo \in Seq(Tokens)
  BY DEF Outside, State, RState
<1>2. PICK y : y = Take(c, x, C)
  OBVIOUS
<1>3. /\ y \in State /\ y.stored = x.stored
      /\ y.r.capturing /\ y.r.open /\ y.r.buf = <<>>
      /\ y.r.paused = x.r.paused /\ y.r.done = x.r.done
      /\ y.r.cmd = x.r.cmd /\ y.r.wez = 0
      /\ y.r.hint = IF x.r.wez # 0 THEN x.r.wez ELSE x.r.hint
      /\ y.r.echoed = IF x.r.input THEN Reconstruct(x.r.echo) ELSE x.r.echoed
      /\ y.r.echo = <<>>
  BY <1>1, <1>2, TakeC
<1>4. Reconstruct(x.r.echo) = 0
  <2>1. Reconstruct(x.r.echo) \in {0} \cup {0}
    BY <1>1, ReconstructIs DEF KeysOf
  <2>2. QED BY <2>1
<1>5. Names(y.r) = {0} /\ KeysOf(y.r, {0})
  <2>1. y.r.cmd = 0 /\ y.r.wez = 0 /\ y.r.hint = 0 /\ y.r.echoed = 0
    BY <1>1, <1>3, <1>4 DEF Names
  <2>2. QED BY <1>3, <2>1 DEF Names, KeysOf
<1>6. QED BY <1>1, <1>2, <1>3, <1>5 DEF Bracket

LEMMA BracketCloses ==
  ASSUME NEW c \in Histories, NEW off, NEW x \in Bracket(c, off), NEW tok \in {BareD, D(0), D(1)}
  PROVE  Take(c, x, tok) \in Outside(c, off)
<1>1. /\ x \in State /\ Names(x.r) = {0} /\ x.r.capturing /\ x.r.open /\ x.r.buf = <<>>
      /\ ~x.r.done /\ (x.r.paused <=> off)
      /\ Right(c, x.stored) /\ KeptUpTo(c, x.stored, Len(c))
  BY DEF Bracket
<1>2. PICK y : y = Take(c, x, tok)
  OBVIOUS
<1>3. PICK s \in RState : Closes(c, x, tok, s, y)
  BY <1>1, <1>2, TakeD
<1>4. Names(s) \subseteq {0}
  BY <1>1, <1>3, ZeroMoved DEF Closes
<1>5. CmdName(s) = 0
  BY <1>4 DEF CmdName, Names
<1> DEFINE e == EntryOf(s, tok.code, tok.ok)
<1>6. KeepsIn(c, s) => Phantom(e)
  <2>1. KeepsIn(c, s) => Garbled(s) /\ s.buf = <<>>
    BY <1>1, <1>3, <1>5 DEF Closes, KeepsIn, KindIn
  <2>2. QED BY <1>5, <2>1 DEF Phantom, EntryOf
<1>7. e \in Entry /\ x.stored \in Seq(Entry)
  BY <1>1, <1>3 DEF Closes, State
<1> HIDE DEF e
<1>8. Right(c, y.stored) /\ KeptUpTo(c, y.stored, Len(c))
  <2>1. y.stored = IF KeepsIn(c, s) THEN Append(x.stored, e) ELSE x.stored
    BY <1>3 DEF Closes, e
  <2>2. CASE KeepsIn(c, s)
    BY <1>1, <1>6, <1>7, <2>1, <2>2, StorePhantom
  <2>3. QED BY <1>1, <2>1, <2>2
<1>9. KeysOf(y.r, {0})
  BY <1>3 DEF KeysOf, Closes
<1>10. QED BY <1>1, <1>2, <1>3, <1>8, <1>9 DEF Outside, Closes

-----------------------------------------------------------------------------
(***************************************************************************)
(* The D of the last command.                                              *)
(***************************************************************************)
LEMMA NameOf ==
  ASSUME NEW s, NEW n, n # 0, Names(s) \subseteq {0, n}, s.wez = 0
  PROVE  CmdName(s) \in {0, n} /\ (Named(s, n) => CmdName(s) = n /\ ~Garbled(s))
BY DEF Names, CmdName, Named, Garbled

LEMMA CommandCloses ==
  ASSUME NEW c \in Histories, Len(c) >= 1, NEW off, NEW x \in Inside(c, off),
         NEW tok \in {BareD, D(0), D(1)},
         (c[Len(c)].kind = "exit" /\ c[Len(c)].told) \/
           /\ c[Len(c)].off <=> off
           /\ tok.ok => c[Len(c)].ended /\ tok.code = c[Len(c)].code
  PROVE  Take(c, x, tok) \in Outside(c, off)
<1> DEFINE n == Len(c)
           last == c[n]
<1>1. n \in Nat /\ n # 0 /\ n \in 1..Len(c) /\ x.stored \in Seq(Entry) /\ x \in State
  BY DEF Histories, Inside, State
<1>2. /\ ~x.r.done /\ (x.r.paused <=> off) /\ x.r.open /\ x.r.capturing
      /\ Names(x.r) \subseteq {0, n} /\ (last.told => Named(x.r, n))
      /\ x.r.cwd = last.dir /\ OutOf(x.r.buf, n) /\ Len(x.r.buf) = last.shown
      /\ ("script" \notin Kinds => off \/ Shown(x.r.buf))
      /\ (last.kind = "exit" => x.r.buf = <<>>)
      /\ UpTo(c, x.stored, n - 1) /\ Bare(x.stored) /\ KeptUpTo(c, x.stored, n - 1)
  BY DEF Inside
<1>3. PICK y : y = Take(c, x, tok)
  OBVIOUS
<1>4. PICK s \in RState : Closes(c, x, tok, s, y)
  BY <1>1, <1>2, <1>3, TakeD
<1>5. /\ Moved(x.r, s) /\ s.buf = x.r.buf /\ s.cwd = x.r.cwd /\ s.open /\ s.paused = x.r.paused
      /\ s.buf \in Seq(Tokens)
  BY <1>4 DEF Closes, RState
<1> DEFINE e == EntryOf(s, tok.code, tok.ok)
<1>6. /\ e \in Entry /\ y \in State
      /\ y.stored = IF KeepsIn(c, s) THEN Append(x.stored, e) ELSE x.stored
  BY <1>4 DEF Closes
<1>7. /\ e.cwd = s.cwd /\ e.code = tok.code /\ e.ok = tok.ok
      /\ e.name = CmdName(s) /\ (e.garbled <=> Garbled(s)) /\ e.out = s.buf
  BY DEF EntryOf
<1>8. Names(s) \subseteq {0, n} /\ (Named(x.r, n) => Named(s, n)) /\ s.wez = 0
  BY <1>1, <1>2, <1>5, MovedNames DEF Moved
<1>9. CmdName(s) \in {0, n} /\ (last.told => CmdName(s) = n /\ ~Garbled(s))
  BY <1>1, <1>2, <1>8, NameOf
<1> HIDE DEF n, last
<1>10. Right(c, y.stored) /\ KeptUpTo(c, y.stored, n)
  <2>1. CASE KeepsIn(c, s) /\ ~Phantom(e)
    <3>1. Subject(e) = n /\ e.name = CmdName(s) /\ e.out = s.buf
      <4>1. CmdName(s) = 0 => s.buf # <<>>
        BY <1>7, <2>1 DEF KeepsIn, KindIn, Phantom
      <4>2. QED BY <1>1, <1>2, <1>5, <1>8, <4>1, SubjectIs
    <3>2. ~(last.kind = "exit" /\ last.told)
      <4>1. CmdName(s) = n /\ ~Garbled(s) => KindIn(c, s) = last.kind
        BY <1>1 DEF KindIn, last
      <4>2. QED BY <1>9, <2>1, <4>1 DEF KeepsIn
    <3>3. (last.off <=> off) /\ (tok.ok => last.ended /\ tok.code = last.code)
      BY <3>2 DEF last, n
    <3>4. TrueEntry(c, e)
      <4>1. \A i \in DOMAIN e.out : e.out[i].t = "text" /\ e.out[i].by = Subject(e)
        BY <1>2, <1>5, <3>1 DEF OutOf
      <4>2. e.cwd = c[Subject(e)].dir
        BY <1>2, <1>5, <1>7, <3>1 DEF last
      <4>3. e.ok => /\ c[Subject(e)].ended /\ e.code = c[Subject(e)].code
                    /\ ~(c[Subject(e)].told /\ e.garbled)
        BY <1>7, <1>9, <3>1, <3>3 DEF last
      <4>4. QED BY <1>1, <3>1, <4>1, <4>2, <4>3 DEF TrueEntry
    <3>5. "script" \notin Kinds => Shown(e.out)
      BY <1>2, <1>5, <2>1, <3>1 DEF KeepsIn
    <3>6. Right(c, Append(x.stored, e))
      <4> HIDE DEF e
      <4>1. QED BY <1>1, <1>2, <1>6, <3>1, <3>4, <3>5, StoreRight DEF n
    <3>7. Wanted(last) => Tells(last, n, e)
      BY <1>2, <1>5, <1>7, <1>9, <3>1 DEF Tells
    <3>8. KeptUpTo(c, Append(x.stored, e), n)
      <4> HIDE DEF e
      <4>1. QED BY <1>1, <1>2, <1>6, <3>7, StoreKeeps DEF n, last
    <3>9. QED BY <1>6, <2>1, <3>6, <3>8
  <2>2. CASE KeepsIn(c, s) /\ Phantom(e)
    <3>1. Right(c, x.stored)
      BY <1>1, <1>2, RightBefore DEF n
    <3>2. ~Wanted(last)
      <4>1. CmdName(s) = 0 /\ s.buf = <<>>
        BY <1>7, <2>2 DEF Phantom
      <4>2. last.shown = 0 /\ ~last.told
        BY <1>1, <1>2, <1>5, <1>9, <4>1
      <4>3. QED BY <4>2 DEF Wanted
    <3>3. KeptUpTo(c, x.stored, n)
      BY <1>1, <1>2, <3>2, LeaveOut DEF n, last
    <3>4. y.stored = Append(x.stored, e)
      BY <1>6, <2>2
    <3> HIDE DEF e
    <3>5. QED BY <1>1, <1>6, <2>2, <3>1, <3>3, <3>4, StorePhantom
  <2>3. CASE ~KeepsIn(c, s)
    <3>1. y.stored = x.stored
      BY <1>6, <2>3
    <3>2. Right(c, x.stored)
      BY <1>2, RightBefore DEF n
    <3>3. ~Wanted(last)
      <4>1. CASE last.kind = "exit"
        BY <4>1 DEF Wanted
      <4>2. CASE last.kind # "exit"
        <5>1. last.off <=> off
          BY <4>2 DEF last, n
        <5>2. CASE s.paused
          BY <1>2, <1>5, <5>1, <5>2 DEF Wanted
        <5>3. CASE CmdName(s) = 0 /\ ~Garbled(s)
          <6>1. KindIn(c, s) = "empty"
            BY <5>3 DEF KindIn
          <6>2. s.paused \/ s.buf = <<>>
            BY <1>5, <2>3, <5>3, <6>1 DEF KeepsIn, Matching, Unreadable
          <6>3. CASE s.buf = <<>>
            <7>1. last.shown = 0
              BY <1>2, <1>5, <6>3
            <7>2. ~last.told
              BY <1>1, <1>9, <5>3
            <7>3. QED BY <7>1, <7>2 DEF Wanted
          <6>4. QED BY <5>2, <6>2, <6>3
        <5>4. CASE CmdName(s) = n /\ ~Garbled(s) /\ ~s.paused
          <6>1. KindIn(c, s) = last.kind
            BY <1>1, <5>4 DEF KindIn, last
          <6>2. CASE last.kind \in Matching
            BY <6>2 DEF Wanted
          <6>3. CASE last.kind = "empty" /\ s.buf = <<>>
            <7>1. last \in Command
              BY <1>1 DEF last, Histories
            <7>2. last.kind \in Kinds
              BY <7>1 DEF Command
            <7>3. QED BY <6>3, <7>2, RecorderAssumption
          <6>4. QED BY <1>5, <2>3, <4>2, <5>4, <6>1, <6>2, <6>3 DEF KeepsIn
        <5>5. CASE Garbled(s) /\ ~s.paused
          <6>1. KindIn(c, s) = "garbled"
            BY <5>5 DEF KindIn
          <6>2. KeepsIn(c, s)
            BY <1>5, <5>5, <6>1 DEF KeepsIn, Matching
          <6>3. QED BY <2>3, <6>2
        <5>6. QED BY <1>9, <5>2, <5>3, <5>4, <5>5
      <4>3. QED BY <4>1, <4>2
    <3>4. KeptUpTo(c, x.stored, n)
      BY <1>1, <1>2, <3>3, LeaveOut DEF n, last
    <3>5. QED BY <3>1, <3>2, <3>4
  <2>4. QED BY <2>1, <2>2, <2>3
<1>11. /\ ~y.r.open /\ ~y.r.capturing /\ y.r.buf = <<>> /\ Names(y.r) = {0} /\ ~y.r.garbled
       /\ KeysOf(y.r, {0}) /\ ~y.r.done /\ (y.r.paused <=> off)
  BY <1>2, <1>4 DEF Closes, KeysOf
<1>12. QED BY <1>3, <1>6, <1>10, <1>11 DEF Outside, n

-----------------------------------------------------------------------------
(***************************************************************************)
(* A command line, from the key that ends it to its first output.          *)
(***************************************************************************)

\* A command is added to the history.
LEMMA NewStarts ==
  ASSUME NEW c \in Histories, NEW new \in Command, Len(c) < MaxCommands, new.dir = Len(c),
         NEW off, NEW has, "cwd" \in has, NEW x \in Prompting(c, off, has)
  PROVE  /\ Later(c, Append(c, new))
         /\ x \in Starting(Append(c, new), off, {})
<1> DEFINE c2 == Append(c, new)
<1>1. /\ Len(c) \in Nat /\ c2 \in Histories /\ Len(c2) = Len(c) + 1 /\ c2[Len(c2)] = new
      /\ \A m \in 1..Len(c) : c2[m] = c[m]
      /\ Len(c2) - 1 = Len(c)
  BY RecorderAssumption DEF Histories
<1> HIDE DEF c2
<1>2. Later(c, c2)
  BY <1>1 DEF Later
<1>3. /\ x \in State /\ ~x.r.done /\ (x.r.paused <=> off)
      /\ ~x.r.open /\ ~x.r.capturing /\ x.r.buf = <<>> /\ Names(x.r) = {0} /\ KeysOf(x.r, {0})
      /\ Right(c, x.stored) /\ KeptUpTo(c, x.stored, Len(c)) /\ x.r.cwd = Len(c)
  BY DEF Prompting, Outside
<1>4. UpTo(c2, x.stored, Len(c)) /\ Bare(x.stored)
  BY <1>2, <1>3, LaterUpTo DEF Right
<1>5. KeptUpTo(c2, x.stored, Len(c))
  BY <1>1, <1>3 DEF KeptUpTo
<1>6. Names(x.r) \subseteq {0, Len(c2)} /\ KeysOf(x.r, {0, Len(c2)})
  BY <1>3 DEF KeysOf
<1>7. x \in Starting(c2, off, {})
  BY <1>1, <1>3, <1>4, <1>5, <1>6 DEF Starting
<1>8. QED BY <1>2, <1>7 DEF c2

LEMMA StaysStarting ==
  ASSUME NEW c, NEW off, NEW has, NEW x \in Starting(c, off, has),
         NEW y \in State, y.stored = x.stored, y.r.done = x.r.done, y.r.paused = x.r.paused,
         y.r.open = x.r.open, y.r.capturing = x.r.capturing, y.r.buf = x.r.buf,
         y.r.cwd = x.r.cwd, Names(y.r) \subseteq {0, Len(c)}, KeysOf(y.r, {0, Len(c)}),
         NEW has2, "open" \in has2 <=> "open" \in has,
         "open" \in has => y.r.phase = "off" /\ ~y.r.alt,
         "named" \in has2 => Len(c) \in {y.r.cmd, y.r.hint, y.r.wez}
  PROVE  y \in Starting(c, off, has2)
BY DEF Starting

LEMMA StartName ==
  ASSUME NEW c \in Histories, Len(c) >= 1, NEW off, NEW has, NEW x \in Starting(c, off, has),
         NEW tok \in {Cmd(Len(c)), Hint(Len(c)), SplitHint(Len(c))},
         NEW has2, "open" \in has2 <=> "open" \in has
  PROVE  Take(c, x, tok) \in Starting(c, off, has2)
<1>1. /\ x \in State /\ Names(x.r) \subseteq {0, Len(c)} /\ KeysOf(x.r, {0, Len(c)})
      /\ ("open" \in has => x.r.phase = "off" /\ ~x.r.alt)
  BY DEF Starting
<1>2. Len(c) \in 0..MaxCommands
  BY DEF Histories
<1>3. PICK y : y = Take(c, x, tok)
  OBVIOUS
<1>4. /\ y \in State /\ y.stored = x.stored /\ SameEntry(x.r, y.r) /\ SameEcho(x.r, y.r)
      /\ Names(y.r) \subseteq {0, Len(c)} /\ Len(c) \in {y.r.cmd, y.r.hint, y.r.wez}
  <2>1. PICK n \in 0..MaxCommands : n = Len(c)
    BY <1>2
  <2>2. Names(x.r) \subseteq {0, n} /\ (tok = Cmd(n) \/ tok = Hint(n) \/ tok = SplitHint(n))
    BY <1>1, <2>1
  <2>3. Learns(x, y, n)
    BY <1>1, <1>3, <2>2, TakeName
  <2>4. QED BY <2>1, <2>3 DEF Learns
<1>5. KeysOf(y.r, {0, Len(c)})
  BY <1>1, <1>4 DEF KeysOf, SameEcho
<1>6. /\ y.r.done = x.r.done /\ y.r.paused = x.r.paused /\ y.r.open = x.r.open
      /\ y.r.capturing = x.r.capturing /\ y.r.buf = x.r.buf /\ y.r.cwd = x.r.cwd
      /\ y.r.alt = x.r.alt /\ y.r.phase = x.r.phase
  BY <1>4 DEF SameEntry, SameEcho
<1>7. "open" \in has => y.r.phase = "off" /\ ~y.r.alt
  BY <1>1, <1>6
<1>8. y \in Starting(c, off, has2)
  BY <1>4, <1>5, <1>6, <1>7, StaysStarting
<1>9. QED BY <1>3, <1>8

LEMMA StartC ==
  ASSUME NEW c \in Histories, Len(c) >= 1, NEW off, NEW has, NEW x \in Starting(c, off, has),
         NEW has2, "open" \in has2, "named" \in has2 => "named" \in has
  PROVE  Take(c, x, C) \in Starting(c, off, has2)
<1>1. /\ x \in State /\ Names(x.r) \subseteq {0, Len(c)} /\ KeysOf(x.r, {0, Len(c)})
      /\ ~x.r.done /\ (x.r.paused <=> off) /\ x.r.cwd = c[Len(c)].dir
      /\ ("named" \in has => Len(c) \in {x.r.cmd, x.r.hint, x.r.wez})
      /\ UpTo(c, x.stored, Len(c) - 1) /\ Bare(x.stored) /\ KeptUpTo(c, x.stored, Len(c) - 1)
      /\ x.r.echo \in Seq(Tokens)
  BY DEF Starting, State, RState
<1>2. PICK y : y = Take(c, x, C)
  OBVIOUS
<1>3. /\ y \in State /\ y.stored = x.stored
      /\ y.r.capturing /\ y.r.open /\ ~y.r.alt /\ y.r.buf = <<>>
      /\ y.r.cwd = x.r.cwd /\ y.r.paused = x.r.paused /\ y.r.done = x.r.done
      /\ y.r.cmd = x.r.cmd /\ y.r.wez = 0
      /\ y.r.hint = IF x.r.wez # 0 THEN x.r.wez ELSE x.r.hint
      /\ y.r.echoed = IF x.r.input THEN Reconstruct(x.r.echo) ELSE x.r.echoed
      /\ y.r.phase = "off" /\ ~y.r.input /\ y.r.echo = <<>>
  BY <1>1, <1>2, TakeC
<1>4. Reconstruct(x.r.echo) \in {0, Len(c)}
  <2>1. Reconstruct(x.r.echo) \in {0, Len(c)} \cup {0}
    BY <1>1, ReconstructIs DEF KeysOf
  <2>2. QED BY <2>1
<1>5. Names(y.r) \subseteq {0, Len(c)}
  BY <1>1, <1>3, <1>4 DEF Names
<1>6. "named" \in has2 => Len(c) \in {y.r.cmd, y.r.hint, y.r.wez}
  BY <1>1, <1>3 DEF Names
<1>7. KeysOf(y.r, {0, Len(c)})
  BY <1>3 DEF KeysOf
<1>8. y \in Starting(c, off, has2)
  BY <1>1, <1>3, <1>5, <1>6, <1>7 DEF Starting
<1>9. QED BY <1>2, <1>8

LEMMA StartMark ==
  ASSUME NEW c \in Histories, Len(c) >= 1, NEW off, NEW has, "open" \notin has,
         NEW x \in Starting(c, off, has), NEW tok \in {A2, B}
  PROVE  Take(c, x, tok) \in Starting(c, off, {})
<1>1. /\ x \in State /\ Names(x.r) \subseteq {0, Len(c)} /\ KeysOf(x.r, {0, Len(c)})
  BY DEF Starting
<1>2. PICK y : y = Take(c, x, tok)
  OBVIOUS
<1>3. /\ y \in State /\ y.stored = x.stored /\ SameEntry(x.r, y.r) /\ Moved(x.r, y.r)
      /\ y.r.echo \in {x.r.echo, <<>>}
  <2>1. CASE tok = A2
    <3>1. /\ y \in State /\ y.stored = x.stored /\ SameEntry(x.r, y.r) /\ Moved(x.r, y.r)
          /\ y.r.echo = IF x.r.input THEN x.r.echo ELSE <<>>
      BY <1>1, <1>2, <2>1, TakeA2
    <3>2. QED BY <3>1
  <2>2. CASE tok = B
    <3>1. /\ y \in State /\ y.stored = x.stored /\ SameEntry(x.r, y.r) /\ Moved(x.r, y.r)
          /\ y.r.echo = IF x.r.phase = "prompt" THEN x.r.echo ELSE <<>>
      BY <1>1, <1>2, <2>2, TakeB
    <3>2. QED BY <3>1
  <2>3. QED BY <2>1, <2>2
<1>4. KeysOf(y.r, {0, Len(c)})
  BY <1>1, <1>3 DEF KeysOf
<1>5. Names(y.r) \subseteq {0, Len(c)}
  BY <1>1, <1>3, MovedNames
<1>6. /\ y.r.done = x.r.done /\ y.r.paused = x.r.paused /\ y.r.open = x.r.open
      /\ y.r.capturing = x.r.capturing /\ y.r.buf = x.r.buf /\ y.r.cwd = x.r.cwd
  BY <1>3 DEF SameEntry
<1>7. y \in Starting(c, off, {})
  BY <1>3, <1>4, <1>5, <1>6, StaysStarting
<1>8. QED BY <1>2, <1>7

LEMMA KeysKnown ==
  ASSUME NEW n \in 0..MaxCommands, NEW tok \in {Keys(n, 1), Keys(n, 2), KeysLost(n)}
  PROVE  tok \in Tokens /\ tok.t = "keys" /\ tok.of = n
<1>1. PICK p \in 0..2 : tok = [t |-> "keys", of |-> n, part |-> p]
  BY DEF Keys, KeysLost
<1>2. tok \in [t : {"keys"}, of : 0..MaxCommands, part : 0..2]
  BY <1>1
<1>3. tok.t = "keys" /\ tok.of = n
  BY <1>1
<1>4. QED BY <1>2, <1>3 DEF Tokens

LEMMA StartKeys ==
  ASSUME NEW c \in Histories, Len(c) >= 1, NEW off, NEW has, "open" \notin has,
         NEW x \in Starting(c, off, has),
         NEW tok \in {Keys(Len(c), 1), Keys(Len(c), 2), KeysLost(Len(c))}
  PROVE  Take(c, x, tok) \in Starting(c, off, {})
<1>1. /\ x \in State /\ Names(x.r) \subseteq {0, Len(c)} /\ KeysOf(x.r, {0, Len(c)})
      /\ ~x.r.capturing /\ x.r.echo \in Seq(Tokens)
  BY DEF Starting, State, RState
<1>2. tok \in Tokens /\ tok.t = "keys" /\ tok.of = Len(c)
  <2>1. Len(c) \in 0..MaxCommands
    BY DEF Histories
  <2>2. QED BY <2>1, KeysKnown
<1>3. PICK y : y = Take(c, x, tok)
  OBVIOUS
<1>4. /\ y \in State /\ y.stored = x.stored /\ SameNames(x.r, y.r)
      /\ y.r.open = x.r.open /\ y.r.capturing = x.r.capturing /\ y.r.cwd = x.r.cwd
      /\ y.r.paused = x.r.paused /\ y.r.done = x.r.done
      /\ y.r.buf = IF x.r.capturing /\ ~x.r.alt /\ x.r.open THEN Append(x.r.buf, tok)
                                                            ELSE x.r.buf
      /\ y.r.echo = IF ~(x.r.capturing /\ ~x.r.alt) /\ x.r.phase # "off"
                      THEN Append(x.r.echo, tok) ELSE x.r.echo
  <2>1. Fed(x, tok, y)
    BY <1>1, <1>2, <1>3, TakeBytes
  <2>2. QED BY <2>1 DEF Fed
<1>5. y.r.buf = x.r.buf /\ y.r.echo \in {x.r.echo, Append(x.r.echo, tok)}
  BY <1>1, <1>4
<1>6. KeysOf(y.r, {0, Len(c)})
  BY <1>1, <1>2, <1>5, KeysMore
<1>7. Names(y.r) \subseteq {0, Len(c)}
  BY <1>1, <1>4 DEF Names, SameNames
<1>8. y \in Starting(c, off, {})
  BY <1>4, <1>5, <1>6, <1>7, StaysStarting
<1>9. QED BY <1>3, <1>8

\* A command line that is echoed as it was typed: ph and echo are what the
\* recorder knows of it.
Typed(c, off, ph, echo) ==
  {x \in Starting(c, off, {}) : x.r.phase = ph /\ x.r.input /\ x.r.echo = echo}

LEMMA TypedStarts ==
  ASSUME NEW c, NEW new, NEW off, NEW has, "input" \in has, NEW x \in Prompting(c, off, has),
         x \in Starting(Append(c, new), off, {})
  PROVE  x \in Typed(Append(c, new), off, "input", <<>>)
BY DEF Prompting, Typed

LEMMA TypedKeys ==
  ASSUME NEW c \in Histories, Len(c) >= 1, NEW off, NEW echo,
         NEW x \in Typed(c, off, "input", echo), NEW tok \in {Keys(Len(c), 1), Keys(Len(c), 2)}
  PROVE  Take(c, x, tok) \in Typed(c, off, "input", Append(echo, tok))
<1>1. /\ x \in State /\ x \in Starting(c, off, {}) /\ ~x.r.capturing
      /\ x.r.phase = "input" /\ x.r.input /\ x.r.echo = echo
  BY DEF Typed, Starting
<1>2. tok \in Tokens
  <2>1. Len(c) \in 0..MaxCommands
    BY DEF Histories
  <2>2. QED BY <2>1, KeysKnown
<1>3. PICK y : y = Take(c, x, tok)
  OBVIOUS
<1>4. /\ y \in State /\ y.stored = x.stored /\ SameNames(x.r, y.r)
      /\ y.r.open = x.r.open /\ y.r.capturing = x.r.capturing /\ y.r.cwd = x.r.cwd
      /\ y.r.paused = x.r.paused /\ y.r.done = x.r.done /\ y.r.alt = x.r.alt
      /\ y.r.phase = x.r.phase /\ y.r.input = x.r.input
      /\ y.r.buf = IF x.r.capturing /\ ~x.r.alt /\ x.r.open THEN Append(x.r.buf, tok)
                                                            ELSE x.r.buf
      /\ y.r.echo = IF ~(x.r.capturing /\ ~x.r.alt) /\ x.r.phase # "off"
                      THEN Append(x.r.echo, tok) ELSE x.r.echo
  <2>1. Fed(x, tok, y)
    BY <1>1, <1>2, <1>3, TakeBytes
  <2>2. QED BY <2>1 DEF Fed
<1>5. y \in Starting(c, off, {})
  BY <1>1, <1>3, StartKeys
<1>6. y.r.phase = "input" /\ y.r.input /\ y.r.echo = Append(echo, tok)
  BY <1>1, <1>4
<1>7. QED BY <1>3, <1>5, <1>6 DEF Typed

LEMMA TypedA2 ==
  ASSUME NEW c \in Histories, Len(c) >= 1, NEW off, NEW echo,
         NEW x \in Typed(c, off, "input", echo)
  PROVE  Take(c, x, A2) \in Typed(c, off, "prompt", echo)
<1>1. x \in State /\ x \in Starting(c, off, {}) /\ x.r.input /\ x.r.echo = echo
  BY DEF Typed, Starting
<1>2. PICK y : y = Take(c, x, A2)
  OBVIOUS
<1>3. /\ y.r.phase = "prompt" /\ y.r.echo = IF x.r.input THEN x.r.echo ELSE <<>>
      /\ x.r.input => y.r.input
  BY <1>1, <1>2, TakeA2
<1>4. y \in Starting(c, off, {})
  BY <1>1, <1>2, StartMark
<1>5. QED BY <1>1, <1>2, <1>3, <1>4 DEF Typed

LEMMA TypedB ==
  ASSUME NEW c \in Histories, Len(c) >= 1, NEW off, NEW echo,
         NEW x \in Typed(c, off, "prompt", echo)
  PROVE  Take(c, x, B) \in Typed(c, off, "input", echo)
<1>1. x \in State /\ x \in Starting(c, off, {}) /\ x.r.phase = "prompt" /\ x.r.echo = echo
  BY DEF Typed, Starting
<1>2. PICK y : y = Take(c, x, B)
  OBVIOUS
<1>3. /\ y.r.phase = "input" /\ y.r.input
      /\ y.r.echo = IF x.r.phase = "prompt" THEN x.r.echo ELSE <<>>
  BY <1>1, <1>2, TakeB
<1>4. y \in Starting(c, off, {})
  BY <1>1, <1>2, StartMark
<1>5. QED BY <1>1, <1>2, <1>3, <1>4 DEF Typed

\* Output has begun, and what the stream tells of the command has been told.
Ready(c, off) ==
  {x \in Starting(c, off, {"open"}) : c[Len(c)].told => Named(x.r, Len(c))}

LEMMA TypedC ==
  ASSUME NEW c \in Histories, Len(c) >= 1, NEW off,
         NEW x \in Typed(c, off, "input", <<Keys(Len(c), 1), Keys(Len(c), 2)>>)
  PROVE  Take(c, x, C) \in Ready(c, off)
<1>1. /\ x \in State /\ x \in Starting(c, off, {}) /\ x.r.input /\ x.r.echo \in Seq(Tokens)
      /\ x.r.echo = <<Keys(Len(c), 1), Keys(Len(c), 2)>>
      /\ KeysOf(x.r, {0, Len(c)})
  BY DEF Typed, Starting, State, RState
<1>2. PICK y : y = Take(c, x, C)
  OBVIOUS
<1>3. /\ y.r.echoed = IF x.r.input THEN Reconstruct(x.r.echo) ELSE x.r.echoed
      /\ y.r.garbled = IF x.r.input THEN Garbles(x.r.echo) ELSE x.r.garbled
  BY <1>1, <1>2, TakeC
<1>4. Reconstruct(x.r.echo) = Len(c) /\ ~Garbles(x.r.echo)
  <2>1. Len(c) \in Numbers
    BY DEF Histories, Numbers
  <2>2. \A n \in Numbers : x.r.echo = <<Keys(n, 1), Keys(n, 2)>> =>
                            Reconstruct(x.r.echo) = n /\ ~Garbles(x.r.echo)
    BY <1>1, ReconstructIs DEF KeysOf
  <2>3. QED BY <1>1, <2>1, <2>2
<1>5. y \in Starting(c, off, {"open"})
  BY <1>1, <1>2, StartC
<1>6. Named(y.r, Len(c))
  BY <1>1, <1>3, <1>4 DEF Named
<1>7. QED BY <1>2, <1>5, <1>6 DEF Ready

LEMMA NamedReady ==
  ASSUME NEW c, NEW off, NEW x,
         \/ x \in Starting(c, off, {"open", "named"})
         \/ x \in Starting(c, off, {"open"}) /\ ~c[Len(c)].told
  PROVE  x \in Ready(c, off)
<1>1. CASE x \in Starting(c, off, {"open", "named"})
  <2>1. x \in Starting(c, off, {"open"}) /\ Named(x.r, Len(c))
    BY <1>1 DEF Starting, Named
  <2>2. QED BY <2>1 DEF Ready
<1>2. CASE x \in Starting(c, off, {"open"}) /\ ~c[Len(c)].told
  BY <1>2 DEF Ready
<1>3. QED BY <1>1, <1>2

-----------------------------------------------------------------------------
(***************************************************************************)
(* A command that runs.                                                    *)
(***************************************************************************)
LEMMA ReadyRuns ==
  ASSUME NEW c \in Histories, Len(c) >= 1, NEW off, NEW x \in Ready(c, off), c[Len(c)].shown = 0
  PROVE  x \in Inside(c, off) /\ ~x.r.alt
<1>1. /\ x \in State /\ ~x.r.done /\ (x.r.paused <=> off)
      /\ x.r.open /\ x.r.capturing /\ x.r.buf = <<>> /\ x.r.phase = "off" /\ ~x.r.alt
      /\ Names(x.r) \subseteq {0, Len(c)} /\ x.r.cwd = c[Len(c)].dir
      /\ UpTo(c, x.stored, Len(c) - 1) /\ Bare(x.stored) /\ KeptUpTo(c, x.stored, Len(c) - 1)
  BY DEF Ready, Starting
<1>2. OutOf(x.r.buf, Len(c)) /\ Len(x.r.buf) = c[Len(c)].shown /\ Shown(x.r.buf)
  BY <1>1 DEF OutOf, Shown
<1>3. c[Len(c)].told => Named(x.r, Len(c))
  BY DEF Ready
<1>4. QED BY <1>1, <1>2, <1>3 DEF Inside

\* Commands are known by their place: what c2 says of the last one that c says,
\* and of all before it.
SameLast(c, c2) ==
  /\ Len(c2) = Len(c)
  /\ \A m \in 1..Len(c) - 1 : c2[m] = c[m]
  /\ c2[Len(c)].kind = c[Len(c)].kind /\ c2[Len(c)].dir = c[Len(c)].dir
  /\ c2[Len(c)].told = c[Len(c)].told

LEMMA BeforeLast ==
  ASSUME NEW c \in Histories, NEW c2, Later(c, c2), SameLast(c, c2), NEW q,
         UpTo(c, q, Len(c) - 1), KeptUpTo(c, q, Len(c) - 1)
  PROVE  UpTo(c2, q, Len(c2) - 1) /\ KeptUpTo(c2, q, Len(c2) - 1)
<1>1. UpTo(c2, q, Len(c2) - 1)
  BY LaterUpTo DEF SameLast
<1>2. KeptUpTo(c2, q, Len(c2) - 1)
  BY DEF SameLast, KeptUpTo
<1>3. QED BY <1>1, <1>2

LEMMA InsideLater ==
  ASSUME NEW c \in Histories, Len(c) >= 1, NEW c2, Later(c, c2), SameLast(c, c2),
         c2[Len(c)].shown = c[Len(c)].shown, NEW off, NEW x \in Inside(c, off)
  PROVE  x \in Inside(c2, off)
<1>1. UpTo(c2, x.stored, Len(c2) - 1) /\ KeptUpTo(c2, x.stored, Len(c2) - 1)
  BY BeforeLast DEF Inside
<1>2. QED BY <1>1 DEF Inside, SameLast

LEMMA RunText ==
  ASSUME NEW c \in Histories, Len(c) >= 1, NEW c2 \in Histories, Later(c, c2), SameLast(c, c2),
         NEW alt, c2[Len(c)].shown = IF alt THEN c[Len(c)].shown ELSE c[Len(c)].shown + 1,
         c[Len(c)].kind # "exit",
         NEW off \in BOOLEAN, NEW x \in Inside(c, off), x.r.alt <=> alt
  PROVE  LET y == Take(c2, x, Text(Len(c), off)) IN y \in Inside(c2, off) /\ (y.r.alt <=> alt)
<1> DEFINE n == Len(c)
           tok == Text(n, off)
<1>1. n \in Nat /\ n >= 1 /\ n \in 0..MaxCommands
  BY DEF Histories
<1>2. /\ x \in State /\ ~x.r.done /\ (x.r.paused <=> off)
      /\ x.r.open /\ x.r.capturing /\ x.r.phase = "off"
      /\ Names(x.r) \subseteq {0, n} /\ (c[n].told => Named(x.r, n))
      /\ x.r.cwd = c[n].dir /\ OutOf(x.r.buf, n) /\ Len(x.r.buf) = c[n].shown
      /\ ("script" \notin Kinds => off \/ Shown(x.r.buf))
      /\ UpTo(c, x.stored, n - 1) /\ Bare(x.stored) /\ KeptUpTo(c, x.stored, n - 1)
      /\ x.r.buf \in Seq(Tokens)
  BY DEF Inside, State, RState
<1>3. tok \in Tokens /\ tok.t = "text" /\ tok.by = n /\ tok.hidden = off
  <2>1. tok = [t |-> "text", by |-> n, hidden |-> off]
    BY DEF Text
  <2>2. tok \in [t : {"text"}, by : 0..MaxCommands, hidden : BOOLEAN]
    BY <1>1, <2>1
  <2>3. QED BY <2>1, <2>2 DEF Tokens
<1>4. UpTo(c2, x.stored, Len(c2) - 1) /\ KeptUpTo(c2, x.stored, Len(c2) - 1)
  BY <1>2, BeforeLast
<1>5. /\ Len(c2) = n /\ c2[n].kind = c[n].kind /\ c2[n].dir = c[n].dir
      /\ c2[n].told = c[n].told
  BY DEF SameLast
<1> HIDE DEF tok
<1>6. PICK y : y = Take(c2, x, tok)
  OBVIOUS
<1>7. /\ y \in State /\ y.stored = x.stored /\ SameNames(x.r, y.r)
      /\ y.r.open = x.r.open /\ y.r.capturing = x.r.capturing /\ y.r.cwd = x.r.cwd
      /\ y.r.paused = x.r.paused /\ y.r.done = x.r.done /\ y.r.alt = x.r.alt
      /\ y.r.phase = x.r.phase /\ y.r.input = x.r.input
      /\ y.r.buf = IF x.r.capturing /\ ~x.r.alt /\ x.r.open THEN Append(x.r.buf, tok)
                                                            ELSE x.r.buf
      /\ y.r.echo = IF ~(x.r.capturing /\ ~x.r.alt) /\ x.r.phase # "off"
                      THEN Append(x.r.echo, tok) ELSE x.r.echo
  <2>1. Fed(x, tok, y)
    BY <1>2, <1>3, <1>6, TakeBytes
  <2>2. QED BY <2>1 DEF Fed
<1>8. y.r.buf = IF alt THEN x.r.buf ELSE Append(x.r.buf, tok)
  BY <1>2, <1>7
<1>9. /\ OutOf(y.r.buf, n) /\ Len(y.r.buf) = c2[n].shown
      /\ ("script" \notin Kinds => off \/ Shown(y.r.buf))
  <2>1. CASE alt
    BY <1>2, <1>8, <2>1
  <2>2. CASE ~alt
    <3>1. /\ y.r.buf = Append(x.r.buf, tok)
          /\ Len(x.r.buf) \in Nat /\ DOMAIN x.r.buf = 1..Len(x.r.buf)
          /\ DOMAIN y.r.buf = 1..Len(x.r.buf) + 1 /\ Len(y.r.buf) = Len(x.r.buf) + 1
          /\ \A i \in 1..Len(x.r.buf) : y.r.buf[i] = x.r.buf[i]
          /\ y.r.buf[Len(x.r.buf) + 1] = tok
      <4>1. PICK b \in Seq(Tokens) : b = x.r.buf
        BY <1>2
      <4>2. y.r.buf = Append(b, tok)
        BY <1>8, <2>2, <4>1
      <4>3. QED BY <4>1, <4>2
    <3>2. \A i \in DOMAIN y.r.buf : i \in 1..Len(x.r.buf) \/ i = Len(x.r.buf) + 1
      BY <3>1
    <3>3. OutOf(y.r.buf, n)
      BY <1>2, <1>3, <3>1, <3>2 DEF OutOf
    <3>4. Len(y.r.buf) = c2[n].shown
      BY <1>2, <2>2, <3>1
    <3>5. "script" \notin Kinds => off \/ Shown(y.r.buf)
      BY <1>2, <1>3, <3>1, <3>2 DEF Shown
    <3>6. QED BY <3>3, <3>4, <3>5
  <2>3. QED BY <2>1, <2>2
<1>10. Names(y.r) = Names(x.r) /\ (Named(x.r, n) => Named(y.r, n))
  BY <1>7 DEF Names, Named, SameNames
<1> HIDE DEF n
<1>11. y \in Inside(c2, off)
  <2>1. c2[n].kind # "exit"
    BY <1>5 DEF n
  <2>2. /\ ~y.r.done /\ (y.r.paused <=> off) /\ y.r.open /\ y.r.capturing
        /\ y.r.phase = "off" /\ y.r.cwd = c2[n].dir
        /\ Names(y.r) \subseteq {0, n} /\ (c2[n].told => Named(y.r, n))
    BY <1>2, <1>5, <1>7, <1>10
  <2>3. /\ UpTo(c2, y.stored, n - 1) /\ Bare(y.stored) /\ KeptUpTo(c2, y.stored, n - 1)
    BY <1>2, <1>4, <1>5, <1>7
  <2>4. QED BY <1>5, <1>7, <1>9, <2>1, <2>2, <2>3 DEF Inside
<1>12. y.r.alt <=> alt
  BY <1>7
<1>13. QED BY <1>6, <1>11, <1>12 DEF tok, n

LEMMA RunToggle ==
  ASSUME NEW c \in Histories, Len(c) >= 1, NEW off \in BOOLEAN, NEW off2, off2 <=> ~off,
         "script" \in Kinds \/ (off => c[Len(c)].shown = 0),
         NEW x \in Inside(c, off)
  PROVE  LET y == Take(c, x, Rec(off)) IN y \in Inside(c, off2) /\ y.r.alt = x.r.alt
<1> DEFINE n == Len(c)
<1>1. n \in Nat /\ n >= 1 /\ n # 0
  BY DEF Histories
<1>2. /\ x \in State /\ ~x.r.done /\ (x.r.paused <=> off)
      /\ x.r.open /\ x.r.capturing /\ x.r.phase = "off"
      /\ Names(x.r) \subseteq {0, n} /\ (c[n].told => Named(x.r, n))
      /\ x.r.cwd = c[n].dir /\ OutOf(x.r.buf, n) /\ Len(x.r.buf) = c[n].shown
      /\ ("script" \notin Kinds => off \/ Shown(x.r.buf))
      /\ (c[n].kind = "exit" => x.r.buf = <<>>)
      /\ UpTo(c, x.stored, n - 1) /\ Bare(x.stored) /\ KeptUpTo(c, x.stored, n - 1)
      /\ x.r.buf \in Seq(Tokens)
  BY DEF Inside, State, RState
<1>3. PICK y : y = Take(c, x, Rec(off))
  OBVIOUS
<1>4. /\ y \in State /\ y.stored = x.stored /\ SameEcho(x.r, y.r) /\ Moved(x.r, y.r)
      /\ (y.r.paused <=> ~off) /\ y.r.open = x.r.open /\ y.r.capturing = x.r.capturing
      /\ y.r.buf = x.r.buf /\ y.r.cwd = x.r.cwd /\ y.r.done = x.r.done
      /\ y.r.alt = x.r.alt
  <2>1. x \in State
    BY <1>2
  <2> HIDE DEF n
  <2>2. QED BY <1>3, <2>1, TakeRec
<1>5. "script" \notin Kinds => off2 \/ Shown(y.r.buf)
  <2>1. ASSUME "script" \notin Kinds, off PROVE Shown(y.r.buf)
    <3>1. Len(x.r.buf) = 0
      BY <1>2, <2>1
    <3>2. QED BY <1>2, <1>4, <3>1 DEF Shown
  <2>2. QED BY <2>1
<1>6. Names(y.r) \subseteq {0, n} /\ (c[n].told => Named(y.r, n))
  <2>1. n # 0
    BY DEF Histories
  <2>2. QED BY <1>2, <1>4, <2>1, MovedNames
<1>7. y.r.phase = "off"
  BY <1>2, <1>4 DEF SameEcho
<1> HIDE DEF n
<1>8. y \in Inside(c, off2)
  BY <1>2, <1>4, <1>5, <1>6, <1>7 DEF Inside, n
<1>9. QED BY <1>3, <1>4, <1>8

LEMMA RunScreen ==
  ASSUME NEW c \in Histories, Len(c) >= 1, NEW off, NEW alt \in BOOLEAN, NEW x \in Inside(c, off)
  PROVE  LET y == Take(c, x, Alt(alt)) IN y \in Inside(c, off) /\ (y.r.alt <=> alt)
<1>1. x \in State
  BY DEF Inside
<1>2. PICK y : y = Take(c, x, Alt(alt))
  OBVIOUS
<1>3. /\ y \in State /\ y.stored = x.stored /\ SameEcho(x.r, y.r) /\ SameNames(x.r, y.r)
      /\ (y.r.alt <=> alt) /\ y.r.open = x.r.open /\ y.r.capturing = x.r.capturing
      /\ y.r.buf = x.r.buf /\ y.r.cwd = x.r.cwd /\ y.r.done = x.r.done
      /\ y.r.paused = x.r.paused
  BY <1>1, <1>2, TakeAlt
<1>4. /\ Names(y.r) = Names(x.r) /\ y.r.phase = x.r.phase
      /\ \A n : Named(x.r, n) => Named(y.r, n)
  BY <1>3 DEF Names, Named, SameNames, SameEcho
<1>5. y \in Inside(c, off)
  BY <1>3, <1>4 DEF Inside
<1>6. QED BY <1>2, <1>3, <1>5

-----------------------------------------------------------------------------
(***************************************************************************)
(* A shell without integrations, of which nothing is recorded.             *)
(***************************************************************************)
Silent ==
  {x \in State : /\ ~x.r.done /\ ~x.r.open /\ ~x.r.capturing /\ x.r.buf = <<>>
                 /\ x.r.phase = "off" /\ Names(x.r) = {0} /\ x.stored = <<>>}

LEMMA SilentGood ==
  ASSUME NEW c \in Histories, NEW x \in Silent
  PROVE  Good(c, x)
<1>1. /\ x \in State /\ ~x.r.done /\ ~x.r.open /\ ~x.r.capturing /\ x.r.buf = <<>>
      /\ Names(x.r) = {0} /\ x.stored = <<>> /\ Len(c) \in Nat
  BY DEF Silent, Histories
<1>2. Right(c, x.stored)
  BY <1>1 DEF Right, UpTo, Bare
<1>3. Names(x.r) \subseteq 0..Len(c)
  BY <1>1
<1>4. QED BY <1>1, <1>2, <1>3, GoodClosed

LEMMA SilentBytes ==
  ASSUME NEW c, NEW x \in Silent, NEW tok \in Tokens
  PROVE  Take(c, x, tok) \in Silent
<1>1. /\ x \in State /\ ~x.r.done /\ ~x.r.open /\ ~x.r.capturing /\ x.r.buf = <<>>
      /\ x.r.phase = "off" /\ Names(x.r) = {0} /\ x.stored = <<>>
  BY DEF Silent
<1>2. PICK y : y = Take(c, x, tok)
  OBVIOUS
<1>3. Fed(x, tok, y)
  BY <1>1, <1>2, TakeBytes
<1>4. Names(y.r) = {0} /\ y.r.buf = <<>>
  BY <1>1, <1>3 DEF Fed, Names, SameNames
<1>5. y \in Silent
  BY <1>1, <1>3, <1>4 DEF Fed, Silent
<1>6. QED BY <1>2, <1>5

LEMMA SilentSwitches ==
  ASSUME NEW c, NEW x \in Silent, NEW on \in BOOLEAN
  PROVE  Take(c, x, Rec(on)) \in Silent /\ Take(c, x, Alt(on)) \in Silent
<1>1. /\ x \in State /\ ~x.r.done /\ ~x.r.open /\ ~x.r.capturing /\ x.r.buf = <<>>
      /\ x.r.phase = "off" /\ Names(x.r) = {0} /\ x.stored = <<>>
  BY DEF Silent
<1>2. PICK y : y = Take(c, x, Rec(on))
  OBVIOUS
<1>3. /\ y \in State /\ y.stored = x.stored /\ SameEcho(x.r, y.r) /\ Moved(x.r, y.r)
      /\ (y.r.paused <=> ~on) /\ y.r.open = x.r.open /\ y.r.capturing = x.r.capturing
      /\ y.r.buf = x.r.buf /\ y.r.cwd = x.r.cwd /\ y.r.done = x.r.done
      /\ y.r.alt = x.r.alt
  BY <1>1, <1>2, TakeRec
<1>4. Names(y.r) = {0}
  <2>1. Names(y.r) \subseteq {0}
    BY <1>1, <1>3, ZeroMoved
  <2>2. QED BY <2>1 DEF Names
<1>5. y \in Silent
  BY <1>1, <1>3, <1>4 DEF Silent, SameEcho
<1>6. PICK z : z = Take(c, x, Alt(on))
  OBVIOUS
<1>7. /\ z \in State /\ z.stored = x.stored /\ SameEcho(x.r, z.r) /\ SameNames(x.r, z.r)
      /\ (z.r.alt <=> on) /\ z.r.open = x.r.open /\ z.r.capturing = x.r.capturing
      /\ z.r.buf = x.r.buf /\ z.r.cwd = x.r.cwd /\ z.r.done = x.r.done
      /\ z.r.paused = x.r.paused
  BY <1>1, <1>6, TakeAlt
<1>8. Names(z.r) = {0}
  BY <1>1, <1>7 DEF Names, SameNames
<1>9. z \in Silent
  BY <1>1, <1>7, <1>8 DEF Silent, SameEcho
<1>10. QED BY <1>2, <1>5, <1>6, <1>9

-----------------------------------------------------------------------------
(***************************************************************************)
(* What the shell writes at a prompt.                                      *)
(***************************************************************************)
LEMMA LeadWider ==
  ASSUME NEW c, NEW X, NEW Y, NEW q, Leads(c, X, q, Y),
         NEW X2, X2 \subseteq X, NEW Y2, Y \subseteq Y2
  PROVE  Leads(c, X2, q, Y2)
BY DEF Leads

LEMMA Lead2 ==
  ASSUME NEW c, NEW X, NEW Y, NEW Z, NEW a, NEW b,
         Leads(c, X, <<a>>, Y), Leads(c, Y, <<b>>, Z)
  PROVE  Leads(c, X, <<a, b>>, Z)
<1>1. <<a, b>> = <<a>> \o <<b>>
  <2>1. /\ Len(<<a, b>>) = 2 /\ <<a, b>> \in Seq({a, b})
        /\ Len(<<a>> \o <<b>>) = 2 /\ <<a>> \o <<b>> \in Seq({a, b})
    OBVIOUS
  <2>2. \A i \in 1..2 : <<a, b>>[i] = (<<a>> \o <<b>>)[i]
    OBVIOUS
  <2>3. QED BY <2>1, <2>2, SeqEqual
<1>2. QED BY <1>1, LeadOn

LEMMA Lead3 ==
  ASSUME NEW c, NEW X, NEW Y, NEW Z, NEW W, NEW a, NEW b, NEW d,
         Leads(c, X, <<a>>, Y), Leads(c, Y, <<b>>, Z), Leads(c, Z, <<d>>, W)
  PROVE  Leads(c, X, <<a, b, d>>, W)
<1>1. <<a, b, d>> = <<a>> \o <<b, d>>
  OBVIOUS
<1>2. Leads(c, Y, <<b, d>>, W)
  BY Lead2
<1>3. QED BY <1>1, <1>2, LeadOn

LEMMA Lead4 ==
  ASSUME NEW c, NEW X, NEW Y, NEW Z, NEW W, NEW V, NEW a, NEW b, NEW d, NEW e,
         Leads(c, X, <<a>>, Y), Leads(c, Y, <<b>>, Z), Leads(c, Z, <<d>>, W),
         Leads(c, W, <<e>>, V)
  PROVE  Leads(c, X, <<a, b, d, e>>, V)
<1>1. <<a, b, d, e>> = <<a>> \o <<b, d, e>>
  OBVIOUS
<1>2. Leads(c, Y, <<b, d, e>>, V)
  BY Lead3
<1>3. QED BY <1>1, <1>2, LeadOn

LEMMA PromptingGood ==
  ASSUME NEW c \in Histories, NEW off, NEW has
  PROVE  /\ Prompting(c, off, has) \subseteq Outside(c, off)
         /\ \A x \in Prompting(c, off, has) : Good(c, x)
<1>1. Prompting(c, off, has) \subseteq Outside(c, off)
  BY DEF Prompting
<1>2. QED BY <1>1, GoodStates

LEMMA OutsidePrompts ==
  ASSUME NEW c, NEW off
  PROVE  Outside(c, off) = Prompting(c, off, {})
BY DEF Prompting

LEMMA LeadA ==
  ASSUME NEW c \in Histories, NEW off, NEW has,
         NEW has2, has2 \subseteq {"cwd", "prompt"}, "cwd" \in has2 => "cwd" \in has
  PROVE  Leads(c, Prompting(c, off, has), <<A>>, Prompting(c, off, has2))
<1>1. \A x \in Prompting(c, off, has) : Good(c, x) /\ Take(c, x, A) \in Prompting(c, off, has2)
  BY PromptA, PromptingGood
<1>2. QED BY <1>1, PromptingGood, TokensKnown, LeadToken

LEMMA LeadB ==
  ASSUME NEW c \in Histories, NEW off, NEW has, "prompt" \in has,
         NEW has2, has2 \subseteq {"cwd", "input"}, "cwd" \in has2 => "cwd" \in has
  PROVE  Leads(c, Prompting(c, off, has), <<B>>, Prompting(c, off, has2))
<1>1. \A x \in Prompting(c, off, has) : Good(c, x) /\ Take(c, x, B) \in Prompting(c, off, has2)
  BY PromptB, PromptingGood
<1>2. QED BY <1>1, PromptingGood, TokensKnown, LeadToken

LEMMA LeadCwd ==
  ASSUME NEW c \in Histories, NEW off, NEW has, NEW has2, has2 \subseteq has \cup {"cwd"}
  PROVE  Leads(c, Prompting(c, off, has), <<Cwd(Len(c))>>, Prompting(c, off, has2))
<1>1. \A x \in Prompting(c, off, has) :
        Good(c, x) /\ Take(c, x, Cwd(Len(c))) \in Prompting(c, off, has2)
  BY PromptCwd, PromptingGood
<1>2. Cwd(Len(c)) \in AllTokens
  <2>1. Len(c) \in 0..MaxCommands
    BY DEF Histories
  <2>2. QED BY <2>1, TokensKnown
<1>3. QED BY <1>1, <1>2, PromptingGood, LeadToken

LEMMA LeadD ==
  ASSUME NEW c \in Histories, NEW off, NEW has, NEW tok \in {BareD, D(0), D(1)},
         NEW has2, has2 \subseteq has \cap {"cwd"}
  PROVE  Leads(c, Prompting(c, off, has), <<tok>>, Prompting(c, off, has2))
<1>1. \A x \in Prompting(c, off, has) : Good(c, x) /\ Take(c, x, tok) \in Prompting(c, off, has2)
  BY PromptD, PromptingGood
<1>2. tok \in AllTokens
  BY TokensKnown
<1>3. QED BY <1>1, <1>2, PromptingGood, LeadToken

LEMMA LeadIdle ==
  ASSUME NEW c \in Histories, NEW off, NEW tok \in {BareD, D(0), D(1)}
  PROVE  /\ Leads(c, Outside(c, off), <<Hint(0)>>, Outside(c, off))
         /\ Leads(c, Outside(c, off), <<C>>, Bracket(c, off))
         /\ Leads(c, Bracket(c, off), <<tok>>, Outside(c, off))
<1>1. \A x \in Outside(c, off) \cup Bracket(c, off) : Good(c, x)
  BY GoodStates
<1>2. Hint(0) \in AllTokens /\ C \in AllTokens /\ tok \in AllTokens
  <2>1. 0 \in 0..MaxCommands
    BY RecorderAssumption
  <2>2. QED BY <2>1, TokensKnown
<1>3. Leads(c, Outside(c, off), <<Hint(0)>>, Outside(c, off))
  BY <1>1, <1>2, PromptHint, LeadToken
<1>4. Leads(c, Outside(c, off), <<C>>, Bracket(c, off))
  BY <1>1, <1>2, BracketOpens, LeadToken
<1>5. Leads(c, Bracket(c, off), <<tok>>, Outside(c, off))
  BY <1>1, <1>2, BracketCloses, LeadToken
<1>6. QED BY <1>3, <1>4, <1>5

\* The last command is over, and its D is to come.
LEMMA LeadOver ==
  ASSUME NEW c \in Histories, Len(c) >= 1, NEW off, NEW code \in 0..1,
         (c[Len(c)].kind = "exit" /\ c[Len(c)].told) \/
           /\ c[Len(c)].off <=> off
           /\ c[Len(c)].ended /\ c[Len(c)].code = code
  PROVE  Leads(c, Inside(c, off), <<D(code)>>, Outside(c, off))
<1>1. D(code) \in {BareD, D(0), D(1)} /\ D(code) \in AllTokens
  BY TokensKnown
<1>2. D(code).code = code
  BY DEF D
<1>3. \A x \in Inside(c, off) : Good(c, x) /\ Take(c, x, D(code)) \in Outside(c, off)
  BY <1>1, <1>2, CommandCloses, GoodStates
<1>4. QED BY <1>1, <1>3, GoodStates, LeadToken

LEMMA CodeIsD ==
  ASSUME NEW code \in 0..1
  PROVE  D(code) \in {BareD, D(0), D(1)}
OBVIOUS

LEMMA LeadIf ==
  ASSUME NEW c, NEW X, NEW Y, NEW q, NEW cond \in BOOLEAN, \A x \in X : Good(c, x),
         cond => Leads(c, X, q, Y), ~cond => X \subseteq Y
  PROVE  Leads(c, X, If(cond, q), Y)
<1>1. CASE cond
  BY <1>1 DEF If
<1>2. CASE ~cond
  <2>1. Leads(c, X, <<>>, X)
    BY LeadNowhere
  <2>2. Leads(c, X, <<>>, Y)
    BY <1>2, <2>1, LeadWider
  <2>3. QED BY <1>2, <2>2 DEF If
<1>3. QED BY <1>1, <1>2

LEMMA LeadSnippetPrompt ==
  ASSUME NEW c \in Histories, NEW off, NEW ran \in BOOLEAN, NEW code \in 0..1,
         emit.snip # "none",
         NEW X, \/ X = Outside(c, off)
                \/ /\ ran /\ emit.snip \in {"bash", "zsh", "pwsh"}
                   /\ Leads(c, X, <<D(code)>>, Outside(c, off)) /\ \A x \in X : Good(c, x)
  PROVE  Leads(c, X, SnippetPrompt(ran, code, Len(c)), Prompting(c, off, {"cwd"}))
<1> DEFINE cond == (ran /\ emit.snip = "bash") \/ emit.snip \in {"zsh", "pwsh"}
           O == Outside(c, off)
<1>1. Leads(c, O, <<D(code)>>, O)
  <2>1. Leads(c, Prompting(c, off, {}), <<D(code)>>, Prompting(c, off, {}))
    BY LeadD, CodeIsD
  <2>2. QED BY <2>1, OutsidePrompts
<1>2. Leads(c, X, <<D(code)>>, O) /\ \A x \in X : Good(c, x)
  BY <1>1, GoodStates
<1>3. ~cond => X \subseteq O
  OBVIOUS
<1>4. Leads(c, X, If(cond, <<D(code)>>), O)
  <2>1. cond \in BOOLEAN
    OBVIOUS
  <2> HIDE DEF cond, O
  <2>2. QED BY <1>2, <1>3, <2>1, LeadIf
<1>5. Leads(c, O, <<Cwd(Len(c)), A>>, Prompting(c, off, {"cwd", "prompt"}))
  <2>1. Leads(c, Prompting(c, off, {}), <<Cwd(Len(c))>>, Prompting(c, off, {"cwd"}))
    BY LeadCwd
  <2>2. Leads(c, Prompting(c, off, {"cwd"}), <<A>>, Prompting(c, off, {"cwd", "prompt"}))
    BY LeadA
  <2>3. QED BY <2>1, <2>2, OutsidePrompts, Lead2
<1>6. Leads(c, Prompting(c, off, {"cwd", "prompt"}), If(emit.snip = "pwsh", <<B>>),
            Prompting(c, off, {"cwd"}))
  <2>1. Leads(c, Prompting(c, off, {"cwd", "prompt"}), <<B>>, Prompting(c, off, {"cwd"}))
    BY LeadB
  <2>2. Prompting(c, off, {"cwd", "prompt"}) \subseteq Prompting(c, off, {"cwd"})
    BY DEF Prompting
  <2>3. (emit.snip = "pwsh") \in BOOLEAN
    OBVIOUS
  <2>4. QED BY <2>1, <2>2, <2>3, PromptingGood, LeadIf
<1>7. SnippetPrompt(ran, code, Len(c)) =
        If(cond, <<D(code)>>) \o <<Cwd(Len(c)), A>> \o If(emit.snip = "pwsh", <<B>>)
  BY DEF SnippetPrompt, If
<1> DEFINE q == If(cond, <<D(code)>>)
<1> HIDE DEF cond, O, q
<1>8. Leads(c, X, q \o <<Cwd(Len(c)), A>>, Prompting(c, off, {"cwd", "prompt"}))
  BY <1>4, <1>5, LeadOn DEF q
<1>9. Leads(c, X, (q \o <<Cwd(Len(c)), A>>) \o If(emit.snip = "pwsh", <<B>>),
            Prompting(c, off, {"cwd"}))
  BY <1>6, <1>8, LeadOn
<1>10. QED BY <1>7, <1>9 DEF q

LEMMA LeadNativePrompt ==
  ASSUME NEW c \in Histories, NEW off, NEW ran \in BOOLEAN, NEW code \in 0..1,
         emit.native # "none",
         NEW X, \/ X = Outside(c, off)
                \/ /\ ran /\ emit.native # "fish"
                   /\ Leads(c, X, <<D(code)>>, Outside(c, off)) /\ \A x \in X : Good(c, x)
  PROVE  Leads(c, X, NativePrompt(ran, code, Len(c)), Prompting(c, off, {"cwd", "input"}))
<1> DEFINE O == Outside(c, off)
           P == Prompting(c, off, {"cwd", "input"})
           d == Len(c)
<1>1. Leads(c, O, <<D(code)>>, O) /\ Leads(c, O, <<BareD>>, O)
  <2>1. /\ Leads(c, Prompting(c, off, {}), <<D(code)>>, Prompting(c, off, {}))
        /\ Leads(c, Prompting(c, off, {}), <<BareD>>, Prompting(c, off, {}))
    BY LeadD, CodeIsD
  <2>2. QED BY <2>1, OutsidePrompts
<1>2. Leads(c, X, <<D(code)>>, O) /\ \A x \in X \cup O : Good(c, x)
  BY <1>1, GoodStates
<1>3. ~ran \/ emit.native = "fish" => X = O
  OBVIOUS
<1>4. /\ Leads(c, O, <<Cwd(d)>>, Prompting(c, off, {"cwd"}))
      /\ Leads(c, Prompting(c, off, {"cwd"}), <<A>>, Prompting(c, off, {"cwd", "prompt"}))
      /\ Leads(c, Prompting(c, off, {"cwd", "prompt"}), <<A>>,
               Prompting(c, off, {"cwd", "prompt"}))
      /\ Leads(c, Prompting(c, off, {"cwd", "prompt"}), <<B>>, P)
      /\ Leads(c, O, <<A>>, Prompting(c, off, {"prompt"}))
      /\ Leads(c, Prompting(c, off, {"prompt"}), <<B>>, Prompting(c, off, {"input"}))
      /\ Leads(c, Prompting(c, off, {"prompt"}), <<Cwd(d)>>,
               Prompting(c, off, {"cwd", "prompt"}))
      /\ Leads(c, Prompting(c, off, {"input"}), <<Cwd(d)>>, P)
  <2>1. /\ Leads(c, Prompting(c, off, {}), <<Cwd(d)>>, Prompting(c, off, {"cwd"}))
        /\ Leads(c, Prompting(c, off, {"prompt"}), <<Cwd(d)>>,
                 Prompting(c, off, {"cwd", "prompt"}))
        /\ Leads(c, Prompting(c, off, {"input"}), <<Cwd(d)>>, P)
    BY LeadCwd
  <2>2. /\ Leads(c, Prompting(c, off, {"cwd"}), <<A>>, Prompting(c, off, {"cwd", "prompt"}))
        /\ Leads(c, Prompting(c, off, {"cwd", "prompt"}), <<A>>,
                 Prompting(c, off, {"cwd", "prompt"}))
        /\ Leads(c, Prompting(c, off, {}), <<A>>, Prompting(c, off, {"prompt"}))
    BY LeadA
  <2>3. /\ Leads(c, Prompting(c, off, {"cwd", "prompt"}), <<B>>, P)
        /\ Leads(c, Prompting(c, off, {"prompt"}), <<B>>, Prompting(c, off, {"input"}))
    BY LeadB
  <2>4. QED BY <2>1, <2>2, <2>3, OutsidePrompts
<1> HIDE DEF O, P, d
<1>5. Leads(c, O, <<Cwd(d), A, B>>, P)
  BY <1>4, Lead3
<1>6. CASE emit.native = "fish"
  <2>1. Leads(c, O, <<A, B, Cwd(d)>>, P)
    BY <1>4, Lead3
  <2>2. NativePrompt(ran, code, Len(c)) = <<A, B, Cwd(d)>>
    BY <1>6 DEF NativePrompt, d
  <2>3. QED BY <1>3, <1>6, <2>1, <2>2 DEF P
<1>7. CASE emit.native = "iterm2"
  <2>1. Leads(c, O, <<C>>, Bracket(c, off)) /\ Leads(c, Bracket(c, off), <<D(code)>>, O)
    BY LeadIdle, CodeIsD DEF O
  <2>2. NativePrompt(ran, code, Len(c)) = If(~ran, <<C>>) \o <<D(code), Cwd(d), A, B>>
    BY <1>7 DEF NativePrompt, d
  <2>3. CASE ran
    <3>1. Leads(c, X, <<D(code), Cwd(d), A, B>>, P)
      BY <1>2, <1>4, Lead4
    <3>2. If(~ran, <<C>>) \o <<D(code), Cwd(d), A, B>> = <<D(code), Cwd(d), A, B>>
      BY <2>3 DEF If
    <3>3. QED BY <2>2, <3>1, <3>2 DEF P
  <2>4. CASE ~ran
    <3>1. Leads(c, Bracket(c, off), <<D(code), Cwd(d), A, B>>, P)
      BY <1>4, <2>1, Lead4
    <3>2. Leads(c, O, <<C>> \o <<D(code), Cwd(d), A, B>>, P)
      BY <2>1, <3>1, LeadOn
    <3>3. If(~ran, <<C>>) = <<C>>
      BY <2>4 DEF If
    <3>4. QED BY <1>3, <2>2, <2>4, <3>2, <3>3 DEF P
  <2>5. QED BY <2>3, <2>4
<1>8. Leads(c, X, IF ran THEN <<D(code)>> ELSE <<BareD>>, O)
  <2>1. CASE ran
    BY <1>2, <2>1
  <2>2. CASE ~ran
    BY <1>1, <1>3, <2>2
  <2>3. QED BY <2>1, <2>2
<1>9. CASE emit.native = "ghostty"
  <2>1. Leads(c, O, <<Cwd(d), A, A, B>>, P)
    BY <1>4, Lead4
  <2>2. Leads(c, X, (IF ran THEN <<D(code)>> ELSE <<BareD>>) \o <<Cwd(d), A, A, B>>, P)
    BY <1>8, <2>1, LeadOn
  <2>3. NativePrompt(ran, code, Len(c)) =
          (IF ran THEN <<D(code)>> ELSE <<BareD>>) \o <<Cwd(d), A, A, B>>
    BY <1>9 DEF NativePrompt, d
  <2>4. QED BY <2>2, <2>3 DEF P
<1>10. CASE emit.native = "vscode"
  <2>1. Leads(c, X, If(~ran, <<Hint(0), C>>) \o (IF ran THEN <<D(code)>> ELSE <<BareD>>), O)
    <3>1. CASE ran
      <4>1. If(~ran, <<Hint(0), C>>) \o <<D(code)>> = <<D(code)>>
        BY <3>1 DEF If
      <4>2. QED BY <1>2, <3>1, <4>1
    <3>2. CASE ~ran
      <4>1. /\ Leads(c, O, <<Hint(0)>>, O) /\ Leads(c, O, <<C>>, Bracket(c, off))
            /\ Leads(c, Bracket(c, off), <<BareD>>, O)
        BY LeadIdle DEF O
      <4>2. Leads(c, O, <<Hint(0), C>>, Bracket(c, off))
        BY <4>1, Lead2
      <4>3. Leads(c, O, <<Hint(0), C>> \o <<BareD>>, O)
        BY <4>1, <4>2, LeadOn
      <4>4. QED BY <1>3, <3>2, <4>3 DEF If
    <3>3. QED BY <3>1, <3>2
  <2>2. Leads(c, O, <<A, Cwd(d), B>>, P)
    BY <1>4, Lead3
  <2>3. Leads(c, X, (If(~ran, <<Hint(0), C>>) \o (IF ran THEN <<D(code)>> ELSE <<BareD>>))
                       \o <<A, Cwd(d), B>>, P)
    BY <2>1, <2>2, LeadOn
  <2>4. NativePrompt(ran, code, Len(c)) =
          (If(~ran, <<Hint(0), C>>) \o (IF ran THEN <<D(code)>> ELSE <<BareD>>))
            \o <<A, Cwd(d), B>>
    BY <1>10 DEF NativePrompt, d
  <2>5. QED BY <2>3, <2>4 DEF P
<1>11. CASE emit.native \notin {"fish", "iterm2", "ghostty", "vscode"}
  <2>1. Leads(c, X, If(ran, <<D(code)>>), O)
    <3>1. CASE ran
      BY <1>2, <3>1 DEF If
    <3>2. CASE ~ran
      <4>1. Leads(c, O, <<>>, O)
        BY <1>2, LeadNowhere
      <4>2. QED BY <1>3, <3>2, <4>1 DEF If
    <3>3. QED BY <3>1, <3>2
  <2>2. Leads(c, X, If(ran, <<D(code)>>) \o <<Cwd(d), A, B>>, P)
    BY <1>5, <2>1, LeadOn
  <2>3. NativePrompt(ran, code, Len(c)) = If(ran, <<D(code)>>) \o <<Cwd(d), A, B>>
    BY <1>11 DEF NativePrompt, d
  <2>4. QED BY <2>2, <2>3 DEF P
<1>12. QED BY <1>6, <1>7, <1>9, <1>10, <1>11

\* The integrations of a session.
EmitOK ==
  /\ emit.snip \in Snippets /\ emit.snipFirst \in BOOLEAN
  /\ Together(emit.snip, emit.native)

Emits == emit.snip # "none" \/ emit.native # "none"

\* The states of the recorder when the prompt is there: if the echo is what
\* the text of a command must come from, its start has been seen.
Prompted(c, off) ==
  Prompting(c, off, IF emit.snip = "none" THEN {"cwd", "input"} ELSE {"cwd"})

LEMMA SnippetsKnown ==
  ASSUME EmitOK
  PROVE  emit.snip \in {"none", "bash", "zsh", "fish", "pwsh"}
BY RecorderAssumption DEF EmitOK

LEMMA LeadBoth ==
  ASSUME NEW c, NEW X, NEW Y, NEW Z, NEW q, NEW q2,
         emit.snipFirst => Leads(c, X, q, Y) /\ Leads(c, Y, q2, Z),
         ~emit.snipFirst => Leads(c, X, q2, Y) /\ Leads(c, Y, q, Z)
  PROVE  Leads(c, X, Both(q, q2), Z)
BY LeadOn DEF Both

LEMMA LeadPrompt ==
  ASSUME NEW c \in Histories, NEW off, NEW ran \in BOOLEAN, NEW code \in 0..1,
         EmitOK, Emits,
         NEW X, \/ X = Outside(c, off)
                \/ /\ ran /\ emit.snip # "fish" /\ emit.native # "fish"
                   /\ Leads(c, X, <<D(code)>>, Outside(c, off)) /\ \A x \in X : Good(c, x)
  PROVE  Leads(c, X, Prompt(ran, code, Len(c)), Prompted(c, off))
<1> DEFINE O == Outside(c, off)
           S == SnippetPrompt(ran, code, Len(c))
           N == NativePrompt(ran, code, Len(c))
           P == Prompting(c, off, {"cwd"})
           Q == Prompting(c, off, {"cwd", "input"})
<1>1. P \subseteq O /\ Q \subseteq P /\ Q \subseteq O
  BY DEF Prompting
<1>2. Prompt(ran, code, Len(c)) = Both(S, N)
  BY DEF Prompt
<1>3. ASSUME emit.snip # "none" PROVE Leads(c, X, S, P) /\ Leads(c, O, S, P)
  BY <1>3, LeadSnippetPrompt, SnippetsKnown
<1>4. ASSUME emit.native # "none" PROVE Leads(c, X, N, Q) /\ Leads(c, O, N, Q)
  BY <1>4, LeadNativePrompt
<1>5. \A x \in X \cup O \cup P \cup Q : Good(c, x)
  BY <1>1, GoodStates
<1>6. emit.snip = "none" => S = <<>>
  BY DEF SnippetPrompt, If
<1>7. emit.native = "none" => N = <<>>
  BY DEF NativePrompt
<1> HIDE DEF O, S, N, P, Q
<1>8. CASE emit.snip # "none" /\ emit.native # "none"
  <2>1. Leads(c, X, S, O) /\ Leads(c, O, N, P)
    BY <1>1, <1>3, <1>4, <1>8, LeadWider
  <2>2. Leads(c, X, N, O) /\ Leads(c, O, S, P)
    BY <1>1, <1>3, <1>4, <1>8, LeadWider
  <2>3. Leads(c, X, Both(S, N), P)
    BY <2>1, <2>2, LeadBoth
  <2>4. QED BY <1>2, <1>8, <2>3 DEF Prompted, P
<1>9. CASE emit.snip # "none" /\ emit.native = "none"
  <2>1. Leads(c, X, <<>>, X) /\ Leads(c, P, <<>>, P)
    BY <1>5, LeadNowhere
  <2>2. Leads(c, X, S, P) /\ N = <<>>
    BY <1>3, <1>7, <1>9
  <2>3. S \in Seq(AllTokens)
    BY <2>2 DEF Leads
  <2>4. Both(S, N) = S
    BY <2>2, <2>3 DEF Both
  <2>5. QED BY <1>2, <1>9, <2>2, <2>4 DEF Prompted, P
<1>10. CASE emit.snip = "none"
  <2>1. Leads(c, X, N, Q) /\ S = <<>>
    BY <1>4, <1>6, <1>10 DEF Emits
  <2>2. N \in Seq(AllTokens)
    BY <2>1 DEF Leads
  <2>3. Both(S, N) = N
    BY <2>1, <2>2 DEF Both
  <2>4. QED BY <1>2, <1>10, <2>1, <2>3 DEF Prompted, Q
<1>11. QED BY <1>8, <1>9, <1>10

\* After a command: fish closes it at once, in other shells the prompt does.
Closed == emit.snip = "fish" \/ emit.native = "fish"

LEMMA LeadPostexec ==
  ASSUME NEW c \in Histories, NEW off, NEW code \in 0..1, EmitOK,
         NEW X, \A x \in X : Good(c, x), Leads(c, X, <<D(code)>>, Outside(c, off))
  PROVE  Leads(c, X, Postexec(code), IF Closed THEN Outside(c, off) ELSE X)
<1> DEFINE O == Outside(c, off)
           d == <<D(code)>>
<1>1. Leads(c, O, d, O)
  <2>1. Leads(c, Prompting(c, off, {}), <<D(code)>>, Prompting(c, off, {}))
    BY LeadD, CodeIsD
  <2>2. QED BY <2>1, OutsidePrompts
<1>2. d \in Seq(AllTokens)
  BY DEF Leads
<1>3. Leads(c, X, <<>>, X)
  BY LeadNowhere
<1> HIDE DEF O, d
<1>4. CASE emit.snip = "fish" /\ emit.native = "fish"
  <2>1. Leads(c, X, d \o d, O)
    BY <1>1, LeadOn DEF O, d
  <2>2. Postexec(code) = d \o d
    BY <1>4 DEF Postexec, Both, If, d
  <2>3. QED BY <1>4, <2>1, <2>2 DEF Closed, O
<1>5. CASE emit.snip = "fish" /\ emit.native # "fish"
  <2>1. Postexec(code) = d
    <3>1. d \o <<>> = d /\ <<>> \o d = d
      BY <1>2
    <3>2. QED BY <1>5, <3>1 DEF Postexec, Both, If, d
  <2>2. QED BY <1>5, <2>1 DEF Closed, d
<1>6. CASE emit.snip # "fish" /\ emit.native = "fish"
  <2>1. Postexec(code) = d
    <3>1. d \o <<>> = d /\ <<>> \o d = d
      BY <1>2
    <3>2. QED BY <1>6, <3>1 DEF Postexec, Both, If, d
  <2>2. QED BY <1>6, <2>1 DEF Closed, d
<1>7. CASE emit.snip # "fish" /\ emit.native # "fish"
  <2>1. Postexec(code) = <<>>
    BY <1>7 DEF Postexec, Both, If
  <2>2. QED BY <1>3, <1>7, <2>1 DEF Closed
<1>8. QED BY <1>4, <1>5, <1>6, <1>7

-----------------------------------------------------------------------------
(***************************************************************************)
(* What the shell writes when a command line is sent off.                  *)
(***************************************************************************)
LEMMA LeadKeys ==
  ASSUME NEW c \in Histories, Len(c) >= 1, NEW off, NEW echo,
         NEW tok \in {Keys(Len(c), 1), Keys(Len(c), 2), KeysLost(Len(c))}
  PROVE  /\ Leads(c, Starting(c, off, {}), <<tok>>, Starting(c, off, {}))
         /\ tok # KeysLost(Len(c)) =>
              Leads(c, Typed(c, off, "input", echo), <<tok>>,
                    Typed(c, off, "input", Append(echo, tok)))
<1>1. tok \in AllTokens
  <2>1. Len(c) \in 0..MaxCommands
    BY DEF Histories
  <2>2. QED BY <2>1, KeysKnown, TokensKnown
<1>2. \A x \in Starting(c, off, {}) : Good(c, x) /\ Take(c, x, tok) \in Starting(c, off, {})
  BY StartKeys, GoodStates
<1>3. Leads(c, Starting(c, off, {}), <<tok>>, Starting(c, off, {}))
  BY <1>1, <1>2, LeadToken
<1>4. ASSUME tok # KeysLost(Len(c))
      PROVE  Leads(c, Typed(c, off, "input", echo), <<tok>>,
                   Typed(c, off, "input", Append(echo, tok)))
  <2>1. \A ph, e : \A x \in Typed(c, off, ph, e) : Good(c, x)
    BY <1>2 DEF Typed
  <2>2. \A x \in Typed(c, off, "input", echo) :
          Take(c, x, tok) \in Typed(c, off, "input", Append(echo, tok))
    BY <1>4, TypedKeys
  <2>3. QED BY <1>1, <2>1, <2>2, LeadToken
<1>5. QED BY <1>3, <1>4

\* The mark of a continuation prompt.
LEMMA LeadSecond ==
  ASSUME NEW c \in Histories, Len(c) >= 1, NEW off, NEW echo
  PROVE  /\ Leads(c, Starting(c, off, {}), <<A2, B>>, Starting(c, off, {}))
         /\ Leads(c, Typed(c, off, "input", echo), <<A2, B>>, Typed(c, off, "input", echo))
<1>1. A2 \in AllTokens /\ B \in AllTokens
  BY TokensKnown
<1>2. \A x \in Starting(c, off, {}) :
        /\ Good(c, x)
        /\ Take(c, x, A2) \in Starting(c, off, {}) /\ Take(c, x, B) \in Starting(c, off, {})
  BY StartMark, GoodStates
<1>3. /\ Leads(c, Starting(c, off, {}), <<A2>>, Starting(c, off, {}))
      /\ Leads(c, Starting(c, off, {}), <<B>>, Starting(c, off, {}))
  BY <1>1, <1>2, LeadToken
<1>4. \A ph, e : \A x \in Typed(c, off, ph, e) : Good(c, x)
  BY <1>2 DEF Typed
<1>5. Leads(c, Typed(c, off, "input", echo), <<A2>>, Typed(c, off, "prompt", echo))
  BY <1>1, <1>4, TypedA2, LeadToken
<1>6. Leads(c, Typed(c, off, "prompt", echo), <<B>>, Typed(c, off, "input", echo))
  BY <1>1, <1>4, TypedB, LeadToken
<1>7. QED BY <1>3, <1>5, <1>6, Lead2

LEMMA AppendOne == ASSUME NEW a PROVE Append(<<>>, a) = <<a>>
OBVIOUS

LEMMA AppendTwo == ASSUME NEW a, NEW b PROVE <<a, b>> = Append(<<a>>, b)
OBVIOUS

LEMMA LeadEcho ==
  ASSUME NEW c \in Histories, Len(c) >= 1, NEW off, NEW kind
  PROVE  /\ Leads(c, Starting(c, off, {}), Echo(Len(c), kind), Starting(c, off, {}))
         /\ kind \notin Unreadable =>
              Leads(c, Typed(c, off, "input", <<>>), Echo(Len(c), kind),
                    Typed(c, off, "input", <<Keys(Len(c), 1), Keys(Len(c), 2)>>))
<1> DEFINE S == Starting(c, off, {})
           T0 == Typed(c, off, "input", <<>>)
           T1 == Typed(c, off, "input", <<Keys(Len(c), 1)>>)
           T2 == Typed(c, off, "input", <<Keys(Len(c), 1), Keys(Len(c), 2)>>)
           a == Keys(Len(c), 1)
           b == Keys(Len(c), 2)
           l == KeysLost(Len(c))
           cond == emit.native \in {"iterm2", "ghostty", "kitty"}
<1>1. Leads(c, S, <<a>>, S) /\ Leads(c, S, <<b>>, S) /\ Leads(c, S, <<l>>, S)
  BY LeadKeys
<1>2. a # l /\ b # l
  BY DEF Keys, KeysLost
<1>3. Append(<<>>, a) = <<a>> /\ Append(<<a>>, b) = <<a, b>>
  <2> HIDE DEF a, b
  <2>1. QED BY AppendOne, AppendTwo
<1>4. Leads(c, T0, <<a>>, T1) /\ Leads(c, T1, <<b>>, T2)
  <2>1. Leads(c, T0, <<a>>, Typed(c, off, "input", Append(<<>>, a)))
    BY <1>2, LeadKeys
  <2>2. Leads(c, T1, <<b>>, Typed(c, off, "input", Append(<<a>>, b)))
    BY <1>2, LeadKeys
  <2>3. QED BY <1>3, <2>1, <2>2
<1>5. Leads(c, S, <<A2, B>>, S) /\ Leads(c, T1, <<A2, B>>, T1)
  BY LeadSecond
<1>6. \A x \in S \cup T1 : Good(c, x)
  <2>1. T1 \subseteq S
    BY DEF Typed
  <2>2. QED BY <2>1, GoodStates
<1> HIDE DEF S, T0, T1, T2, a, b, l, cond
<1>7. Leads(c, S, If(cond, <<A2, B>>), S) /\ Leads(c, T1, If(cond, <<A2, B>>), T1)
  <2>1. cond \in BOOLEAN
    BY DEF cond
  <2>2. QED BY <1>5, <1>6, <2>1, LeadIf
<1>8. CASE kind \in Unreadable
  <2>1. Echo(Len(c), kind) = <<l>>
    BY <1>8 DEF Echo, Unreadable, l
  <2>2. QED BY <1>1, <1>8, <2>1 DEF S
<1>9. CASE kind = "long"
  <2>1. Echo(Len(c), kind) = (<<a>> \o If(cond, <<A2, B>>)) \o <<b>>
    BY <1>9 DEF Echo, Unreadable, a, b, cond
  <2>2. Leads(c, S, <<a>> \o If(cond, <<A2, B>>), S)
    BY <1>1, <1>7, LeadOn
  <2>3. Leads(c, S, (<<a>> \o If(cond, <<A2, B>>)) \o <<b>>, S)
    BY <1>1, <2>2, LeadOn
  <2>4. Leads(c, T0, <<a>> \o If(cond, <<A2, B>>), T1)
    BY <1>4, <1>7, LeadOn
  <2>5. Leads(c, T0, (<<a>> \o If(cond, <<A2, B>>)) \o <<b>>, T2)
    BY <1>4, <2>4, LeadOn
  <2>6. QED BY <2>1, <2>3, <2>5 DEF S, T0, T2
<1>10. CASE kind \notin Unreadable \cup {"long"}
  <2>1. Echo(Len(c), kind) = <<a, b>>
    BY <1>10 DEF Echo, a, b
  <2>2. Leads(c, S, <<a, b>>, S) /\ Leads(c, T0, <<a, b>>, T2)
    BY <1>1, <1>4, Lead2
  <2>3. QED BY <2>1, <2>2 DEF S, T0, T2
<1>11. QED BY <1>8, <1>9, <1>10

\* The integrations that tell the text of a command by a mark.
Telling == {"vscode", "fish", "kitty", "wezterm"}

LEMMA LeadName ==
  ASSUME NEW c \in Histories, Len(c) >= 1, NEW off, NEW has,
         NEW tok \in {Cmd(Len(c)), Hint(Len(c)), SplitHint(Len(c))},
         NEW has2, "open" \in has2 <=> "open" \in has
  PROVE  Leads(c, Starting(c, off, has), <<tok>>, Starting(c, off, has2))
<1>1. tok \in AllTokens
  <2>1. Len(c) \in 0..MaxCommands
    BY DEF Histories
  <2>2. QED BY <2>1, TokensKnown
<1>2. \A x \in Starting(c, off, has) : Good(c, x) /\ Take(c, x, tok) \in Starting(c, off, has2)
  BY StartName, GoodStates
<1>3. QED BY <1>1, <1>2, GoodStates, LeadToken

LEMMA LeadC ==
  ASSUME NEW c \in Histories, Len(c) >= 1, NEW off, NEW has,
         NEW has2, "open" \in has2, "named" \in has2 => "named" \in has
  PROVE  Leads(c, Starting(c, off, has), <<C>>, Starting(c, off, has2))
<1>1. \A x \in Starting(c, off, has) : Good(c, x) /\ Take(c, x, C) \in Starting(c, off, has2)
  BY StartC, GoodStates
<1>2. QED BY <1>1, GoodStates, TokensKnown, LeadToken

LEMMA LeadSnippetPreexec ==
  ASSUME NEW c \in Histories, Len(c) >= 1, NEW off, NEW has, emit.snip # "none"
  PROVE  Leads(c, Starting(c, off, has), SnippetPreexec(Len(c)),
               Starting(c, off, {"open", "named"}))
<1>1. Leads(c, Starting(c, off, has), <<Cmd(Len(c))>>, Starting(c, off, has \cup {"named"}))
  BY LeadName
<1>2. Leads(c, Starting(c, off, has \cup {"named"}), <<C>>, Starting(c, off, {"open", "named"}))
  BY LeadC
<1>3. SnippetPreexec(Len(c)) = <<Cmd(Len(c)), C>>
  BY DEF SnippetPreexec, If
<1>4. QED BY <1>1, <1>2, <1>3, Lead2

LEMMA LeadNativePreexec ==
  ASSUME NEW c \in Histories, Len(c) >= 1, NEW off, NEW has, NEW kind,
         emit.native # "none"
  PROVE  /\ Leads(c, Starting(c, off, has), NativePreexec(Len(c), kind),
                  Starting(c, off, {"open"}))
         /\ emit.native \in Telling \/ "named" \in has =>
              Leads(c, Starting(c, off, has), NativePreexec(Len(c), kind),
                    Starting(c, off, {"open", "named"}))
<1> DEFINE n == Len(c)
           S(h) == Starting(c, off, h)
           t == IF kind = "long" THEN SplitHint(n) ELSE Hint(n)
<1>1. Leads(c, S(has), <<C>>, S({"open"}))
  BY LeadC
<1>2. ASSUME NEW tok \in {Hint(n), SplitHint(n)}
      PROVE  /\ Leads(c, S(has), <<tok>>, S(has \cup {"named"}))
             /\ Leads(c, S({"open"}), <<tok>>, S({"open", "named"}))
  <2>1. "open" \in has \cup {"named"} <=> "open" \in has
    OBVIOUS
  <2>2. QED BY <2>1, LeadName
<1>3. Leads(c, S(has \cup {"named"}), <<C>>, S({"open", "named"}))
  BY LeadC
<1>4. S({"open", "named"}) \subseteq S({"open"})
  BY DEF Starting
<1> HIDE DEF S, n
<1>5. CASE emit.native = "vscode"
  <2>1. Leads(c, S(has), <<Hint(n), C>>, S({"open", "named"}))
    BY <1>2, <1>3, Lead2
  <2>2. NativePreexec(n, kind) = <<Hint(n), C>>
    BY <1>5 DEF NativePreexec
  <2>3. QED BY <1>4, <2>1, <2>2, LeadWider DEF S, n
<1>6. CASE emit.native \in {"fish", "kitty"}
  <2>1. Leads(c, S(has), <<C, Hint(n)>>, S({"open", "named"}))
    BY <1>1, <1>2, Lead2
  <2>2. NativePreexec(n, kind) = <<C, Hint(n)>>
    BY <1>6 DEF NativePreexec
  <2>3. QED BY <1>4, <2>1, <2>2, LeadWider DEF S, n
<1>7. CASE emit.native = "wezterm"
  <2>1. t \in {Hint(n), SplitHint(n)}
    OBVIOUS
  <2> HIDE DEF t
  <2>2. Leads(c, S(has), <<C, t>>, S({"open", "named"}))
    BY <1>1, <1>2, <2>1, Lead2
  <2>3. NativePreexec(n, kind) = <<C, t>>
    BY <1>7 DEF NativePreexec, t
  <2>4. QED BY <1>4, <2>2, <2>3, LeadWider DEF S, n
<1>8. CASE emit.native \notin Telling
  <2>1. NativePreexec(n, kind) = <<C>>
    BY <1>8 DEF NativePreexec, Telling
  <2>2. "named" \in has => Leads(c, S(has), <<C>>, S({"open", "named"}))
    BY LeadC DEF S
  <2>3. QED BY <1>1, <1>8, <2>1, <2>2 DEF S, n
<1>9. QED BY <1>5, <1>6, <1>7, <1>8 DEF Telling

LEMMA LeadPreexec ==
  ASSUME NEW c \in Histories, Len(c) >= 1, NEW off, NEW kind, Emits
  PROVE  /\ Leads(c, Starting(c, off, {}), Preexec(Len(c), kind), Starting(c, off, {"open"}))
         /\ emit.snip # "none" \/ emit.native \in Telling =>
              Leads(c, Starting(c, off, {}), Preexec(Len(c), kind),
                    Starting(c, off, {"open", "named"}))
<1> DEFINE s == SnippetPreexec(Len(c))
           v == NativePreexec(Len(c), kind)
           S0 == Starting(c, off, {})
           S1 == Starting(c, off, {"open"})
           S2 == Starting(c, off, {"open", "named"})
<1>1. S2 \subseteq S1
  BY DEF Starting
<1>2. emit.snip # "none" => Leads(c, S0, s, S2) /\ Leads(c, S1, s, S2)
  BY LeadSnippetPreexec
<1>3. /\ emit.native # "none" => Leads(c, S0, v, S1) /\ Leads(c, S2, v, S2)
      /\ emit.native \in Telling => Leads(c, S0, v, S2)
  BY LeadNativePreexec DEF Telling
<1>4. /\ Preexec(Len(c), kind) = Both(s, v)
      /\ (emit.snip = "none" => s = <<>>) /\ (emit.native = "none" => v = <<>>)
  BY DEF Preexec, SnippetPreexec, NativePreexec, If
<1> HIDE DEF s, v, S0, S1, S2
<1>5. CASE emit.snip # "none" /\ emit.native # "none"
  <2>1. Leads(c, S0, Both(s, v), S2)
    <3>1. CASE emit.snipFirst
      <4>1. Leads(c, S0, s \o v, S2)
        BY <1>2, <1>3, <1>5, LeadOn
      <4>2. QED BY <3>1, <4>1 DEF Both
    <3>2. CASE ~emit.snipFirst
      <4>1. Leads(c, S0, v \o s, S2)
        BY <1>2, <1>3, <1>5, LeadOn
      <4>2. QED BY <3>2, <4>1 DEF Both
    <3>3. QED BY <3>1, <3>2
  <2>2. Leads(c, S0, Both(s, v), S1)
    BY <1>1, <2>1, LeadWider
  <2>3. QED BY <1>4, <2>1, <2>2 DEF S0, S1, S2
<1>6. CASE emit.snip # "none" /\ emit.native = "none"
  <2>1. s \in Seq(AllTokens) /\ v = <<>>
    BY <1>2, <1>4, <1>6 DEF Leads
  <2>2. Both(s, v) = s
    BY <2>1 DEF Both
  <2>3. Leads(c, S0, s, S1)
    BY <1>1, <1>2, <1>6, LeadWider
  <2>4. QED BY <1>2, <1>4, <1>6, <2>2, <2>3 DEF S0, S1, S2
<1>7. CASE emit.snip = "none"
  <2>1. v \in Seq(AllTokens) /\ s = <<>> /\ emit.native # "none"
    BY <1>3, <1>4, <1>7 DEF Leads, Emits
  <2>2. Both(s, v) = v
    BY <2>1 DEF Both
  <2>3. QED BY <1>3, <1>4, <1>7, <2>1, <2>2 DEF S0, S1, S2
<1>8. QED BY <1>5, <1>6, <1>7

\* Then its output begins, and its text is known if the stream tells it.
LEMMA LeadRun ==
  ASSUME NEW c \in Histories, Len(c) >= 1, NEW off, NEW kind, Emits,
         NEW X, X \subseteq Starting(c, off, {}),
         c[Len(c)].told =>
           \/ emit.snip # "none" \/ emit.native \in Telling
           \/ kind \notin Unreadable /\ X \subseteq Typed(c, off, "input", <<>>)
  PROVE  Leads(c, X, Echo(Len(c), kind) \o Preexec(Len(c), kind), Ready(c, off))
<1> DEFINE e == Echo(Len(c), kind)
           p == Preexec(Len(c), kind)
           S == Starting(c, off, {})
<1>1. Leads(c, S, e, S)
  BY LeadEcho
<1>2. CASE emit.snip # "none" \/ emit.native \in Telling
  <2>1. Leads(c, S, p, Starting(c, off, {"open", "named"}))
    BY <1>2, LeadPreexec
  <2>2. Starting(c, off, {"open", "named"}) \subseteq Ready(c, off)
    BY NamedReady
  <2> HIDE DEF e, p, S
  <2>3. Leads(c, S, e \o p, Ready(c, off))
    BY <1>1, <2>1, <2>2, LeadOn, LeadWider
  <2>4. X \subseteq S
    BY DEF S
  <2>5. QED BY <2>3, <2>4, LeadWider DEF e, p
<1>3. CASE ~c[Len(c)].told
  <2>1. Leads(c, S, p, Starting(c, off, {"open"}))
    BY LeadPreexec
  <2>2. Starting(c, off, {"open"}) \subseteq Ready(c, off)
    BY <1>3, NamedReady
  <2> HIDE DEF e, p, S
  <2>3. Leads(c, S, e \o p, Ready(c, off))
    BY <1>1, <2>1, <2>2, LeadOn, LeadWider
  <2>4. X \subseteq S
    BY DEF S
  <2>5. QED BY <2>3, <2>4, LeadWider DEF e, p
<1>4. CASE /\ emit.snip = "none" /\ emit.native \notin Telling
           /\ kind \notin Unreadable /\ X \subseteq Typed(c, off, "input", <<>>)
  <2> DEFINE T0 == Typed(c, off, "input", <<>>)
             T2 == Typed(c, off, "input", <<Keys(Len(c), 1), Keys(Len(c), 2)>>)
  <2>1. Leads(c, T0, e, T2)
    BY <1>4, LeadEcho
  <2>2. Leads(c, T2, <<C>>, Ready(c, off))
    <3>1. \A x \in T2 : Good(c, x)
      BY GoodStates DEF Typed
    <3>2. \A x \in Ready(c, off) : Good(c, x)
      BY GoodStates DEF Ready
    <3>3. \A x \in T2 : Take(c, x, C) \in Ready(c, off)
      BY TypedC
    <3>4. QED BY <3>1, <3>2, <3>3, TokensKnown, LeadToken
  <2>3. p = <<C>>
    <3>1. NativePreexec(Len(c), kind) = <<C>>
      BY <1>4 DEF NativePreexec, Telling, Emits
    <3>2. SnippetPreexec(Len(c)) = <<>>
      BY <1>4 DEF SnippetPreexec, If
    <3>3. <<>> \o <<C>> = <<C>> /\ <<C>> \o <<>> = <<C>>
      OBVIOUS
    <3>4. QED BY <3>1, <3>2, <3>3 DEF Preexec, Both
  <2> HIDE DEF e, p, S, T0, T2
  <2>4. Leads(c, T0, e \o p, Ready(c, off))
    BY <2>1, <2>2, <2>3, LeadOn
  <2>5. X \subseteq T0
    BY <1>4 DEF T0
  <2>6. QED BY <2>4, <2>5, LeadWider DEF e, p
<1>5. QED BY <1>2, <1>3, <1>4

-----------------------------------------------------------------------------
(***************************************************************************)
(* The shell keeps its own books.                                          *)
(***************************************************************************)
Last == cmds[Len(cmds)]

ShellTypes ==
  /\ EmitOK
  /\ sh \in [pc : {"ready", "prompt", "running", "exiting", "dead"},
             ran : 0..MaxCommands, code : 0..1, off : BOOLEAN, idle : 0..MaxIdle,
             alt : BOOLEAN, noise : BOOLEAN]
  /\ cmds \in Histories

\* Which command the shell is about, and what it has just told of it.
Current ==
  /\ sh.ran \in {0, Len(cmds)}
  /\ sh.pc \in {"prompt", "running", "exiting"} => sh.ran = 0
  /\ sh.pc = "ready" /\ sh.ran # 0 => Last.ended /\ Last.code = sh.code
  /\ sh.pc \in {"running", "exiting"} => cmds # <<>> /\ ~Last.ended
  /\ sh.pc = "running" => Last.kind # "exit"
  /\ sh.pc = "exiting" => Last.kind = "exit" /\ (Closed => Last.told)

\* When recording was switched off or on, and what has been written since.
Switches ==
  cmds # <<>> =>
    /\ Last.ended \/ Last.kind \notin {"toggle", "script"} => (Last.off <=> sh.off)
    /\ ~Last.ended /\ Last.kind = "toggle" /\ (Last.off <=> sh.off) => Last.shown = 0
    /\ ~Last.ended /\ Last.kind # "screen" => ~sh.alt

Screens == \A n \in 1..Len(cmds) : cmds[n].kind # "screen" => cmds[n].shown = cmds[n].wrote

ShellInv == ShellTypes /\ Current /\ Switches /\ Screens

LEMMA LastIs ==
  ASSUME ShellTypes
  PROVE  /\ Len(cmds) \in Nat /\ Len(cmds) \in 0..MaxCommands
         /\ cmds # <<>> <=> Len(cmds) >= 1
         /\ cmds # <<>> <=> Len(cmds) # 0
         /\ \A n \in 1..Len(cmds) : cmds[n] \in Command
         /\ cmds # <<>> => Len(cmds) \in 1..Len(cmds) /\ Last \in Command
<1>1. cmds \in Seq(Command) /\ Len(cmds) \in Nat /\ Len(cmds) <= MaxCommands
  BY DEF ShellTypes, Histories
<1>2. QED BY <1>1 DEF Last

LEMMA InitShell ==
  ASSUME Init
  PROVE  ShellInv
<1>1. EmitOK
  BY DEF Init, EmitOK
<1>2. sh \in [pc : {"ready", "prompt", "running", "exiting", "dead"},
              ran : 0..MaxCommands, code : 0..1, off : BOOLEAN, idle : 0..MaxIdle,
              alt : BOOLEAN, noise : BOOLEAN]
  <2>1. 0 \in 0..MaxCommands /\ 0 \in 0..MaxIdle /\ 0 \in 0..1
    BY RecorderAssumption
  <2>2. QED BY <2>1 DEF Init
<1>3. cmds \in Histories /\ cmds = <<>> /\ Len(cmds) = 0
  BY RecorderAssumption DEF Init, Histories
<1>4. sh.ran = 0 /\ sh.pc = "ready"
  BY DEF Init
<1>5. Current
  BY <1>3, <1>4 DEF Current
<1>6. Screens
  BY <1>3 DEF Screens
<1>7. QED BY <1>1, <1>2, <1>3, <1>5, <1>6 DEF ShellInv, ShellTypes, Switches

\* The actions that leave the history alone.
LEMMA SameHistoryShell ==
  ASSUME ShellInv, UNCHANGED <<emit, cmds>>,
         ShowPrompt \/ Idle \/ Background \/ SwitchScreen \/ Toggle \/ Exit \/ Die \/ UNCHANGED sh
  PROVE  ShellInv'
<1>1. /\ EmitOK /\ cmds \in Histories
      /\ sh \in [pc : {"ready", "prompt", "running", "exiting", "dead"},
                 ran : 0..MaxCommands, code : 0..1, off : BOOLEAN, idle : 0..MaxIdle,
                 alt : BOOLEAN, noise : BOOLEAN]
  BY DEF ShellInv, ShellTypes
<1>2. Last' = Last /\ EmitOK' /\ cmds' = cmds /\ (Closed' <=> Closed)
  BY <1>1 DEF Last, EmitOK, Together, Closed
<1>3. Screens'
  BY <1>2 DEF ShellInv, Screens
<1>4. 0 \in 0..MaxCommands /\ 0..MaxIdle \subseteq Int
  BY RecorderAssumption
<1>5. CASE ShowPrompt
  <2>1. sh' = [sh EXCEPT !.pc = "prompt", !.ran = 0, !.noise = FALSE]
    BY <1>5 DEF ShowPrompt
  <2>2. /\ sh' \in [pc : {"ready", "prompt", "running", "exiting", "dead"},
                    ran : 0..MaxCommands, code : 0..1, off : BOOLEAN, idle : 0..MaxIdle,
                    alt : BOOLEAN, noise : BOOLEAN]
        /\ sh'.pc = "prompt" /\ sh'.ran = 0 /\ sh'.off = sh.off /\ sh'.alt = sh.alt
    BY <1>1, <1>4, <2>1
  <2>3. ShellTypes'
    BY <1>1, <1>2, <2>2 DEF ShellTypes
  <2>4. Current' /\ Switches'
    BY <1>2, <2>2 DEF ShellInv, Current, Switches
  <2>5. QED BY <1>3, <2>3, <2>4 DEF ShellInv
<1>6. CASE Idle
  <2>1. sh' = [sh EXCEPT !.pc = "ready", !.idle = @ + 1] /\ sh.idle < MaxIdle /\ sh.pc = "prompt"
    BY <1>6 DEF Idle
  <2>2. sh.idle + 1 \in 0..MaxIdle
    BY <1>1, <2>1, RecorderAssumption
  <2>3. /\ sh' \in [pc : {"ready", "prompt", "running", "exiting", "dead"},
                    ran : 0..MaxCommands, code : 0..1, off : BOOLEAN, idle : 0..MaxIdle,
                    alt : BOOLEAN, noise : BOOLEAN]
        /\ sh'.pc = "ready" /\ sh'.ran = sh.ran /\ sh'.off = sh.off /\ sh'.alt = sh.alt
    BY <1>1, <2>1, <2>2
  <2>4. ShellTypes'
    BY <1>1, <1>2, <2>3 DEF ShellTypes
  <2>5. Current' /\ Switches'
    BY <1>2, <2>1, <2>3 DEF ShellInv, Current, Switches
  <2>6. QED BY <1>3, <2>4, <2>5 DEF ShellInv
<1>7. CASE Background
  <2>1. sh' = [sh EXCEPT !.noise = TRUE]
    BY <1>7 DEF Background
  <2>2. /\ sh' \in [pc : {"ready", "prompt", "running", "exiting", "dead"},
                    ran : 0..MaxCommands, code : 0..1, off : BOOLEAN, idle : 0..MaxIdle,
                    alt : BOOLEAN, noise : BOOLEAN]
        /\ sh'.pc = sh.pc /\ sh'.ran = sh.ran /\ sh'.off = sh.off /\ sh'.alt = sh.alt
        /\ sh'.code = sh.code
    BY <1>1, <2>1
  <2>3. ShellTypes'
    BY <1>1, <1>2, <2>2 DEF ShellTypes
  <2>4. Current' /\ Switches'
    BY <1>2, <2>2 DEF ShellInv, Current, Switches
  <2>5. QED BY <1>3, <2>3, <2>4 DEF ShellInv
<1>8. ASSUME Running # 0
      PROVE  sh.pc = "running" /\ cmds # <<>> /\ Running = Len(cmds) /\ ~Last.ended
             /\ cmds[Running] = Last
  BY <1>8 DEF Running, ShellInv, Current, Last
<1>9. CASE SwitchScreen
  <2>1. sh' = [sh EXCEPT !.alt = ~@] /\ cmds[Running].kind = "screen" /\ Running # 0
    BY <1>9 DEF SwitchScreen
  <2>2. /\ sh' \in [pc : {"ready", "prompt", "running", "exiting", "dead"},
                    ran : 0..MaxCommands, code : 0..1, off : BOOLEAN, idle : 0..MaxIdle,
                    alt : BOOLEAN, noise : BOOLEAN]
        /\ sh'.pc = sh.pc /\ sh'.ran = sh.ran /\ sh'.off = sh.off /\ sh'.code = sh.code
    BY <1>1, <2>1
  <2>3. Last.kind = "screen"
    BY <1>8, <2>1
  <2>4. ShellTypes'
    BY <1>1, <1>2, <2>2 DEF ShellTypes
  <2>5. Current' /\ Switches'
    BY <1>2, <2>2, <2>3 DEF ShellInv, Current, Switches
  <2>6. QED BY <1>3, <2>4, <2>5 DEF ShellInv
<1>10. CASE Toggle
  <2>1. /\ sh' = [sh EXCEPT !.off = ~@] /\ Running # 0
        /\ cmds[Running].kind \in {"toggle", "script"}
        /\ cmds[Running].kind = "toggle" => cmds[Running].off = sh.off
    BY <1>10 DEF Toggle
  <2>2. /\ sh' \in [pc : {"ready", "prompt", "running", "exiting", "dead"},
                    ran : 0..MaxCommands, code : 0..1, off : BOOLEAN, idle : 0..MaxIdle,
                    alt : BOOLEAN, noise : BOOLEAN]
        /\ sh'.pc = sh.pc /\ sh'.ran = sh.ran /\ sh'.off = ~sh.off /\ sh'.code = sh.code
        /\ sh'.alt = sh.alt
    BY <1>1, <2>1
  <2>3. /\ Last.kind \in {"toggle", "script"} /\ ~Last.ended
        /\ Last.kind = "toggle" => (Last.off <=> sh.off)
    BY <1>8, <2>1
  <2>4. ShellTypes'
    BY <1>1, <1>2, <2>2 DEF ShellTypes
  <2>5. Current'
    BY <1>2, <2>2 DEF ShellInv, Current
  <2>6. Switches'
    BY <1>2, <2>2, <2>3 DEF ShellInv, Switches
  <2>7. QED BY <1>3, <2>4, <2>5, <2>6 DEF ShellInv
<1>11. CASE Exit \/ Die
  <2>1. sh' = [sh EXCEPT !.pc = "dead"]
    BY <1>11 DEF Exit, Die
  <2>2. /\ sh' \in [pc : {"ready", "prompt", "running", "exiting", "dead"},
                    ran : 0..MaxCommands, code : 0..1, off : BOOLEAN, idle : 0..MaxIdle,
                    alt : BOOLEAN, noise : BOOLEAN]
        /\ sh'.pc = "dead" /\ sh'.ran = sh.ran /\ sh'.off = sh.off /\ sh'.alt = sh.alt
    BY <1>1, <2>1
  <2>3. ShellTypes'
    BY <1>1, <1>2, <2>2 DEF ShellTypes
  <2>4. Current' /\ Switches'
    BY <1>2, <2>2 DEF ShellInv, Current, Switches
  <2>5. QED BY <1>3, <2>3, <2>4 DEF ShellInv
<1>12. CASE UNCHANGED sh
  <2>1. ShellTypes'
    BY <1>1, <1>2, <1>12 DEF ShellTypes
  <2>2. Current' /\ Switches'
    BY <1>2, <1>12 DEF ShellInv, Current, Switches
  <2>3. QED BY <1>3, <2>1, <2>2 DEF ShellInv
<1>13. QED BY <1>5, <1>6, <1>7, <1>9, <1>10, <1>11, <1>12

\* A command's text changes what history says of it, and of no other.
LEMMA TextShell ==
  ASSUME ShellInv, WriteText
  PROVE  /\ ShellInv' /\ cmds # <<>> /\ Later(cmds, cmds') /\ SameLast(cmds, cmds')
         /\ cmds'[Len(cmds)].shown = IF sh.alt THEN Last.shown ELSE Last.shown + 1
         /\ Last.kind # "exit" /\ sh.pc = "running" /\ Running = Len(cmds)
<1> DEFINE n == Len(cmds)
           new == [cmds[n] EXCEPT !.wrote = @ + 1, !.shown = IF sh.alt THEN @ ELSE @ + 1]
<1>1. /\ ShellTypes /\ Current /\ Switches /\ Screens /\ Running # 0
      /\ cmds[Running].kind = "toggle" => cmds[Running].off # sh.off
      /\ cmds' = [cmds EXCEPT ![Running].wrote = @ + 1,
                              ![Running].shown = IF sh.alt THEN @ ELSE @ + 1]
      /\ UNCHANGED <<emit, sh>>
  BY DEF ShellInv, WriteText
<1>2. /\ sh.pc = "running" /\ Running = n /\ cmds # <<>> /\ ~Last.ended /\ Last.kind # "exit"
      /\ Last = cmds[n]
  BY <1>1 DEF Running, Current, Last
<1>3. /\ n \in Nat /\ n \in 1..n /\ Last \in Command /\ cmds \in Seq(Command) /\ n <= MaxCommands
  BY <1>1, <1>2, LastIs DEF ShellTypes, Histories
<1>4. cmds' = [cmds EXCEPT ![n] = new]
  BY <1>1, <1>2, <1>3 DEF Last
<1>5. /\ new \in Command /\ new.kind = Last.kind /\ new.dir = Last.dir /\ new.told = Last.told
      /\ new.ended = Last.ended /\ new.off = Last.off /\ new.code = Last.code
      /\ new.shown = (IF sh.alt THEN Last.shown ELSE Last.shown + 1)
      /\ new.wrote = Last.wrote + 1
  <2>1. Last.shown \in Nat /\ Last.wrote \in Nat
    BY <1>3 DEF Command
  <2>2. PICK shown2 \in Nat : shown2 = IF sh.alt THEN Last.shown ELSE Last.shown + 1
    BY <2>1
  <2>3. PICK wrote2 \in Nat : wrote2 = Last.wrote + 1
    BY <2>1
  <2>4. new = [Last EXCEPT !.wrote = wrote2, !.shown = shown2]
    <3>1. Last = cmds[n]
      BY <1>2
    <3>2. [Last EXCEPT !.wrote = @ + 1, !.shown = IF sh.alt THEN @ ELSE @ + 1]
            = [Last EXCEPT !.wrote = wrote2, !.shown = shown2]
      BY <1>3, <2>2, <2>3 DEF Command
    <3>3. QED BY <3>1, <3>2
  <2> HIDE DEF new, Last
  <2>5. QED BY <1>3, <2>2, <2>3, <2>4 DEF Command
<1> HIDE DEF new
<1>6. /\ cmds' \in Seq(Command) /\ Len(cmds') = n /\ cmds'[n] = new
      /\ \A m \in 1..n : m # n => cmds'[m] = cmds[m]
  BY <1>3, <1>4, <1>5
<1>7. cmds' \in Histories
  BY <1>3, <1>6 DEF Histories
<1>8. Later(cmds, cmds')
  <2>1. ASSUME NEW m \in 1..n
        PROVE  /\ cmds'[m].kind = cmds[m].kind /\ cmds'[m].dir = cmds[m].dir
               /\ cmds[m].ended => cmds'[m].ended /\ cmds'[m].code = cmds[m].code
    BY <1>2, <1>5, <1>6
  <2>2. QED BY <1>1, <1>3, <1>6, <1>7, <2>1 DEF Later, ShellTypes
<1>9. SameLast(cmds, cmds')
  <2>1. \A m \in 1..n - 1 : m \in 1..n /\ m # n
    BY <1>3
  <2>2. QED BY <1>2, <1>5, <1>6, <2>1 DEF SameLast
<1>10. Last' = new
  BY <1>6 DEF Last
<1>11. ShellTypes'
  <2>1. EmitOK'
    BY <1>1 DEF EmitOK, Together, ShellTypes
  <2>2. QED BY <1>1, <1>7, <2>1 DEF ShellTypes
<1>12. Current'
  BY <1>1, <1>2, <1>5, <1>6, <1>10 DEF Current
<1>13. Switches'
  <2>1. Last.kind = "toggle" => ~(Last.off <=> sh.off)
    <3>1. Last.off \in BOOLEAN /\ sh.off \in BOOLEAN
      BY <1>1, <1>3 DEF Command, ShellTypes
    <3>2. QED BY <1>1, <1>2, <3>1
  <2>2. cmds' # <<>>
    BY <1>3, <1>6
  <2>3. QED BY <1>1, <1>2, <1>5, <1>10, <2>1 DEF Switches
<1>14. Screens'
  <2>1. ASSUME NEW m \in 1..n, cmds'[m].kind # "screen" PROVE cmds'[m].shown = cmds'[m].wrote
    <3>1. CASE m # n
      BY <1>1, <1>6, <2>1, <3>1 DEF Screens
    <3>2. CASE m = n
      <4>1. ~sh.alt /\ Last.shown = Last.wrote
        BY <1>1, <1>2, <1>3, <1>5, <1>6, <2>1, <3>2 DEF Switches, Screens
      <4>2. QED BY <1>5, <1>6, <3>2, <4>1
    <3>3. QED BY <3>1, <3>2
  <2>2. QED BY <1>6, <2>1 DEF Screens
<1>15. QED BY <1>2, <1>5, <1>6, <1>8, <1>9, <1>11, <1>12, <1>13, <1>14 DEF ShellInv

LEMMA FinishShell ==
  ASSUME ShellInv, NEW code \in 0..1, Finish(code)
  PROVE  /\ ShellInv' /\ cmds # <<>> /\ Later(cmds, cmds') /\ SameLast(cmds, cmds')
         /\ cmds'[Len(cmds)].shown = Last.shown
         /\ Last'.ended /\ Last'.code = code /\ (Last'.off <=> sh'.off) /\ sh'.off = sh.off
         /\ sh.pc = "running" /\ sh'.pc = "ready" /\ sh'.ran = Len(cmds)
<1> DEFINE n == Len(cmds)
           new == [cmds[n] EXCEPT !.code = code, !.off = sh.off, !.ended = TRUE]
<1>1. /\ ShellTypes /\ Current /\ Switches /\ Screens /\ Running # 0
      /\ cmds' = [cmds EXCEPT ![Running].code = code, ![Running].off = sh.off,
                              ![Running].ended = TRUE]
      /\ sh' = [sh EXCEPT !.pc = "ready", !.ran = Running, !.code = code]
      /\ UNCHANGED emit
  BY DEF ShellInv, Finish
<1>2. /\ sh.pc = "running" /\ Running = n /\ cmds # <<>> /\ ~Last.ended
      /\ Last = cmds[n]
  BY <1>1 DEF Running, Current, Last
<1>3. /\ n \in Nat /\ n \in 1..n /\ Last \in Command /\ cmds \in Seq(Command) /\ n <= MaxCommands
      /\ n \in 0..MaxCommands
      /\ sh \in [pc : {"ready", "prompt", "running", "exiting", "dead"},
                 ran : 0..MaxCommands, code : 0..1, off : BOOLEAN, idle : 0..MaxIdle,
                 alt : BOOLEAN, noise : BOOLEAN]
  BY <1>1, <1>2, LastIs DEF ShellTypes, Histories
<1>4. cmds' = [cmds EXCEPT ![n] = new]
  BY <1>1, <1>2, <1>3 DEF Last
<1>5. /\ new \in Command /\ new.kind = Last.kind /\ new.dir = Last.dir /\ new.told = Last.told
      /\ new.ended /\ new.off = sh.off /\ new.code = code
      /\ new.shown = Last.shown /\ new.wrote = Last.wrote
  BY <1>2, <1>3 DEF Command
<1> HIDE DEF new
<1>6. /\ cmds' \in Seq(Command) /\ Len(cmds') = n /\ cmds'[n] = new
      /\ \A m \in 1..n : m # n => cmds'[m] = cmds[m]
  BY <1>3, <1>4, <1>5
<1>7. cmds' \in Histories
  BY <1>3, <1>6 DEF Histories
<1>8. Later(cmds, cmds')
  <2>1. ASSUME NEW m \in 1..n
        PROVE  /\ cmds'[m].kind = cmds[m].kind /\ cmds'[m].dir = cmds[m].dir
               /\ cmds[m].ended => cmds'[m].ended /\ cmds'[m].code = cmds[m].code
    BY <1>2, <1>5, <1>6
  <2>2. QED BY <1>1, <1>3, <1>6, <1>7, <2>1 DEF Later, ShellTypes
<1>9. SameLast(cmds, cmds')
  <2>1. \A m \in 1..n - 1 : m \in 1..n /\ m # n
    BY <1>3
  <2>2. QED BY <1>2, <1>5, <1>6, <2>1 DEF SameLast
<1>10. Last' = new
  BY <1>6 DEF Last
<1>11. /\ sh' \in [pc : {"ready", "prompt", "running", "exiting", "dead"},
                   ran : 0..MaxCommands, code : 0..1, off : BOOLEAN, idle : 0..MaxIdle,
                   alt : BOOLEAN, noise : BOOLEAN]
       /\ sh'.pc = "ready" /\ sh'.ran = n /\ sh'.code = code /\ sh'.off = sh.off
       /\ sh'.alt = sh.alt
  BY <1>1, <1>2, <1>3
<1>12. ShellTypes'
  <2>1. EmitOK'
    BY <1>1 DEF EmitOK, Together, ShellTypes
  <2>2. QED BY <1>7, <1>11, <2>1 DEF ShellTypes
<1>13. Current'
  BY <1>5, <1>6, <1>10, <1>11 DEF Current
<1>14. Switches'
  BY <1>5, <1>10, <1>11 DEF Switches
<1>15. Screens'
  <2>1. ASSUME NEW m \in 1..n, cmds'[m].kind # "screen" PROVE cmds'[m].shown = cmds'[m].wrote
    BY <1>1, <1>2, <1>5, <1>6, <2>1 DEF Screens
  <2>2. QED BY <1>6, <2>1 DEF Screens
<1>16. QED BY <1>2, <1>5, <1>6, <1>8, <1>9, <1>10, <1>11, <1>12, <1>13, <1>14, <1>15 DEF ShellInv

\* What history says of a command line that is sent off.
NewCommand(kind) ==
  [kind |-> kind, dir |-> Len(cmds), code |-> 0, off |-> sh.off, wrote |-> 0, shown |-> 0,
   told |-> Told(kind), ended |-> FALSE]

LEMMA RunShell ==
  ASSUME ShellInv, NEW kind \in Kinds, Run(kind)
  PROVE  /\ ShellInv' /\ Len(cmds) < MaxCommands /\ NewCommand(kind) \in Command
         /\ cmds' = Append(cmds, NewCommand(kind)) /\ Last' = NewCommand(kind)
         /\ Len(cmds') = Len(cmds) + 1 /\ sh.pc = "prompt"
         /\ sh'.pc = (IF kind = "exit" THEN "exiting" ELSE "running")
         /\ sh'.off = sh.off /\ ~sh'.alt
<1> DEFINE new == NewCommand(kind)
           n == Len(cmds)
<1>1. /\ ShellTypes /\ Current /\ Screens /\ sh.pc = "prompt" /\ n < MaxCommands
      /\ cmds' = Append(cmds, new)
      /\ sh' = [sh EXCEPT !.pc = IF kind = "exit" THEN "exiting" ELSE "running", !.alt = FALSE]
      /\ UNCHANGED emit
  BY DEF ShellInv, Run, NewCommand
<1>2. /\ n \in Nat /\ n \in 0..MaxCommands /\ cmds \in Seq(Command)
      /\ sh \in [pc : {"ready", "prompt", "running", "exiting", "dead"},
                 ran : 0..MaxCommands, code : 0..1, off : BOOLEAN, idle : 0..MaxIdle,
                 alt : BOOLEAN, noise : BOOLEAN]
      /\ sh.ran = 0
  BY <1>1, LastIs DEF ShellTypes, Histories, Current
<1>3. PICK told \in BOOLEAN : told = Told(kind)
  BY DEF Told
<1>4. /\ new \in Command /\ new.kind = kind /\ new.off = sh.off /\ new.shown = 0 /\ new.wrote = 0
      /\ ~new.ended /\ new.told = told
  <2>1. new = [kind |-> kind, dir |-> n, code |-> 0, off |-> sh.off, wrote |-> 0, shown |-> 0,
               told |-> told, ended |-> FALSE]
    BY <1>3 DEF NewCommand
  <2>2. sh.off \in BOOLEAN
    BY <1>2
  <2>3. QED BY <1>2, <2>1, <2>2 DEF Command
<1> HIDE DEF new
<1>5. /\ cmds' \in Seq(Command) /\ Len(cmds') = n + 1 /\ cmds'[n + 1] = new
      /\ \A m \in 1..n : cmds'[m] = cmds[m]
  BY <1>1, <1>2, <1>4
<1>6. cmds' \in Histories /\ cmds' # <<>>
  BY <1>1, <1>2, <1>5, RecorderAssumption DEF Histories
<1>7. Last' = new
  BY <1>5 DEF Last
<1>8. /\ sh' \in [pc : {"ready", "prompt", "running", "exiting", "dead"},
                  ran : 0..MaxCommands, code : 0..1, off : BOOLEAN, idle : 0..MaxIdle,
                  alt : BOOLEAN, noise : BOOLEAN]
      /\ sh'.pc = (IF kind = "exit" THEN "exiting" ELSE "running") /\ sh'.ran = 0
      /\ sh'.off = sh.off /\ ~sh'.alt
  BY <1>1, <1>2
<1>9. ShellTypes'
  <2>1. EmitOK'
    BY <1>1 DEF EmitOK, Together, ShellTypes
  <2>2. QED BY <1>6, <1>8, <2>1 DEF ShellTypes
<1>10. Current'
  <2>1. Closed' => told
    BY <1>1, <1>3 DEF Closed, Told
  <2>2. QED BY <1>4, <1>6, <1>7, <1>8, <2>1 DEF Current
<1>11. Switches'
  BY <1>4, <1>7, <1>8 DEF Switches
<1>12. Screens'
  <2>1. ASSUME NEW m \in 1..n + 1, cmds'[m].kind # "screen"
        PROVE  cmds'[m].shown = cmds'[m].wrote
    <3>1. m \in 1..n \/ m = n + 1
      BY <1>2
    <3>2. QED BY <1>1, <1>4, <1>5, <2>1, <3>1 DEF Screens
  <2>2. QED BY <1>5, <2>1 DEF Screens
<1>13. QED BY <1>1, <1>4, <1>5, <1>7, <1>8, <1>9, <1>10, <1>11, <1>12 DEF ShellInv, new
-----------------------------------------------------------------------------
(***************************************************************************)
(* The recorder, once it has read all there is, is in step with the shell. *)
(***************************************************************************)
Around(c, s) ==
  CASE s.pc = "ready"   -> IF s.ran # 0 /\ ~Closed THEN Inside(c, s.off) ELSE Outside(c, s.off)
    [] s.pc = "prompt"  -> IF s.noise THEN Prompting(c, s.off, {"cwd"}) ELSE Prompted(c, s.off)
    [] s.pc = "running" -> {y \in Inside(c, s.off) : y.r.alt <=> s.alt}
    [] s.pc = "exiting" -> Inside(c, s.off)
    [] s.pc = "dead"    -> Outside(c, s.off) \cup {y \in Inside(c, s.off) : Len(c) >= 1}

Synced(c, s) == IF Emits THEN Around(c, s) ELSE Silent

Now == [r |-> r, stored |-> stored]

InStep == \E y \in Synced(cmds, sh) : Reads(cmds, Now, tty, y)

\* What a step of the shell writes leads on to a state in step with it.
Writes(toks) ==
  /\ tty' = tty \o toks /\ Later(cmds, cmds')
  /\ Leads(cmds', Synced(cmds, sh), toks, Synced(cmds', sh'))

LEMMA LaterSame ==
  ASSUME NEW c \in Histories
  PROVE  Later(c, c)
<1>1. Len(c) \in Nat
  BY DEF Histories
<1>2. QED BY <1>1 DEF Later

LEMMA WritesInStep ==
  ASSUME InStep, tty \in Seq(AllTokens), NEW toks, Writes(toks), UNCHANGED <<emit, r, stored>>
  PROVE  InStep' /\ tty' \in Seq(AllTokens)
<1>1. /\ tty' = tty \o toks /\ Later(cmds, cmds') /\ toks \in Seq(AllTokens)
      /\ \A x \in Synced(cmds, sh) : \E y \in Synced(cmds', sh') : Reads(cmds', x, toks, y)
  BY DEF Writes, Leads
<1>2. PICK y \in Synced(cmds, sh) : Reads(cmds, Now, tty, y)
  BY DEF InStep
<1>3. PICK z \in Synced(cmds', sh') : Reads(cmds', y, toks, z)
  BY <1>1
<1>4. Reads(cmds', Now, tty, y)
  BY <1>1, <1>2, LaterReads
<1>5. Reads(cmds', Now, tty \o toks, z)
  BY <1>1, <1>3, <1>4, ReadOn
<1>6. Now' = Now
  BY DEF Now
<1>7. Synced(cmds', sh') = Synced(cmds, sh)'
  BY DEF Synced, Around, Emits, Closed, Prompted
<1>8. Reads(cmds, Now, tty, z)'
  BY <1>1, <1>5, <1>6
<1>9. tty \o toks \in Seq(AllTokens)
  BY <1>1
<1>10. QED BY <1>1, <1>3, <1>7, <1>8, <1>9 DEF InStep

LEMMA LeadSilent ==
  ASSUME NEW c \in Histories, NEW tok,
         tok \in Tokens \/ \E on \in BOOLEAN : tok = Rec(on) \/ tok = Alt(on)
  PROVE  Leads(c, Silent, <<tok>>, Silent)
<1>1. tok \in AllTokens
  BY TokensKnown
<1>2. \A x \in Silent : Good(c, x) /\ Take(c, x, tok) \in Silent
  BY SilentGood, SilentBytes, SilentSwitches
<1>3. QED BY <1>1, <1>2, LeadToken

\* Without an integration, nothing is written but what is typed or put out.
LEMMA NoMarks ==
  ASSUME ~Emits, NEW ran, NEW code, NEW dir, NEW n, NEW kind
  PROVE  Prompt(ran, code, dir) = <<>> /\ Preexec(n, kind) = <<>> /\ Postexec(code) = <<>>
<1>1. emit.snip = "none" /\ emit.native = "none"
  BY DEF Emits
<1>2. /\ SnippetPrompt(ran, code, dir) = <<>> /\ NativePrompt(ran, code, dir) = <<>>
      /\ SnippetPreexec(n) = <<>> /\ NativePreexec(n, kind) = <<>>
      /\ If(emit.snip = "fish", <<D(code)>>) = <<>>
      /\ If(emit.native = "fish", <<D(code)>>) = <<>>
  BY <1>1 DEF SnippetPrompt, NativePrompt, SnippetPreexec, NativePreexec, If
<1>3. <<>> \o <<>> = <<>>
  OBVIOUS
<1>4. QED BY <1>2, <1>3 DEF Prompt, Preexec, Postexec, Both

\* What ShellInv says of a history that goes on.
LEMMA ShellKnows ==
  ASSUME ShellInv
  PROVE  /\ cmds \in Histories /\ Len(cmds) \in Nat /\ Len(cmds) <= MaxCommands /\ EmitOK
         /\ sh.code \in 0..1 /\ sh.off \in BOOLEAN /\ sh.alt \in BOOLEAN /\ sh.noise \in BOOLEAN
         /\ sh.pc = "ready" /\ sh.ran # 0 =>
              /\ Len(cmds) >= 1
              /\ cmds[Len(cmds)].off <=> sh.off
              /\ cmds[Len(cmds)].ended /\ cmds[Len(cmds)].code = sh.code
<1>1. /\ cmds \in Histories /\ Len(cmds) \in Nat /\ Len(cmds) \in 0..MaxCommands /\ EmitOK
      /\ cmds # <<>> <=> Len(cmds) >= 1
      /\ cmds # <<>> <=> Len(cmds) # 0
  BY LastIs DEF ShellInv, ShellTypes
<1>2. sh.code \in 0..1 /\ sh.off \in BOOLEAN /\ sh.alt \in BOOLEAN /\ sh.noise \in BOOLEAN
  BY DEF ShellInv, ShellTypes
<1>3. ASSUME sh.pc = "ready", sh.ran # 0
      PROVE  /\ Len(cmds) >= 1 /\ (cmds[Len(cmds)].off <=> sh.off)
             /\ cmds[Len(cmds)].ended /\ cmds[Len(cmds)].code = sh.code
  <2>1. sh.ran = Len(cmds)
    BY <1>3 DEF ShellInv, Current
  <2>2. cmds # <<>> /\ Len(cmds) >= 1
    BY <1>1, <1>3, <2>1
  <2>3. Last.ended /\ Last.code = sh.code
    BY <1>3 DEF ShellInv, Current
  <2>4. QED BY <2>2, <2>3 DEF ShellInv, Switches, Last
<1>4. QED BY <1>1, <1>2, <1>3

LEMMA PromptWrites ==
  ASSUME ShellInv, ShowPrompt
  PROVE  Writes(Prompt(sh.ran # 0, sh.code, Len(cmds)))
<1> DEFINE c == cmds
           q == Prompt(sh.ran # 0, sh.code, Len(cmds))
           X == IF sh.ran # 0 /\ ~Closed THEN Inside(c, sh.off) ELSE Outside(c, sh.off)
<1>1. /\ sh.pc = "ready" /\ tty' = tty \o q /\ cmds' = cmds
      /\ sh' = [sh EXCEPT !.pc = "prompt", !.ran = 0, !.noise = FALSE]
  BY DEF ShowPrompt, Write
<1>2. sh'.pc = "prompt" /\ sh'.noise = FALSE /\ sh'.off = sh.off
  BY <1>1 DEF ShellInv, ShellTypes
<1>3. /\ c \in Histories /\ sh.code \in 0..1 /\ EmitOK
      /\ sh.ran # 0 => /\ Len(c) >= 1
                       /\ c[Len(c)].off <=> sh.off
                       /\ c[Len(c)].ended /\ c[Len(c)].code = sh.code
  BY <1>1, ShellKnows
<1>4. Later(cmds, cmds')
  BY <1>1, <1>3, LaterSame
<1>5. CASE Emits
  <2>1. Synced(cmds, sh) = X
    BY <1>1, <1>5 DEF Synced, Around
  <2>2. Synced(cmds', sh') = Prompted(c, sh.off)
    BY <1>1, <1>2, <1>5 DEF Synced, Around
  <2>3. (sh.ran # 0) \in BOOLEAN
    OBVIOUS
  <2>4. CASE sh.ran # 0 /\ ~Closed
    <3>1. X = Inside(c, sh.off)
      BY <2>4
    <3>2. \A x \in Inside(c, sh.off) : Good(c, x)
      BY <1>3, <2>4, GoodStates
    <3>3. Leads(c, Inside(c, sh.off), <<D(sh.code)>>, Outside(c, sh.off))
      BY <1>3, <2>4, LeadOver
    <3>4. emit.snip # "fish" /\ emit.native # "fish"
      BY <2>4 DEF Closed
    <3> HIDE DEF c
    <3>5. Leads(c, Inside(c, sh.off), Prompt(sh.ran # 0, sh.code, Len(c)), Prompted(c, sh.off))
      BY <1>3, <1>5, <2>3, <2>4, <3>2, <3>3, <3>4, LeadPrompt
    <3>6. QED BY <1>1, <1>4, <2>1, <2>2, <3>1, <3>5 DEF Writes, c
  <2>5. CASE ~(sh.ran # 0 /\ ~Closed)
    <3>1. X = Outside(c, sh.off)
      BY <2>5
    <3> HIDE DEF c
    <3>2. Leads(c, Outside(c, sh.off), Prompt(sh.ran # 0, sh.code, Len(c)), Prompted(c, sh.off))
      BY <1>3, <1>5, <2>3, LeadPrompt
    <3>3. QED BY <1>1, <1>4, <2>1, <2>2, <3>1, <3>2 DEF Writes, c
  <2>6. QED BY <2>4, <2>5
<1>6. CASE ~Emits
  <2>1. q = <<>>
    BY <1>6, NoMarks
  <2>2. Synced(cmds, sh) = Silent /\ Synced(cmds', sh') = Silent
    BY <1>6 DEF Synced
  <2>3. Leads(cmds', Silent, <<>>, Silent)
    BY <1>1, <1>3, SilentGood, LeadNowhere
  <2>4. QED BY <1>1, <1>4, <2>1, <2>2, <2>3 DEF Writes
<1>7. QED BY <1>5, <1>6

\* A state at a prompt is one between commands.
LEMMA AtPrompt ==
  ASSUME Emits, NEW c, NEW s, s.pc = "prompt"
  PROVE  Synced(c, s) \subseteq Prompting(c, s.off, {"cwd"})
BY DEF Synced, Around, Prompted, Prompting

LEMMA IdleWrites ==
  ASSUME ShellInv, Idle
  PROVE  \E toks : Writes(toks)
<1> DEFINE c == cmds
<1>1. PICK toks \in {<<>>, <<KeysLost(0)>>} : tty' = tty \o toks
  BY DEF Idle, Write
<1>2. /\ sh.pc = "prompt" /\ cmds' = cmds /\ sh' = [sh EXCEPT !.pc = "ready", !.idle = @ + 1]
  BY DEF Idle
<1>3. sh'.pc = "ready" /\ sh'.off = sh.off /\ sh'.ran = 0
  BY <1>2 DEF ShellInv, ShellTypes, Current
<1>4. c \in Histories /\ Later(cmds, cmds')
  BY <1>2, ShellKnows, LaterSame
<1>5. KeysLost(0) \in Tokens
  BY RecorderAssumption DEF KeysLost, Tokens
<1>6. CASE Emits
  <2>1. Synced(cmds, sh) \subseteq Prompting(c, sh.off, {"cwd"})
    BY <1>2, <1>6, AtPrompt
  <2>2. Synced(cmds', sh') = Outside(c, sh.off)
    BY <1>2, <1>3, <1>6 DEF Synced, Around
  <2>3. CASE toks = <<>>
    <3>1. Synced(cmds, sh) \subseteq Outside(c, sh.off)
      BY <1>4, <2>1, PromptingGood
    <3>2. Leads(c, Outside(c, sh.off), <<>>, Outside(c, sh.off))
      BY <1>4, GoodStates, LeadNowhere
    <3>3. Leads(c, Synced(cmds, sh), <<>>, Outside(c, sh.off))
      BY <3>1, <3>2, LeadWider
    <3>4. QED BY <1>1, <1>2, <1>4, <2>2, <2>3, <3>3 DEF Writes
  <2>4. CASE toks = <<KeysLost(0)>>
    <3>1. \A x \in Prompting(c, sh.off, {"cwd"}) : Take(c, x, KeysLost(0)) \in Prompting(c, sh.off, {})
      BY PromptBytes
    <3>2. KeysLost(0) \in AllTokens
      BY <1>5, TokensKnown
    <3>3. Leads(c, Prompting(c, sh.off, {"cwd"}), <<KeysLost(0)>>, Prompting(c, sh.off, {}))
      BY <1>4, <3>1, <3>2, PromptingGood, LeadToken
    <3>4. Leads(c, Synced(cmds, sh), <<KeysLost(0)>>, Prompting(c, sh.off, {}))
      BY <2>1, <3>3, LeadWider
    <3>5. QED BY <1>1, <1>2, <1>4, <2>2, <2>4, <3>4, OutsidePrompts DEF Writes
  <2>5. QED BY <1>1, <2>3, <2>4
<1>7. CASE ~Emits
  <2>1. Synced(cmds, sh) = Silent /\ Synced(cmds', sh') = Silent
    BY <1>7 DEF Synced
  <2>2. Leads(cmds', Silent, toks, Silent)
    BY <1>1, <1>2, <1>4, <1>5, SilentGood, LeadNowhere, LeadSilent
  <2>3. QED BY <1>1, <1>4, <2>1, <2>2 DEF Writes
<1>8. QED BY <1>6, <1>7

LEMMA BackgroundWrites ==
  ASSUME ShellInv, Background
  PROVE  Writes(<<Text(0, FALSE)>>)
<1> DEFINE c == cmds
           tok == Text(0, FALSE)
<1>1. /\ sh.pc = "prompt" /\ cmds' = cmds /\ sh' = [sh EXCEPT !.noise = TRUE]
      /\ tty' = tty \o <<tok>>
  BY DEF Background, Write
<1>2. sh'.pc = "prompt" /\ sh'.off = sh.off /\ sh'.noise
  BY <1>1 DEF ShellInv, ShellTypes
<1>3. c \in Histories /\ Later(cmds, cmds')
  BY <1>1, ShellKnows, LaterSame
<1>4. tok \in Tokens /\ tok \in {KeysLost(0), Text(0, FALSE)}
  BY RecorderAssumption DEF Text, Tokens
<1> HIDE DEF tok
<1>5. CASE Emits
  <2>1. Synced(cmds, sh) \subseteq Prompting(c, sh.off, {"cwd"})
    BY <1>1, <1>5, AtPrompt
  <2>2. Synced(cmds', sh') = Prompting(c, sh.off, {"cwd"})
    BY <1>1, <1>2, <1>5 DEF Synced, Around
  <2>3. \A x \in Prompting(c, sh.off, {"cwd"}) : Take(c, x, tok) \in Prompting(c, sh.off, {"cwd"})
    BY <1>4, PromptBytes
  <2>4. tok \in AllTokens
    BY <1>4, TokensKnown
  <2>5. Leads(c, Prompting(c, sh.off, {"cwd"}), <<tok>>, Prompting(c, sh.off, {"cwd"}))
    BY <1>3, <2>3, <2>4, PromptingGood, LeadToken
  <2>6. Leads(c, Synced(cmds, sh), <<tok>>, Prompting(c, sh.off, {"cwd"}))
    BY <2>1, <2>5, LeadWider
  <2>7. QED BY <1>1, <1>3, <2>2, <2>6 DEF Writes, tok
<1>6. CASE ~Emits
  <2>1. Synced(cmds, sh) = Silent /\ Synced(cmds', sh') = Silent
    BY <1>6 DEF Synced
  <2>2. Leads(cmds', Silent, <<tok>>, Silent)
    BY <1>1, <1>3, <1>4, LeadSilent
  <2>3. QED BY <1>1, <1>3, <2>1, <2>2 DEF Writes, tok
<1>7. QED BY <1>5, <1>6

LEMMA RunWrites ==
  ASSUME ShellInv, NEW kind \in Kinds, Run(kind)
  PROVE  \E toks : Writes(toks)
<1> DEFINE new == NewCommand(kind)
           c2 == Append(cmds, new)
           toks == Echo(Len(c2), kind) \o Preexec(Len(c2), kind)
           X == Synced(cmds, sh)
<1>1. /\ Len(cmds) < MaxCommands /\ new \in Command /\ cmds' = c2 /\ ShellInv'
      /\ Len(cmds') = Len(cmds) + 1 /\ sh.pc = "prompt" /\ Last' = new
      /\ sh'.pc = (IF kind = "exit" THEN "exiting" ELSE "running")
      /\ sh'.off = sh.off /\ ~sh'.alt
  BY RunShell
<1>2. tty' = tty \o toks
  <2>1. Len(c2) = Len(cmds) + 1
    BY <1>1
  <2>2. tty' = tty \o (Echo(Len(cmds) + 1, kind) \o Preexec(Len(cmds) + 1, kind))
    BY DEF Run, Write
  <2>3. QED BY <2>1, <2>2
<1>3. /\ cmds \in Histories /\ Len(cmds) \in Nat /\ EmitOK
  BY ShellKnows
<1>4. new.dir = Len(cmds) /\ new.told = Told(kind) /\ new.shown = 0 /\ new.kind = kind
  BY DEF NewCommand
<1>5. c2[Len(c2)] = new
  BY <1>1, <1>3 DEF Last
<1>6. c2 \in Histories /\ Len(c2) >= 1
  <2>1. ShellInv' => cmds' \in Histories
    BY DEF ShellInv, ShellTypes
  <2>2. QED BY <1>1, <1>3, <2>1
<1>7. CASE Emits
  <2>1. X \subseteq Prompting(cmds, sh.off, {"cwd"})
    BY <1>1, <1>7, AtPrompt
  <2>2. X \subseteq Starting(c2, sh.off, {})
    <3> HIDE DEF new, X
    <3>1. QED BY <1>1, <1>3, <1>4, <2>1, NewStarts
  <2>3. Later(cmds, c2)
    <3>1. \A m \in 1..Len(cmds) : c2[m] = cmds[m]
      BY <1>1, <1>3 DEF Histories
    <3>2. QED BY <1>1, <1>3, <1>6, <3>1 DEF Later
  <2>4. ASSUME emit.snip = "none", ~sh.noise PROVE X \subseteq Typed(c2, sh.off, "input", <<>>)
    <3>1. X = Prompting(cmds, sh.off, {"cwd", "input"})
      BY <1>1, <1>7, <2>4 DEF Synced, Around, Prompted
    <3> HIDE DEF X, new
    <3>2. QED BY <2>2, <3>1, TypedStarts
  <2>5. c2[Len(c2)].told =>
           \/ emit.snip # "none" \/ emit.native \in Telling
           \/ kind \notin Unreadable /\ X \subseteq Typed(c2, sh.off, "input", <<>>)
    BY <1>4, <1>5, <2>4 DEF Told, Telling
  <2>6. Leads(c2, X, toks, Ready(c2, sh.off))
    <3> HIDE DEF c2, X
    <3>1. QED BY <1>6, <1>7, <2>2, <2>5, LeadRun
  <2>7. Ready(c2, sh.off) \subseteq Synced(cmds', sh')
    <3>1. \A x \in Ready(c2, sh.off) : x \in Inside(c2, sh.off) /\ ~x.r.alt
      BY <1>4, <1>5, <1>6, ReadyRuns
    <3>2. Synced(cmds', sh') = Around(c2, sh')
      BY <1>1, <1>7 DEF Synced
    <3>3. QED BY <1>1, <3>1, <3>2 DEF Around
  <2> HIDE DEF X
  <2>8. Leads(c2, X, toks, Synced(cmds', sh'))
    BY <2>6, <2>7, LeadWider
  <2>9. QED BY <1>1, <1>2, <2>3, <2>8 DEF Writes, X
<1>8. CASE ~Emits
  <2>1. Synced(cmds, sh) = Silent /\ Synced(cmds', sh') = Silent
    BY <1>8 DEF Synced
  <2>2. Later(cmds, c2)
    <3>1. \A m \in 1..Len(cmds) : c2[m] = cmds[m]
      BY <1>1, <1>3 DEF Histories
    <3>2. QED BY <1>1, <1>3, <1>6, <3>1 DEF Later
  <2>3. Leads(c2, Silent, Echo(Len(c2), kind), Silent)
    <3>1. Len(c2) \in 0..MaxCommands
      BY <1>6 DEF Histories
    <3>2. PICK n \in 0..MaxCommands : n = Len(c2)
      BY <3>1
    <3>3. \A p \in 0..2 : Keys(n, p) \in Tokens
      BY <3>2 DEF Keys, Tokens
    <3>4. KeysLost(n) \in Tokens
      BY <3>2 DEF KeysLost, Tokens
    <3>5. \A tok \in Tokens : Leads(c2, Silent, <<tok>>, Silent)
      BY <1>6, LeadSilent
    <3> HIDE DEF c2
    <3>6. Leads(c2, Silent, <<Keys(n, 1), Keys(n, 2)>>, Silent)
      <4>1. Leads(c2, Silent, <<Keys(n, 1)>>, Silent) /\ Leads(c2, Silent, <<Keys(n, 2)>>, Silent)
        BY <3>3, <3>5
      <4>2. QED BY <4>1, Lead2
    <3>7. Echo(n, kind) \in {<<KeysLost(n)>>, <<Keys(n, 1)>> \o <<>> \o <<Keys(n, 2)>>,
                             <<Keys(n, 1), Keys(n, 2)>>}
      <4>1. emit.native = "none"
        BY <1>8 DEF Emits
      <4>2. CASE kind \in Unreadable
        BY <4>2 DEF Echo, Unreadable
      <4>3. CASE kind \notin Unreadable /\ kind = "long"
        BY <4>1, <4>3 DEF Echo, If, Unreadable
      <4>4. CASE kind \notin Unreadable /\ kind # "long"
        BY <4>4 DEF Echo, Unreadable
      <4>5. QED BY <4>2, <4>3, <4>4
    <3>8. <<Keys(n, 1)>> \o <<>> \o <<Keys(n, 2)>> = <<Keys(n, 1)>> \o <<Keys(n, 2)>>
      OBVIOUS
    <3>9. Leads(c2, Silent, <<Keys(n, 1)>> \o <<Keys(n, 2)>>, Silent)
      BY <3>3, <3>5, LeadOn
    <3>10. Leads(c2, Silent, Echo(n, kind), Silent)
      BY <3>4, <3>5, <3>6, <3>7, <3>8, <3>9
    <3>11. QED BY <3>2, <3>10
  <2>4. Leads(c2, Silent, Preexec(Len(c2), kind), Silent)
    <3>1. Preexec(Len(c2), kind) = <<>>
      BY <1>8, NoMarks
    <3>2. QED BY <1>6, <3>1, SilentGood, LeadNowhere
  <2>5. Leads(c2, Silent, toks, Silent)
    BY <2>3, <2>4, LeadOn
  <2>6. QED BY <1>1, <1>2, <2>1, <2>2, <2>5 DEF Writes
<1>9. QED BY <1>7, <1>8

LEMMA TextWrites ==
  ASSUME ShellInv, WriteText
  PROVE  Writes(<<Text(Len(cmds), sh.off)>>)
<1> DEFINE n == Len(cmds)
           tok == Text(n, sh.off)
<1>1. /\ cmds # <<>> /\ Later(cmds, cmds') /\ SameLast(cmds, cmds') /\ ShellInv'
      /\ cmds'[n].shown = IF sh.alt THEN cmds[n].shown ELSE cmds[n].shown + 1
      /\ cmds[n].kind # "exit" /\ sh.pc = "running" /\ Running = n
  BY TextShell DEF Last
<1>2. /\ tty' = tty \o <<tok>> /\ sh' = sh
  BY <1>1 DEF WriteText, Write
<1>3. /\ cmds \in Histories /\ n \in Nat /\ n <= MaxCommands /\ n >= 1 /\ n \in 0..MaxCommands
      /\ sh.off \in BOOLEAN /\ sh.alt \in BOOLEAN
  BY <1>1, ShellKnows DEF Histories
<1>4. cmds' \in Histories /\ Len(cmds') = n
  BY <1>1 DEF Later, SameLast
<1>5. tok \in Tokens
  BY <1>3 DEF Text, Tokens
<1>6. CASE Emits
  <2> DEFINE X == {y \in Inside(cmds, sh.off) : y.r.alt <=> sh.alt}
             Y == {y \in Inside(cmds', sh.off) : y.r.alt <=> sh.alt}
  <2>1. Synced(cmds, sh) = X /\ Synced(cmds', sh') = Y
    BY <1>1, <1>2, <1>6 DEF Synced, Around
  <2>2. \A x \in X : Good(cmds', x)
    BY <1>1, <1>3, GoodStates, LaterGood
  <2>3. \A y \in Y : Good(cmds', y)
    BY <1>3, <1>4, GoodStates
  <2>4. ASSUME NEW x \in X PROVE Take(cmds', x, tok) \in Y
    <3> DEFINE y == Take(cmds', x, tok)
    <3>1. x \in Inside(cmds, sh.off) /\ (x.r.alt <=> sh.alt)
      OBVIOUS
    <3>2. y \in Inside(cmds', sh.off) /\ (y.r.alt <=> sh.alt)
      BY <1>1, <1>3, <1>4, <3>1, RunText
    <3>3. QED BY <3>2
  <2>5. tok \in AllTokens
    BY <1>5, TokensKnown
  <2> HIDE DEF X, Y, tok
  <2>6. Leads(cmds', X, <<tok>>, Y)
    BY <2>2, <2>3, <2>4, <2>5, LeadToken
  <2>7. QED BY <1>1, <1>2, <2>1, <2>6 DEF Writes, tok
<1>7. CASE ~Emits
  <2>1. Synced(cmds, sh) = Silent /\ Synced(cmds', sh') = Silent
    BY <1>7 DEF Synced
  <2> HIDE DEF tok
  <2>2. Leads(cmds', Silent, <<tok>>, Silent)
    BY <1>4, <1>5, LeadSilent
  <2>3. QED BY <1>1, <1>2, <2>1, <2>2 DEF Writes, tok
<1>8. QED BY <1>6, <1>7

\* A command is running.
LEMMA RunningIs ==
  ASSUME ShellInv, Running # 0
  PROVE  /\ sh.pc = "running" /\ Running = Len(cmds) /\ Len(cmds) >= 1 /\ cmds # <<>>
         /\ Last = cmds[Len(cmds)] /\ Last \in Command /\ ~Last.ended
<1>1. sh.pc = "running" /\ Running = Len(cmds) /\ cmds # <<>> /\ ~Last.ended
  BY DEF Running, ShellInv, Current
<1>2. Len(cmds) >= 1 /\ Last \in Command
  BY <1>1, LastIs DEF ShellInv
<1>3. QED BY <1>1, <1>2 DEF Last

LEMMA ScreenWrites ==
  ASSUME ShellInv, SwitchScreen
  PROVE  Writes(<<Alt(~sh.alt)>>)
<1>1. /\ Running # 0 /\ tty' = tty \o <<Alt(~sh.alt)>> /\ cmds' = cmds
      /\ sh' = [sh EXCEPT !.alt = ~@]
  BY DEF SwitchScreen, Write
<1>2. sh.pc = "running" /\ Len(cmds) >= 1
  BY <1>1, RunningIs
<1>3. sh'.pc = "running" /\ sh'.off = sh.off /\ sh'.alt = ~sh.alt
  BY <1>1, <1>2 DEF ShellInv, ShellTypes
<1>4. cmds \in Histories /\ Later(cmds, cmds') /\ sh.alt \in BOOLEAN /\ (~sh.alt) \in BOOLEAN
  BY <1>1, ShellKnows, LaterSame
<1>5. PICK alt \in BOOLEAN : alt = ~sh.alt
  BY <1>4
<1>6. CASE Emits
  <2> DEFINE X == {y \in Inside(cmds, sh.off) : y.r.alt <=> sh.alt}
             Y == {y \in Inside(cmds, sh.off) : y.r.alt <=> alt}
  <2>1. Synced(cmds, sh) = X /\ Synced(cmds', sh') = Y
    BY <1>1, <1>2, <1>3, <1>5, <1>6 DEF Synced, Around
  <2>2. (\A x \in X : Good(cmds, x)) /\ \A y \in Y : Good(cmds, y)
    BY <1>2, <1>4, GoodStates
  <2>3. ASSUME NEW x \in X PROVE Take(cmds, x, Alt(alt)) \in Y
    <3>1. x \in Inside(cmds, sh.off)
      OBVIOUS
    <3>2. LET y == Take(cmds, x, Alt(alt)) IN y \in Inside(cmds, sh.off) /\ (y.r.alt <=> alt)
      BY <1>2, <1>4, <3>1, RunScreen
    <3>3. QED BY <3>2
  <2>4. Alt(alt) \in AllTokens
    BY TokensKnown
  <2> HIDE DEF X, Y
  <2>5. Leads(cmds, X, <<Alt(alt)>>, Y)
    BY <2>2, <2>3, <2>4, LeadToken
  <2>6. QED BY <1>1, <1>4, <1>5, <2>1, <2>5 DEF Writes
<1>7. CASE ~Emits
  <2>1. Synced(cmds, sh) = Silent /\ Synced(cmds', sh') = Silent
    BY <1>7 DEF Synced
  <2>2. Leads(cmds', Silent, <<Alt(alt)>>, Silent)
    BY <1>1, <1>4, LeadSilent
  <2>3. QED BY <1>1, <1>4, <1>5, <2>1, <2>2 DEF Writes
<1>8. QED BY <1>6, <1>7

LEMMA ToggleWrites ==
  ASSUME ShellInv, Toggle
  PROVE  Writes(<<Rec(sh.off)>>)
<1>1. /\ Running # 0 /\ tty' = tty \o <<Rec(sh.off)>> /\ cmds' = cmds
      /\ sh' = [sh EXCEPT !.off = ~@] /\ cmds[Running].kind \in {"toggle", "script"}
      /\ cmds[Running].kind = "toggle" => cmds[Running].off = sh.off
  BY DEF Toggle, Write
<1>2. /\ sh.pc = "running" /\ Len(cmds) >= 1 /\ cmds # <<>> /\ Last = cmds[Len(cmds)]
      /\ Last \in Command /\ ~Last.ended /\ Running = Len(cmds)
  BY <1>1, RunningIs
<1>3. sh'.pc = "running" /\ sh'.off = ~sh.off /\ sh'.alt = sh.alt
  BY <1>1, <1>2 DEF ShellInv, ShellTypes
<1>4. /\ cmds \in Histories /\ Later(cmds, cmds') /\ sh.off \in BOOLEAN
  BY <1>1, ShellKnows, LaterSame
<1>5. "script" \in Kinds \/ (sh.off => cmds[Len(cmds)].shown = 0)
  <2>1. CASE Last.kind = "script"
    BY <1>2, <2>1 DEF Command
  <2>2. CASE Last.kind = "toggle"
    BY <1>1, <1>2, <2>2 DEF ShellInv, Switches
  <2>3. QED BY <1>1, <1>2, <2>1, <2>2
<1>6. CASE Emits
  <2> DEFINE X == {y \in Inside(cmds, sh.off) : y.r.alt <=> sh.alt}
             Y == {y \in Inside(cmds, sh'.off) : y.r.alt <=> sh.alt}
  <2>1. Synced(cmds, sh) = X /\ Synced(cmds', sh') = Y
    BY <1>1, <1>2, <1>3, <1>6 DEF Synced, Around
  <2>2. (\A x \in X : Good(cmds, x)) /\ \A y \in Y : Good(cmds, y)
    BY <1>2, <1>4, GoodStates
  <2>3. ASSUME NEW x \in X PROVE Take(cmds, x, Rec(sh.off)) \in Y
    <3>1. x \in Inside(cmds, sh.off) /\ (x.r.alt <=> sh.alt)
      OBVIOUS
    <3>2. LET y == Take(cmds, x, Rec(sh.off)) IN y \in Inside(cmds, sh'.off) /\ y.r.alt = x.r.alt
      <4>1. PICK off2 : off2 = sh'.off /\ (off2 <=> ~sh.off)
        BY <1>3
      <4>2. LET y == Take(cmds, x, Rec(sh.off)) IN y \in Inside(cmds, off2) /\ y.r.alt = x.r.alt
        BY <1>2, <1>4, <1>5, <3>1, <4>1, RunToggle
      <4>3. QED BY <4>1, <4>2
    <3>3. QED BY <3>1, <3>2
  <2>4. Rec(sh.off) \in AllTokens
    BY <1>4, TokensKnown
  <2> HIDE DEF X, Y
  <2>5. Leads(cmds, X, <<Rec(sh.off)>>, Y)
    BY <2>2, <2>3, <2>4, LeadToken
  <2>6. QED BY <1>1, <1>4, <2>1, <2>5 DEF Writes
<1>7. CASE ~Emits
  <2>1. Synced(cmds, sh) = Silent /\ Synced(cmds', sh') = Silent
    BY <1>7 DEF Synced
  <2>2. Leads(cmds', Silent, <<Rec(sh.off)>>, Silent)
    BY <1>1, <1>4, LeadSilent
  <2>3. QED BY <1>1, <1>4, <2>1, <2>2 DEF Writes
<1>8. QED BY <1>6, <1>7

LEMMA FinishWrites ==
  ASSUME ShellInv, NEW code \in 0..1, Finish(code)
  PROVE  Writes(Postexec(code))
<1>1. /\ ShellInv' /\ cmds # <<>> /\ Later(cmds, cmds') /\ SameLast(cmds, cmds')
      /\ cmds'[Len(cmds)].shown = cmds[Len(cmds)].shown
      /\ Last'.ended /\ Last'.code = code /\ (Last'.off <=> sh'.off) /\ sh'.off = sh.off
      /\ sh.pc = "running" /\ sh'.pc = "ready" /\ sh'.ran = Len(cmds)
  BY FinishShell DEF Last
<1>2. tty' = tty \o Postexec(code)
  BY DEF Finish, Write
<1>3. /\ cmds \in Histories /\ Len(cmds) \in Nat /\ Len(cmds) >= 1 /\ EmitOK /\ sh'.ran # 0
  BY <1>1, ShellKnows, LastIs DEF ShellInv
<1>4. cmds' \in Histories /\ Len(cmds') = Len(cmds) /\ Len(cmds') >= 1
  BY <1>1, <1>3 DEF Later, SameLast
<1>5. cmds'[Len(cmds')].ended /\ cmds'[Len(cmds')].code = code /\ (cmds'[Len(cmds')].off <=> sh.off)
  BY <1>1 DEF Last
<1>6. CASE Emits
  <2> DEFINE X == {y \in Inside(cmds, sh.off) : y.r.alt <=> sh.alt}
             I == Inside(cmds', sh.off)
             O == Outside(cmds', sh.off)
  <2>1. Synced(cmds, sh) = X
    BY <1>1, <1>6 DEF Synced, Around
  <2>2. Synced(cmds', sh') = IF Closed THEN O ELSE I
    BY <1>1, <1>3, <1>6 DEF Synced, Around
  <2>3. X \subseteq I
    BY <1>1, <1>3, InsideLater
  <2>4. \A x \in I : Good(cmds', x)
    BY <1>4, GoodStates
  <2>5. Leads(cmds', I, <<D(code)>>, O)
    BY <1>4, <1>5, LeadOver
  <2>6. Leads(cmds', I, Postexec(code), IF Closed THEN O ELSE I)
    <3> HIDE DEF I
    <3>1. QED BY <1>3, <1>4, <2>4, <2>5, LeadPostexec
  <2> HIDE DEF X, I, O
  <2>7. Leads(cmds', X, Postexec(code), Synced(cmds', sh'))
    BY <2>2, <2>3, <2>6, LeadWider
  <2>8. QED BY <1>1, <1>2, <2>1, <2>7 DEF Writes
<1>7. CASE ~Emits
  <2>1. Synced(cmds, sh) = Silent /\ Synced(cmds', sh') = Silent
    BY <1>7 DEF Synced
  <2>2. Postexec(code) = <<>>
    BY <1>7, NoMarks
  <2>3. Leads(cmds', Silent, <<>>, Silent)
    BY <1>4, SilentGood, LeadNowhere
  <2>4. QED BY <1>1, <1>2, <2>1, <2>2, <2>3 DEF Writes
<1>8. QED BY <1>6, <1>7

LEMMA ExitWrites ==
  ASSUME ShellInv, Exit
  PROVE  Writes(Postexec(0))
<1>1. /\ sh.pc = "exiting" /\ tty' = tty \o Postexec(0) /\ cmds' = cmds
      /\ sh' = [sh EXCEPT !.pc = "dead"]
  BY DEF Exit, Write
<1>2. sh'.pc = "dead" /\ sh'.off = sh.off
  BY <1>1 DEF ShellInv, ShellTypes
<1>3. cmds \in Histories /\ Later(cmds, cmds') /\ EmitOK
  BY <1>1, ShellKnows, LaterSame
<1>4. Len(cmds) >= 1 /\ cmds[Len(cmds)].kind = "exit" /\ (Closed => cmds[Len(cmds)].told)
  <2>1. cmds # <<>> /\ Last.kind = "exit" /\ (Closed => Last.told)
    BY <1>1 DEF ShellInv, Current
  <2>2. QED BY <2>1, LastIs DEF ShellInv, Last
<1>5. CASE Emits
  <2> DEFINE I == Inside(cmds, sh.off)
             O == Outside(cmds, sh.off)
  <2>1. Synced(cmds, sh) = I
    BY <1>1, <1>5 DEF Synced, Around
  <2>2. Synced(cmds', sh') = O \cup {y \in I : Len(cmds) >= 1}
    BY <1>1, <1>2, <1>5 DEF Synced, Around
  <2>3. \A x \in I : Good(cmds, x)
    BY <1>3, <1>4, GoodStates
  <2>4. Closed => Leads(cmds, I, <<D(0)>>, O)
    BY <1>3, <1>4, LeadOver
  <2>5. Leads(cmds, I, Postexec(0), IF Closed THEN O ELSE I)
    <3> HIDE DEF I
    <3>1. CASE Closed
      BY <1>3, <2>3, <2>4, <3>1, LeadPostexec
    <3>2. CASE ~Closed
      <4>1. Postexec(0) = <<>>
        BY <3>2 DEF Closed, Postexec, Both, If
      <4>2. Leads(cmds, I, <<>>, I)
        BY <2>3, LeadNowhere
      <4>3. QED BY <3>2, <4>1, <4>2
    <3>3. QED BY <3>1, <3>2
  <2>6. (IF Closed THEN O ELSE I) \subseteq Synced(cmds', sh')
    BY <1>4, <2>2
  <2> HIDE DEF I, O
  <2>7. Leads(cmds, I, Postexec(0), Synced(cmds', sh'))
    BY <2>5, <2>6, LeadWider
  <2>8. QED BY <1>1, <1>3, <2>1, <2>7 DEF Writes
<1>6. CASE ~Emits
  <2>1. Synced(cmds, sh) = Silent /\ Synced(cmds', sh') = Silent
    BY <1>6 DEF Synced
  <2>2. Postexec(0) = <<>>
    BY <1>6, NoMarks
  <2>3. Leads(cmds', Silent, <<>>, Silent)
    BY <1>1, <1>3, SilentGood, LeadNowhere
  <2>4. QED BY <1>1, <1>3, <2>1, <2>2, <2>3 DEF Writes
<1>7. QED BY <1>5, <1>6

LEMMA DieWrites ==
  ASSUME ShellInv, tty \in Seq(AllTokens), Die
  PROVE  Writes(<<>>)
<1>1. /\ sh.pc \in {"ready", "prompt", "running"} /\ tty' = tty /\ cmds' = cmds
      /\ sh' = [sh EXCEPT !.pc = "dead"]
  BY DEF Die
<1>2. sh'.pc = "dead" /\ sh'.off = sh.off
  BY <1>1 DEF ShellInv, ShellTypes
<1>3. /\ cmds \in Histories /\ Later(cmds, cmds')
      /\ sh.pc = "ready" /\ sh.ran # 0 => Len(cmds) >= 1
  BY <1>1, ShellKnows, LaterSame
<1>4. sh.pc = "running" => Len(cmds) >= 1
  BY LastIs DEF ShellInv, Current
<1>5. tty' = tty \o <<>>
  BY <1>1
<1>6. CASE Emits
  <2>1. Synced(cmds', sh') = Outside(cmds, sh.off) \cup {y \in Inside(cmds, sh.off) : Len(cmds) >= 1}
    BY <1>1, <1>2, <1>6 DEF Synced, Around
  <2>2. Synced(cmds, sh) \subseteq Synced(cmds', sh')
    <3>1. CASE sh.pc = "ready"
      BY <1>3, <1>6, <2>1, <3>1 DEF Synced, Around
    <3>2. CASE sh.pc = "prompt"
      BY <1>3, <1>6, <2>1, <3>2, AtPrompt, PromptingGood
    <3>3. CASE sh.pc = "running"
      BY <1>4, <1>6, <2>1, <3>3 DEF Synced, Around
    <3>4. QED BY <1>1, <3>1, <3>2, <3>3
  <2>3. \A x \in Synced(cmds', sh') : Good(cmds, x)
    BY <1>3, <2>1, GoodStates
  <2>4. Leads(cmds, Synced(cmds', sh'), <<>>, Synced(cmds', sh'))
    BY <2>3, LeadNowhere
  <2>5. Leads(cmds, Synced(cmds, sh), <<>>, Synced(cmds', sh'))
    BY <2>2, <2>4, LeadWider
  <2>6. QED BY <1>1, <1>3, <1>5, <2>5 DEF Writes
<1>7. CASE ~Emits
  <2>1. Synced(cmds, sh) = Silent /\ Synced(cmds', sh') = Silent
    BY <1>7 DEF Synced
  <2>2. Leads(cmds', Silent, <<>>, Silent)
    BY <1>1, <1>3, SilentGood, LeadNowhere
  <2>3. QED BY <1>3, <1>5, <2>1, <2>2 DEF Writes
<1>8. QED BY <1>6, <1>7

-----------------------------------------------------------------------------
(***************************************************************************)
(* The steps of the recorder are Take and End.                             *)
(***************************************************************************)
LEMMA FlushIs ==
  ASSUME NEW s, NEW code, NEW ok, Flush(s, code, ok)
  PROVE  Now' = FlushIn(cmds, s, stored, EntryOf(s, code, ok))
<1>1. Keeps(s) <=> KeepsIn(cmds, s)
  BY DEF Keeps, KeepsIn, Ignored, IsShellExit, KindOf, KindIn
<1>2. /\ r' = IF s.open THEN Forget(s) ELSE s
      /\ stored' = IF Keeps(s) THEN Append(stored, EntryOf(s, code, ok)) ELSE stored
  BY DEF Flush, EntryOf
<1>3. QED BY <1>1, <1>2 DEF Now, FlushIn

LEMMA ReadIs ==
  ASSUME Read
  PROVE  /\ ~r.done /\ tty # <<>> /\ tty' = Tail(tty) /\ UNCHANGED <<emit, sh, cmds>>
         /\ Now' = Take(cmds, Now, Head(tty))
<1> DEFINE tok == Head(tty)
           s == DueAt(Now, tok)
           t == [EchoReset(s) EXCEPT !.capturing = FALSE]
<1>1. /\ ~r.done /\ tty # <<>> /\ tty' = Tail(tty) /\ UNCHANGED <<emit, sh, cmds>>
      /\ tok.t = "D" => MarkD(s, tok)
      /\ tok.t # "D" => r' = Observe(s, tok) /\ stored' = stored
  BY DEF Read, DueAt, Now
<1>2. Now.stored = stored
  BY DEF Now
<1>3. CASE tok.t # "D"
  BY <1>1, <1>2, <1>3 DEF Take, Now
<1>4. CASE tok.t = "D" /\ s.capturing
  <2>1. Flush(t, tok.code, tok.ok)
    BY <1>1, <1>4 DEF MarkD
  <2>2. Now' = FlushIn(cmds, t, stored, EntryOf(t, tok.code, tok.ok))
    BY <2>1, FlushIs
  <2>3. QED BY <1>1, <1>2, <1>4, <2>2 DEF Take
<1>5. CASE tok.t = "D" /\ ~s.capturing
  <2>1. r' = EchoReset(s) /\ stored' = stored
    BY <1>1, <1>5 DEF MarkD
  <2>2. QED BY <1>1, <1>2, <1>5, <2>1 DEF Take, Now
<1>6. QED BY <1>3, <1>4, <1>5

LEMMA FinalizeIs ==
  ASSUME Finalize(r)
  PROVE  Now' = End(cmds, Now)
<1>1. IsShellExit(r) <=> KindIn(cmds, r) = "exit"
  BY DEF IsShellExit, KindOf, KindIn
<1>2. [r EXCEPT !.done = TRUE, !.open = @ /\ ~IsShellExit(r)]
        = [r EXCEPT !.done = TRUE, !.open = @ /\ KindIn(cmds, r) # "exit"]
  BY <1>1
<1> DEFINE s == [r EXCEPT !.done = TRUE, !.open = @ /\ KindIn(cmds, r) # "exit"]
<1>3. Flush(s, 0, FALSE)
  BY <1>2 DEF Finalize
<1>4. Now' = FlushIn(cmds, s, stored, EntryOf(s, 0, FALSE))
  BY <1>3, FlushIs
<1>5. QED BY <1>4 DEF End, Now

LEMMA EndIs ==
  ASSUME NEW c \in Histories, NEW x \in State
  PROVE  End(c, x) \in State /\ End(c, x).r.done
<1> DEFINE s == [x.r EXCEPT !.done = TRUE, !.open = @ /\ KindIn(c, x.r) # "exit"]
           e == EntryOf(s, 0, FALSE)
<1>1. x.r \in RState /\ x.stored \in Seq(Entry)
  BY DEF State
<1>2. s \in RState /\ s.done
  BY <1>1 DEF RState
<1> HIDE DEF s
<1>3. Forget(s) \in RState /\ Forget(s).done
  <2>1. <<>> \in Seq(Tokens) /\ 0 \in 0..MaxCommands
    BY RecorderAssumption
  <2>2. QED BY <1>2, <2>1 DEF Forget, RState
<1>4. e \in Entry
  <2>1. 0 \in 0..1 /\ FALSE \in BOOLEAN
    OBVIOUS
  <2>2. QED BY <1>2, <2>1, EntryOfType
<1> HIDE DEF e
<1>5. /\ End(c, x).r = IF s.open THEN Forget(s) ELSE s
      /\ End(c, x).stored = IF KeepsIn(c, s) THEN Append(x.stored, e) ELSE x.stored
      /\ End(c, x) = [r |-> End(c, x).r, stored |-> End(c, x).stored]
  BY DEF End, FlushIn, s, e
<1>6. End(c, x).r \in RState /\ End(c, x).r.done
  BY <1>2, <1>3, <1>5
<1>7. End(c, x).stored \in Seq(Entry)
  BY <1>1, <1>4, <1>5
<1>8. QED BY <1>5, <1>6, <1>7 DEF State

LEMMA ReadsFrom ==
  ASSUME NEW c, NEW x, NEW q \in Seq(AllTokens), NEW y, Reads(c, x, q, y)
  PROVE  Good(c, x) /\ (q = <<>> => x = y)
<1>1. PICK st \in [1..Len(q) + 1 -> State] : Path(c, x, q, y, st)
  BY DEF Reads
<1>2. Len(q) \in Nat /\ 1 \in 1..Len(q) + 1
  OBVIOUS
<1>3. Good(c, x)
  BY <1>1, <1>2 DEF Path
<1>4. q = <<>> => x = y
  <2>1. q = <<>> => Len(q) + 1 = 1
    OBVIOUS
  <2>2. QED BY <1>1, <2>1 DEF Path
<1>5. QED BY <1>3, <1>4

-----------------------------------------------------------------------------
(***************************************************************************)
(* The inductive invariant.                                                *)
(***************************************************************************)
AtEnd ==
  /\ r \in RState /\ stored \in Seq(Entry) /\ (r.buf # <<>> => r.open)
  /\ Right(cmds, stored)

RecInv ==
  /\ ShellInv
  /\ tty \in Seq(AllTokens)
  /\ ~r.done => InStep
  /\ r.done => AtEnd

LEMMA ShellStep ==
  ASSUME RecInv, Shell
  PROVE  RecInv'
<1>1. ShellInv /\ tty \in Seq(AllTokens) /\ UNCHANGED <<emit, r, stored>>
  BY DEF RecInv, Shell, ShowPrompt, Idle, Background, WriteText, SwitchScreen, Toggle, Exit, Die,
         Run, Finish
<1>2. ShellInv' /\ \E toks : Writes(toks)
  <2>1. CASE ShowPrompt
    BY <1>1, <2>1, SameHistoryShell, PromptWrites DEF ShowPrompt
  <2>2. CASE Idle
    BY <1>1, <2>2, SameHistoryShell, IdleWrites DEF Idle
  <2>3. CASE Background
    BY <1>1, <2>3, SameHistoryShell, BackgroundWrites DEF Background
  <2>4. CASE WriteText
    BY <1>1, <2>4, TextShell, TextWrites
  <2>5. CASE SwitchScreen
    BY <1>1, <2>5, SameHistoryShell, ScreenWrites DEF SwitchScreen
  <2>6. CASE Toggle
    BY <1>1, <2>6, SameHistoryShell, ToggleWrites DEF Toggle
  <2>7. CASE Exit
    BY <1>1, <2>7, SameHistoryShell, ExitWrites DEF Exit
  <2>8. CASE Die
    BY <1>1, <2>8, SameHistoryShell, DieWrites DEF Die
  <2>9. ASSUME NEW kind \in Kinds, Run(kind) PROVE ShellInv' /\ \E toks : Writes(toks)
    BY <1>1, <2>9, RunShell, RunWrites
  <2>10. ASSUME NEW code \in 0..1, Finish(code) PROVE ShellInv' /\ \E toks : Writes(toks)
    BY <1>1, <2>10, FinishShell, FinishWrites
  <2>11. QED BY <2>1, <2>2, <2>3, <2>4, <2>5, <2>6, <2>7, <2>8, <2>9, <2>10 DEF Shell
<1>3. PICK toks : Writes(toks)
  BY <1>2
<1>4. tty' \in Seq(AllTokens)
  <2>1. toks \in Seq(AllTokens) /\ tty' = tty \o toks
    BY <1>3 DEF Writes, Leads
  <2>2. QED BY <1>1, <2>1
<1>5. ASSUME ~r'.done PROVE InStep'
  BY <1>1, <1>3, <1>5, WritesInStep DEF RecInv
<1>6. ASSUME r'.done PROVE AtEnd'
  <2>1. AtEnd /\ Later(cmds, cmds')
    BY <1>1, <1>3, <1>6 DEF RecInv, Writes
  <2>2. Right(cmds', stored)
    BY <2>1, LaterRight DEF AtEnd
  <2>3. QED BY <1>1, <2>1, <2>2 DEF AtEnd
<1>7. QED BY <1>2, <1>4, <1>5, <1>6 DEF RecInv

LEMMA ReadStep ==
  ASSUME RecInv, Read
  PROVE  RecInv'
<1>1. /\ ~r.done /\ tty # <<>> /\ tty' = Tail(tty) /\ UNCHANGED <<emit, sh, cmds>>
      /\ Now' = Take(cmds, Now, Head(tty))
  BY ReadIs
<1>2. tty \in Seq(AllTokens) /\ tty' \in Seq(AllTokens) /\ ShellInv /\ InStep
  BY <1>1 DEF RecInv
<1>3. ShellInv'
  BY <1>1, <1>2, SameHistoryShell
<1>4. PICK y \in Synced(cmds, sh) : Reads(cmds, Now, tty, y)
  BY <1>2 DEF InStep
<1>5. Reads(cmds, Take(cmds, Now, Head(tty)), Tail(tty), y)
  BY <1>1, <1>2, <1>4, ReadOff
<1>6. Good(cmds, Take(cmds, Now, Head(tty)))
  BY <1>1, <1>2, <1>5, ReadsFrom
<1>7. ~r'.done
  <2>1. ~Now'.r.done
    BY <1>1, <1>6 DEF Good
  <2>2. QED BY <2>1 DEF Now
<1>8. InStep'
  <2>1. Synced(cmds, sh)' = Synced(cmds, sh)
    BY <1>1 DEF Synced, Around, Emits, Closed, Prompted
  <2>2. Reads(cmds, Now, tty, y)'
    BY <1>1, <1>5
  <2>3. QED BY <1>4, <2>1, <2>2 DEF InStep
<1>9. QED BY <1>2, <1>3, <1>7, <1>8 DEF RecInv

LEMMA FinalizeStep ==
  ASSUME RecInv, ~r.done, Finalize(r), tty' = tty \/ (tty' = Tail(tty) /\ tty # <<>>),
         UNCHANGED <<emit, sh, cmds>>
  PROVE  RecInv' /\ r'.done
<1>1. tty \in Seq(AllTokens) /\ tty' \in Seq(AllTokens) /\ ShellInv /\ InStep
  BY DEF RecInv
<1>2. ShellInv'
  BY <1>1, SameHistoryShell
<1>3. Good(cmds, Now)
  BY <1>1, ReadsFrom DEF InStep
<1>4. cmds \in Histories
  BY <1>1, ShellKnows
<1>5. Now' = End(cmds, Now) /\ Now'.r = r' /\ Now'.stored = stored'
  BY FinalizeIs DEF Now
<1>6. Now' \in State /\ r'.done
  BY <1>3, <1>4, <1>5, EndIs DEF Good
<1>7. (r'.buf # <<>> => r'.open) /\ Right(cmds, stored')
  BY <1>3, <1>5 DEF Good
<1>8. AtEnd'
  BY <1>5, <1>6, <1>7 DEF AtEnd, State
<1>9. QED BY <1>1, <1>2, <1>6, <1>8 DEF RecInv

LEMMA RecInit ==
  ASSUME Init
  PROVE  RecInv
<1>1. ShellInv
  BY InitShell
<1>2. tty = <<>> /\ tty \in Seq(AllTokens) /\ cmds = <<>> /\ stored = <<>> /\ ~r.done
  BY DEF Init
<1>3. /\ r \in RState /\ ~r.open /\ ~r.capturing /\ r.buf = <<>> /\ r.phase = "off"
      /\ r.echo = <<>> /\ ~r.paused /\ Names(r) = {0} /\ ~r.garbled
  <2>1. <<>> \in Seq(Tokens) /\ 0 \in 0..MaxCommands
    BY RecorderAssumption
  <2>2. QED BY <2>1 DEF Init, RState, Names
<1>4. cmds \in Histories /\ Len(cmds) = 0
  BY <1>1, <1>2, ShellKnows
<1>5. Now \in State
  BY <1>2, <1>3 DEF Now, State
<1>6. Right(cmds, stored) /\ KeptUpTo(cmds, stored, Len(cmds))
  BY <1>2, <1>4 DEF Right, UpTo, Bare, KeptUpTo
<1>7. Now \in Outside(cmds, sh.off)
  <2>1. ~sh.off
    BY DEF Init
  <2>2. KeysOf(r, {0})
    BY <1>3 DEF KeysOf
  <2>3. QED BY <1>2, <1>3, <1>5, <1>6, <2>1, <2>2 DEF Outside, Now
<1>8. Now \in Silent
  BY <1>2, <1>3, <1>5 DEF Silent, Now
<1>9. Now \in Synced(cmds, sh)
  BY <1>7, <1>8 DEF Synced, Around, Init
<1>10. Good(cmds, Now)
  BY <1>4, <1>7, GoodStates
<1>11. Reads(cmds, Now, tty, Now)
  BY <1>2, <1>10, ReadNothing
<1>12. QED BY <1>1, <1>2, <1>9, <1>11 DEF RecInv, InStep

LEMMA RecStep ==
  ASSUME RecInv, [Next]_vars
  PROVE  RecInv'
<1>1. CASE Shell
  BY <1>1, ShellStep
<1>2. CASE Read
  BY <1>2, ReadStep
<1>3. CASE ReadEOF \/ WriteFails
  <2>1. /\ ~r.done /\ Finalize(r) /\ UNCHANGED <<emit, sh, cmds>>
        /\ tty' = tty \/ (tty' = Tail(tty) /\ tty # <<>>)
    BY <1>3 DEF ReadEOF, WriteFails
  <2>2. QED BY <2>1, FinalizeStep
<1>4. CASE UNCHANGED vars
  <2>1. ShellInv'
    BY <1>4, SameHistoryShell DEF vars, RecInv
  <2>2. Now' = Now /\ Synced(cmds, sh)' = Synced(cmds, sh)
    BY <1>4 DEF vars, Now, Synced, Around, Emits, Closed, Prompted
  <2>3. InStep' = InStep
    BY <1>4, <2>2 DEF vars, InStep
  <2>4. QED BY <1>4, <2>1, <2>3 DEF vars, RecInv, AtEnd
<1>5. QED BY <1>1, <1>2, <1>3, <1>4 DEF Next, Loop

THEOREM Recorded == Spec => []RecInv
<1>1. Init => RecInv
  BY RecInit
<1>2. RecInv /\ [Next]_vars => RecInv'
  BY RecStep
<1>3. QED BY <1>1, <1>2, PTL DEF Spec

\* Type correctness of the recorder and of what it keeps, under any shell.
THEOREM TypeHolds == Spec => []TypeOK
<1>1. ASSUME RecInv PROVE TypeOK
  <2>1. ShellInv /\ cmds \in Histories
    BY <1>1, ShellKnows DEF RecInv
  <2>2. /\ sh \in [pc : {"ready", "prompt", "running", "exiting", "dead"},
                   ran : 0..MaxCommands, code : 0..1, off : BOOLEAN, idle : 0..MaxIdle,
                   alt : BOOLEAN, noise : BOOLEAN]
        /\ Len(cmds) <= MaxCommands
    BY <2>1 DEF ShellInv, ShellTypes, Histories
  <2>3. /\ r \in RState /\ stored \in Seq(Entry) /\ (r.buf # <<>> => r.open)
        /\ r.capturing /\ ~r.done => r.open
    <3>1. CASE r.done
      BY <1>1, <3>1 DEF RecInv, AtEnd
    <3>2. CASE ~r.done
      <4>1. Good(cmds, Now)
        BY <1>1, <3>2, ReadsFrom DEF RecInv, InStep
      <4>2. QED BY <4>1 DEF Good, State, Now
    <3>3. QED BY <3>1, <3>2
  <2>4. Elems(r.buf) \cup Elems(r.echo) \subseteq Tokens
    <3>1. r.buf \in Seq(Tokens) /\ r.echo \in Seq(Tokens)
      BY <2>3 DEF RState
    <3>2. QED BY <3>1 DEF Elems
  <2>5. \A e \in Elems(stored) : e.name \in 0..MaxCommands /\ Elems(e.out) \subseteq Tokens
    <3>1. \A e \in Elems(stored) : e \in Entry
      BY <2>3 DEF Elems
    <3>2. \A e \in Entry : e.name \in 0..MaxCommands /\ e.out \in Seq(Tokens)
      BY DEF Entry
    <3>3. QED BY <3>1, <3>2 DEF Elems
  <2>6. /\ r.phase \in {"off", "prompt", "input"} /\ {r.input, r.garbled} \subseteq BOOLEAN
        /\ {r.cmd, r.hint, r.echoed, r.wez, r.cwd} \subseteq 0..MaxCommands
    BY <2>3 DEF RState
  <2>7. QED BY <2>2, <2>3, <2>4, <2>5, <2>6 DEF TypeOK
<1>2. QED BY <1>1, Recorded, PTL

LEMMA StoredRight ==
  ASSUME RecInv
  PROVE  Right(cmds, stored) /\ stored \in Seq(Entry)
<1>1. CASE r.done
  BY <1>1 DEF RecInv, AtEnd
<1>2. CASE ~r.done
  <2>1. Good(cmds, Now)
    BY <1>2, ReadsFrom DEF RecInv, InStep
  <2>2. QED BY <2>1 DEF Good, State, Now
<1>3. QED BY <1>1, <1>2

\* Whatever integrations the shell has, in whichever order their hooks run,
\* and at whichever token the recorder is made to stop: what is stored is true
\* of one command each, in the order in which they were run, except for the
\* texts and the phantoms that a garbled echo makes; and a command that has run
\* to its end has no garbled text if the stream tells its own (Run's flush,
\* parser.go markC and markD).
THEOREM AttributionHolds == Spec => []Attribution
<1>1. ASSUME RecInv PROVE Attribution
  <2>1. UpTo(cmds, stored, Len(cmds))
    BY <1>1, StoredRight DEF Right
  <2>2. QED BY <2>1 DEF UpTo, TrueEntry, Attribution, Elems
<1>2. QED BY <1>1, Recorded, PTL

\* Without a command line that switches recording in its midst, nothing
\* written while recording is off is stored.
THEOREM PausedNotStoredHolds ==
  ASSUME "script" \notin Kinds
  PROVE  Spec => []PausedNotStored
<1>1. ASSUME RecInv PROVE PausedNotStored
  <2>1. \A i \in DOMAIN stored : Shown(stored[i].out)
    BY <1>1, StoredRight DEF Right, Bare
  <2>2. QED BY <2>1 DEF PausedNotStored, Elems, Shown
<1>2. QED BY <1>1, Recorded, PTL

\* When the recorder has caught up with a shell at its prompt, every command
\* that an entry is due for has one, whole (Run's copy loop).
THEOREM CompleteHolds == Spec => []Complete
<1>1. ASSUME RecInv PROVE Complete
  <2>1. ASSUME ~r.done, tty = <<>>, sh.pc = "prompt", NEW n \in DOMAIN cmds, Recordable(n)
        PROVE  \E e \in Elems(stored) :
                 /\ Subject(e) = n
                 /\ cmds[n].told => e.name = n /\ ~e.garbled
                 /\ Len(e.out) = cmds[n].shown
    <3>1. PICK y \in Synced(cmds, sh) : Reads(cmds, Now, tty, y)
      BY <1>1, <2>1 DEF RecInv, InStep
    <3>2. Now = y
      BY <1>1, <2>1, <3>1, ReadsFrom DEF RecInv
    <3>3. Emits
      BY <2>1 DEF Recordable, Emits
    <3>4. Now \in Prompting(cmds, sh.off, {"cwd"})
      BY <2>1, <3>1, <3>2, <3>3, AtPrompt
    <3>5. cmds \in Histories
      BY <1>1, ShellKnows DEF RecInv
    <3>6. KeptUpTo(cmds, stored, Len(cmds))
      BY <3>4 DEF Prompting, Outside, Now
    <3>7. n \in 1..Len(cmds) /\ Wanted(cmds[n])
      BY <2>1, <3>5 DEF Recordable, Wanted, Histories
    <3>8. QED BY <3>6, <3>7 DEF KeptUpTo, Tells, Elems
  <2>2. QED BY <2>1 DEF Complete
<1>2. QED BY <1>1, Recorded, PTL

\* The loop's end stores what a plain command has put out, all of it.
LEMMA EndKeeps ==
  ASSUME NEW c \in Histories, NEW off,
         NEW x, x \in Outside(c, off) \/ (Len(c) >= 1 /\ x \in Inside(c, off)),
         NEW n \in 1..Len(c), c[n].kind = "plain", ~c[n].off, c[n].shown > 0,
         n = Len(c) => ~off
  PROVE  \E e \in Elems(End(c, x).stored) : Subject(e) = n /\ Len(e.out) = c[n].shown
<1> DEFINE s == [x.r EXCEPT !.done = TRUE, !.open = @ /\ KindIn(c, x.r) # "exit"]
           e == EntryOf(s, 0, FALSE)
           q == End(c, x).stored
<1>1. x \in State /\ x.r \in RState /\ x.stored \in Seq(Entry) /\ Len(c) \in Nat
  BY DEF Outside, Inside, State, Histories
<1>2. /\ s \in RState /\ s.buf = x.r.buf /\ (s.paused <=> x.r.paused)
      /\ (s.garbled <=> x.r.garbled) /\ s.cmd = x.r.cmd /\ s.hint = x.r.hint
      /\ Names(s) = Names(x.r) /\ CmdName(s) = CmdName(x.r)
      /\ s.open <=> (x.r.open /\ KindIn(c, x.r) # "exit")
  BY <1>1 DEF RState, Names, CmdName
<1>3. q = IF KeepsIn(c, s) THEN Append(x.stored, e) ELSE x.stored
  BY DEF End, FlushIn
<1>4. Wanted(c[n])
  BY DEF Wanted, Matching
<1> HIDE DEF s, e, q
<1>5. Elems(x.stored) \subseteq Elems(q)
  <2>1. \A i \in DOMAIN x.stored : i \in DOMAIN q /\ q[i] = x.stored[i]
    BY <1>1, <1>3
  <2>2. QED BY <2>1 DEF Elems
<1>6. ASSUME NEW k, KeptUpTo(c, x.stored, k), n \in 1..k
      PROVE  \E d \in Elems(q) : Subject(d) = n /\ Len(d.out) = c[n].shown
  <2>1. PICK i \in DOMAIN x.stored : Tells(c[n], n, x.stored[i])
    BY <1>4, <1>6 DEF KeptUpTo
  <2>2. x.stored[i] \in Elems(q)
    BY <1>5 DEF Elems
  <2>3. QED BY <2>1, <2>2 DEF Tells
<1>7. CASE x \in Outside(c, off)
  BY <1>6, <1>7 DEF Outside, q
<1>8. CASE Len(c) >= 1 /\ x \in Inside(c, off) /\ n # Len(c)
  <2>1. n \in 1..Len(c) - 1 /\ KeptUpTo(c, x.stored, Len(c) - 1)
    BY <1>1, <1>8 DEF Inside
  <2>2. QED BY <1>6, <2>1 DEF q
<1>9. CASE Len(c) >= 1 /\ x \in Inside(c, off) /\ n = Len(c)
  <2>1. /\ ~x.r.paused /\ x.r.open /\ Names(x.r) \subseteq {0, n} /\ OutOf(x.r.buf, n)
        /\ Len(x.r.buf) = c[n].shown
    BY <1>9 DEF Inside
  <2>2. s.buf \in Seq(Tokens) /\ s.buf # <<>>
    <3>1. s.buf \in Seq(Tokens) /\ Len(s.buf) > 0
      BY <1>2, <2>1 DEF RState
    <3>2. QED BY <3>1
  <2>3. KindIn(c, s) \in {"empty", "plain", "garbled"} /\ KindIn(c, x.r) = KindIn(c, s)
    <3>1. CmdName(s) \in {0, n} /\ (Garbled(s) <=> Garbled(x.r))
      BY <1>2, <2>1 DEF CmdName, Names, Garbled
    <3>2. QED BY <1>2, <3>1 DEF KindIn
  <2>4. KeepsIn(c, s)
    BY <1>2, <2>1, <2>2, <2>3 DEF KeepsIn, Matching
  <2>5. Subject(e) = n /\ e.out = s.buf
    <3>1. n \in Nat /\ n # 0
      BY <1>1
    <3>2. OutOf(s.buf, n) /\ Names(s) \subseteq {0, n}
      BY <1>2, <2>1
    <3>3. QED BY <2>2, <3>1, <3>2, SubjectIs DEF e
  <2>6. e \in Elems(q)
    <3>1. q = Append(x.stored, e)
      BY <1>3, <2>4
    <3>2. Len(x.stored) + 1 \in DOMAIN q /\ q[Len(x.stored) + 1] = e
      BY <1>1, <3>1
    <3>3. QED BY <3>2 DEF Elems
  <2>7. QED BY <1>2, <2>1, <2>5, <2>6 DEF q
<1>10. QED BY <1>7, <1>8, <1>9

-----------------------------------------------------------------------------
(***************************************************************************)
(* The two scenarios.  Where the terminal stays, the loop ends only when   *)
(* the shell is gone and all it wrote has been read.                       *)
(***************************************************************************)
Ended == r.done => sh.pc = "dead" /\ tty = <<>> /\ KeptAtEnd

ScenInv ==
  /\ RecInv
  /\ scenario = "emitters" => Ended

LEMMA EOFKeeps ==
  ASSUME RecInv, ReadEOF
  PROVE  Ended'
<1>1. /\ ~r.done /\ tty = <<>> /\ sh.pc = "dead" /\ Finalize(r)
      /\ UNCHANGED <<emit, sh, tty, cmds>>
  BY DEF ReadEOF
<1>2. ShellInv /\ cmds \in Histories /\ Len(cmds) \in Nat
  BY ShellKnows DEF RecInv
<1>3. PICK y \in Synced(cmds, sh) : Reads(cmds, Now, tty, y)
  BY <1>1 DEF RecInv, InStep
<1>4. Now \in Synced(cmds, sh)
  <2>1. tty \in Seq(AllTokens) /\ tty = <<>>
    BY <1>1 DEF RecInv
  <2>2. Now = y
    BY <1>3, <2>1, ReadsFrom
  <2>3. QED BY <2>2
<1>5. Now' = End(cmds, Now) /\ stored' = Now'.stored
  BY <1>1, FinalizeIs DEF Now
<1>6. ASSUME NEW n \in DOMAIN cmds, cmds[n].kind = "plain", Recordable(n), cmds[n].wrote > 0
      PROVE  \E e \in Elems(stored') : Subject(e) = n /\ Len(e.out) = cmds[n].wrote
  <2>1. Emits /\ ~cmds[n].off /\ n \in 1..Len(cmds)
    BY <1>2, <1>6 DEF Recordable, Emits, Histories
  <2>2. Now \in Outside(cmds, sh.off) \/ (Len(cmds) >= 1 /\ Now \in Inside(cmds, sh.off))
    BY <1>1, <1>4, <2>1 DEF Synced, Around
  <2>3. cmds[n].shown = cmds[n].wrote
    BY <1>2, <1>6, <2>1 DEF ShellInv, Screens
  <2>4. n = Len(cmds) => ~sh.off
    <3>1. ASSUME n = Len(cmds) PROVE Last = cmds[n] /\ cmds # <<>>
      BY <2>1, <3>1 DEF Last
    <3>2. QED BY <1>2, <1>6, <2>1, <3>1 DEF ShellInv, Switches
  <2>5. \E e \in Elems(End(cmds, Now).stored) : Subject(e) = n /\ Len(e.out) = cmds[n].shown
    BY <1>2, <1>6, <2>1, <2>2, <2>3, <2>4, EndKeeps
  <2>6. QED BY <1>5, <2>3, <2>5
<1>7. ASSUME NEW n \in DOMAIN cmds PROVE Taken(n)' = cmds[n].wrote
  <2>1. {i \in DOMAIN tty' : tty'[i].t = "text" /\ tty'[i].by = n} = {}
    BY <1>1
  <2>2. Cardinality({}) = 0
    BY FS_EmptySet
  <2>3. cmds[n].wrote \in Nat
    <3>1. cmds[n] \in Command
      BY <1>2, <1>7 DEF Histories
    <3>2. QED BY <3>1 DEF Command
  <2>4. QED BY <1>1, <2>1, <2>2, <2>3 DEF Taken
<1>8. KeptAtEnd'
  <2>1. ASSUME NEW n \in DOMAIN cmds, cmds[n].kind = "plain", Recordable(n)', Taken(n)' > 0
        PROVE  \E e \in Elems(stored') : Subject(e) = n /\ Len(e.out) = Taken(n)'
    <3>1. Recordable(n)
      BY <1>1, <2>1 DEF Recordable
    <3>2. QED BY <1>6, <1>7, <2>1, <3>1
  <2>2. QED BY <1>1, <2>1 DEF KeptAtEnd
<1>9. QED BY <1>1, <1>8 DEF Ended

LEMMA ScenStep ==
  ASSUME ScenInv, [NextScenarios]_<<vars, scenario>>
  PROVE  ScenInv'
<1>1. scenario' = scenario /\ [Next]_vars
  BY DEF NextScenarios, Next, Loop, vars
<1>2. RecInv /\ RecInv'
  BY <1>1, RecStep DEF ScenInv
<1>3. ASSUME scenario = "emitters" PROVE Ended'
  <2>1. Ended
    BY <1>3 DEF ScenInv
  <2>2. CASE ReadEOF
    BY <1>2, <2>2, EOFKeeps
  <2>3. CASE Read
    <3>1. ~r'.done
      <4>1. ~r.done /\ Now' = Take(cmds, Now, Head(tty)) /\ tty # <<>>
        BY <2>3, ReadIs
      <4>2. PICK y \in Synced(cmds, sh) : Reads(cmds, Now, tty, y)
        BY <1>2, <4>1 DEF RecInv, InStep
      <4>3. tty \in Seq(AllTokens) /\ Tail(tty) \in Seq(AllTokens)
        BY <1>2, <4>1 DEF RecInv
      <4>4. Good(cmds, Now')
        BY <4>1, <4>2, <4>3, ReadOff, ReadsFrom
      <4>5. QED BY <4>4 DEF Good, Now
    <3>2. QED BY <3>1 DEF Ended
  <2>4. CASE Shell
    <3>1. r' = r
      BY <2>4 DEF Shell, ShowPrompt, Idle, Background, WriteText, SwitchScreen, Toggle, Exit, Die,
                  Run, Finish
    <3>2. sh.pc # "dead"
      <4>1. Running # 0 => sh.pc = "running"
        BY DEF Running
      <4>2. QED BY <2>4, <4>1 DEF Shell, ShowPrompt, Idle, Background, WriteText, SwitchScreen,
                                   Toggle, Exit, Die, Run, Finish
    <3>3. QED BY <2>1, <3>1, <3>2 DEF Ended
  <2>5. CASE UNCHANGED <<vars, scenario>>
    BY <2>1, <2>5 DEF vars, Ended, KeptAtEnd, Recordable, Taken
  <2>6. QED BY <1>3, <2>2, <2>3, <2>4, <2>5 DEF NextScenarios
<1>4. QED BY <1>1, <1>2, <1>3 DEF ScenInv

\* While writing to the terminal does not fail, the recorder that stops has
\* stored all that plain commands wrote, be their shell killed in their midst
\* (Run's finalizer).
THEOREM KeptIfWritableHolds == SpecScenarios => []KeptIfWritable
<1>1. InitScenarios => ScenInv
  BY RecInit DEF InitScenarios, ScenInv, Ended, Init
<1>2. ScenInv /\ [NextScenarios]_<<vars, scenario>> => ScenInv'
  BY ScenStep
<1>3. ScenInv => KeptIfWritable
  BY DEF ScenInv, Ended, KeptIfWritable, KeptAtEnd
<1>4. QED BY <1>1, <1>2, <1>3, PTL DEF SpecScenarios

\* What is proved of Spec holds in both scenarios.
THEOREM ScenariosAreRuns == SpecScenarios => Spec
<1>1. InitScenarios => Init
  BY DEF InitScenarios
<1>2. [NextScenarios]_<<vars, scenario>> => [Next]_vars
  BY DEF NextScenarios, Next, Loop, vars
<1>3. QED BY <1>1, <1>2, PTL DEF SpecScenarios, Spec
=============================================================================
