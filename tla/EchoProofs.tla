----------------------------- MODULE EchoProofs -----------------------------
(***************************************************************************)
(* Proofs about EchoLine, for every terminal size and every line: the grid *)
(* stays within its bounds (GridOK), and a line killed with Ctrl-C is      *)
(* never read back as a command (KilledNotRead).                           *)
(***************************************************************************)
EXTENDS MCEcho, WellFoundedInduction, TLAPS

Less == {ss \in Nat \X Nat : ss[1] < ss[2]}

\* What holds of 0, and with n of n + 1, holds of every natural number.
LEMMA Induct ==
  ASSUME NEW T, 0 \in T, \A n \in Nat : n \in T => n + 1 \in T
  PROVE  Nat \subseteq T
<1> DEFINE U == {n \in Nat : n \notin T}
<1>1. IsWellFoundedOn(Less, Nat)
  BY NatLessThanWellFounded DEF OpToRel, Less
<1>2. ASSUME U # {} PROVE FALSE
  <2>1. \E n \in U : \A m \in U : ~(<<m, n>> \in Less)
    BY <1>1, <1>2, WFMin
  <2> HIDE DEF U
  <2>2. U \subseteq Nat
    BY DEF U
  <2>3. PICK n \in U : \A m \in U : ~(<<m, n>> \in Less)
    BY <2>1
  <2>4. \A k, m \in Nat : ~(<<k, m>> \in Less) => m <= k
    BY DEF Less
  <2>5. \A m \in U : n <= m
    BY <2>2, <2>4, <2>3
  <2>6. n # 0 /\ n - 1 \in Nat /\ n - 1 \notin U
    BY <2>2, <2>5 DEF U
  <2>7. n - 1 \in T
    BY <2>6 DEF U
  <2>8. n \in T
    BY <2>2, <2>6, <2>7, n = (n - 1) + 1
  <2>9. QED BY <2>8 DEF U
<1>3. QED BY <1>2

-----------------------------------------------------------------------------
Names == {"cr", "lf", "bs", "tab", "reverse index", "index", "next line", "save", "restore",
          "alt on", "alt off", "paste off", "phase P", "phase B"}
Finals == {"A", "B", "C", "D", "G", "K", "J", "P", "@", "X", "L", "M", "H", "f", "d", "r", "S", "T"}
Glyph == STRING \cup {Nul, " ", "$", "m", "^", "C"}
Token == [op : Names] \cup [op : {"put"}, ch : Glyph]
         \cup [op : {"csi"}, final : Finals, n : Int]

(***************************************************************************)
(* Feed is a function of the tokens fed so far.                            *)
(***************************************************************************)

\* after is the screen after each token.
Replay(s, q, after) ==
  after = [i \in 0 .. Len(q) |-> IF i = 0 THEN s ELSE Apply(after[i - 1], q[i])]

LEMMA ReplayIs ==
  ASSUME NEW s, NEW q \in Seq(Token), NEW after
  PROVE  Replay(s, q, after) <=>
           /\ after = [i \in 0 .. Len(q) |-> after[i]]
           /\ after[0] = s
           /\ \A i \in 1 .. Len(q) : after[i] = Apply(after[i - 1], q[i])
BY DEF Replay

\* There is one, whatever is fed.
LEMMA ReplayExists ==
  ASSUME NEW s, NEW q \in Seq(Token)
  PROVE  \E after : Replay(s, q, after)
<1> DEFINE Upto(n, a) ==
      /\ a = [i \in 0 .. n |-> a[i]]
      /\ a[0] = s /\ \A i \in 1 .. n : a[i] = Apply(a[i - 1], q[i])
<1> DEFINE T == {n \in Nat : \E a : Upto(n, a)}
<1>1. 0 \in T
  <2>1. Upto(0, [i \in 0 .. 0 |-> s])
    OBVIOUS
  <2>2. QED BY <2>1
<1>2. ASSUME NEW n \in Nat, n \in T PROVE n + 1 \in T
  <2>1. PICK a : Upto(n, a)
    BY <1>2
  <2> DEFINE b == [i \in 0 .. n + 1 |-> IF i = n + 1 THEN Apply(a[n], q[n + 1]) ELSE a[i]]
  <2>2. b = [i \in 0 .. n + 1 |-> b[i]]
    OBVIOUS
  <2>3. b[0] = s
    BY <2>1
  <2>4. \A i \in 1 .. n + 1 : b[i] = Apply(b[i - 1], q[i])
    <3>1. TAKE i \in 1 .. n + 1
    <3>2. CASE i = n + 1
      <4>1. b[i] = Apply(a[n], q[n + 1]) /\ b[i - 1] = a[n]
        BY <3>2
      <4>2. QED BY <3>2, <4>1
    <3>3. CASE i # n + 1
      <4>1. b[i] = a[i] /\ b[i - 1] = a[i - 1] /\ i \in 1 .. n
        BY <3>3
      <4>2. QED BY <2>1, <4>1
    <3>4. QED BY <3>2, <3>3
  <2>5. Upto(n + 1, b)
    BY <2>2, <2>3, <2>4
  <2> HIDE DEF b, Upto
  <2>6. QED BY <2>5
<1>3. Len(q) \in T
  <2> HIDE DEF T
  <2>1. Nat \subseteq T
    BY <1>1, <1>2, Induct
  <2>2. QED BY <2>1
<1>4. PICK a : Upto(Len(q), a)
  BY <1>3
<1>5. Replay(s, q, a)
  BY <1>4, ReplayIs
<1>6. QED BY <1>5

\* What Feed returns is the end of it.
LEMMA FeedIs ==
  ASSUME NEW s, NEW q \in Seq(Token)
  PROVE  \E after : Replay(s, q, after) /\ Feed(s, q) = after[Len(q)]
<1> DEFINE after == CHOOSE a : Replay(s, q, a)
<1>1. Replay(s, q, after)
  BY ReplayExists
<1>2. Feed(s, q) = after[Len(q)]
  BY DEF Feed, Replay
<1>3. QED BY <1>1, <1>2

\* Two replays that begin alike go on alike.
LEMMA ReplayUnique ==
  ASSUME NEW s, NEW p \in Seq(Token), NEW q \in Seq(Token), Len(p) <= Len(q),
         \A i \in 1 .. Len(p) : p[i] = q[i],
         NEW a, Replay(s, p, a), NEW b, Replay(s, q, b)
  PROVE  \A i \in 0 .. Len(p) : a[i] = b[i]
<1> DEFINE T == {n \in Nat : n \in 0 .. Len(p) => a[n] = b[n]}
<1>1. a[0] = s /\ \A i \in 1 .. Len(p) : a[i] = Apply(a[i - 1], p[i])
  <2>1. p \in Seq(Token) /\ Replay(s, p, a)
    OBVIOUS
  <2>2. QED BY ONLY <2>1, ReplayIs
<1>2. b[0] = s /\ \A i \in 1 .. Len(q) : b[i] = Apply(b[i - 1], q[i])
  <2>1. q \in Seq(Token) /\ Replay(s, q, b)
    OBVIOUS
  <2>2. 0 \in 0 .. Len(q) /\ \A i \in 1 .. Len(q) : i \in 0 .. Len(q) /\ i # 0
    BY <2>1
  <2>3. QED BY ONLY <2>1, <2>2 DEF Replay
<1>3. 0 \in T
  BY <1>1, <1>2
<1>4. ASSUME NEW n \in Nat, n \in T PROVE n + 1 \in T
  <2>1. SUFFICES ASSUME n + 1 \in 0 .. Len(p) PROVE a[n + 1] = b[n + 1]
    OBVIOUS
  <2>2. a[n] = b[n] /\ n + 1 \in 1 .. Len(p) /\ n + 1 \in 1 .. Len(q) /\ p[n + 1] = q[n + 1]
    BY <1>4, <2>1
  <2>3. a[n + 1] = Apply(a[(n + 1) - 1], p[n + 1]) /\ b[n + 1] = Apply(b[(n + 1) - 1], q[n + 1])
    BY <1>1, <1>2, <2>2
  <2>4. (n + 1) - 1 = n
    OBVIOUS
  <2>5. QED BY <2>2, <2>3, <2>4
<1>5. QED
  <2> HIDE DEF T
  <2>1. Nat \subseteq T
    BY <1>3, <1>4, Induct
  <2>2. QED BY <2>1 DEF T

LEMMA FeedNothing ==
  ASSUME NEW s PROVE Feed(s, <<>>) = s
<1>1. <<>> \in Seq(Token) /\ Len(<<>>) = 0
  OBVIOUS
<1>2. PICK a : Replay(s, <<>>, a) /\ Feed(s, <<>>) = a[0]
  BY <1>1, FeedIs
<1>3. QED BY <1>1, <1>2, ReplayIs

\* Token by token.
LEMMA FeedLast ==
  ASSUME NEW s, NEW q \in Seq(Token), NEW t \in Token
  PROVE  Feed(s, Append(q, t)) = Apply(Feed(s, q), t)
<1>1. PICK a : Replay(s, q, a) /\ Feed(s, q) = a[Len(q)]
  BY FeedIs
<1> DEFINE r == Append(q, t)
<1>2. r \in Seq(Token) /\ Len(r) = Len(q) + 1 /\ r[Len(q) + 1] = t /\ \A i \in 1 .. Len(q) : q[i] = r[i]
  OBVIOUS
<1> HIDE DEF r
<1>3. PICK b : Replay(s, r, b) /\ Feed(s, r) = b[Len(r)]
  BY <1>2, FeedIs
<1>4. a[Len(q)] = b[Len(q)]
  <2>1. \A i \in 0 .. Len(q) : a[i] = b[i]
    <3>1. Len(q) <= Len(r)
      BY <1>2
    <3>2. QED BY ONLY <1>1, <1>2, <1>3, <3>1, q \in Seq(Token), ReplayUnique
  <2>2. QED BY <2>1
<1>5. b[Len(q) + 1] = Apply(b[(Len(q) + 1) - 1], r[Len(q) + 1])
  BY <1>2, <1>3, ReplayIs
<1>6. (Len(q) + 1) - 1 = Len(q)
  OBVIOUS
<1>7. QED BY <1>1, <1>2, <1>3, <1>4, <1>5, <1>6 DEF r

\* What every token keeps, Feed keeps.
LEMMA FeedKeeps ==
  ASSUME NEW X, NEW S, S \subseteq Token, \A x \in X, t \in S : Apply(x, t) \in X,
         NEW s \in X, NEW q \in Seq(S)
  PROVE  Feed(s, q) \in X
<1>1. q \in Seq(Token)
  OBVIOUS
<1>2. PICK a : Replay(s, q, a) /\ Feed(s, q) = a[Len(q)]
  BY <1>1, FeedIs
<1>3. a[0] = s /\ \A i \in 1 .. Len(q) : a[i] = Apply(a[i - 1], q[i])
  BY <1>1, <1>2, ReplayIs
<1> DEFINE T == {n \in Nat : n \in 0 .. Len(q) => a[n] \in X}
<1>4. 0 \in T
  BY <1>3
<1>5. ASSUME NEW n \in Nat, n \in T PROVE n + 1 \in T
  <2>1. SUFFICES ASSUME n + 1 \in 0 .. Len(q) PROVE a[n + 1] \in X
    OBVIOUS
  <2>2. a[n] \in X /\ n + 1 \in 1 .. Len(q) /\ q[n + 1] \in S
    BY <1>5, <2>1
  <2>3. a[n + 1] = Apply(a[(n + 1) - 1], q[n + 1]) /\ (n + 1) - 1 = n
    BY <1>3, <2>2
  <2>4. QED BY <2>2, <2>3
<1>6. Nat \subseteq T
  <2> HIDE DEF T
  <2>1. QED BY <1>4, <1>5, Induct
<1>7. Len(q) \in T
  BY <1>6
<1>8. QED BY <1>2, <1>7

\* What is fed in two goes is fed in one.
LEMMA FeedConcat ==
  ASSUME NEW s, NEW p \in Seq(Token), NEW q \in Seq(Token)
  PROVE  Feed(s, p \o q) = Feed(Feed(s, p), q)
<1> DEFINE T == {n \in Nat : \A r \in Seq(Token) : Len(r) = n => Feed(s, p \o r) = Feed(Feed(s, p), r)}
<1>1. 0 \in T
  <2>1. ASSUME NEW r \in Seq(Token), Len(r) = 0 PROVE Feed(s, p \o r) = Feed(Feed(s, p), r)
    <3>1. r = <<>> /\ p \o r = p
      BY <2>1
    <3>2. QED BY <3>1, FeedNothing
  <2>2. QED BY <2>1
<1>2. ASSUME NEW n \in Nat, n \in T PROVE n + 1 \in T
  <2>1. ASSUME NEW r \in Seq(Token), Len(r) = n + 1 PROVE Feed(s, p \o r) = Feed(Feed(s, p), r)
    <3> DEFINE h == SubSeq(r, 1, n)  t == r[n + 1]
    <3>1. h \in Seq(Token) /\ Len(h) = n /\ t \in Token /\ r = Append(h, t)
      BY <2>1
    <3> HIDE DEF h, t
    <3>2. p \o r = Append(p \o h, t) /\ p \o h \in Seq(Token)
      BY <3>1
    <3>3. Feed(s, p \o r) = Apply(Feed(s, p \o h), t)
      BY <3>1, <3>2, FeedLast
    <3>4. Feed(Feed(s, p), r) = Apply(Feed(Feed(s, p), h), t)
      BY <3>1, FeedLast
    <3>5. Feed(s, p \o h) = Feed(Feed(s, p), h)
      BY <1>2, <3>1
    <3>6. QED BY <3>3, <3>4, <3>5
  <2>2. QED BY <2>1
<1>3. Len(q) \in T
  <2> HIDE DEF T
  <2>1. Nat \subseteq T
    BY <1>1, <1>2, Induct
  <2>2. QED BY <2>1
<1>4. QED BY <1>3

LEMMA FeedOne ==
  ASSUME NEW s, NEW t \in Token
  PROVE  Feed(s, <<t>>) = Apply(s, t)
<1>1. <<t>> = Append(<<>>, t) /\ <<>> \in Seq(Token)
  OBVIOUS
<1>2. QED BY <1>1, FeedLast, FeedNothing

LEMMA FeedThree ==
  ASSUME NEW s, NEW a \in Token, NEW b \in Token, NEW c \in Token
  PROVE  <<a, b, c>> \in Seq(Token) /\ Feed(s, <<a, b, c>>) = Apply(Apply(Apply(s, a), b), c)
<1>1. <<a>> \in Seq(Token) /\ <<a, b>> \in Seq(Token) /\ <<a, b, c>> \in Seq(Token)
  OBVIOUS
<1>2. <<a, b>> = Append(<<a>>, b) /\ <<a, b, c>> = Append(<<a, b>>, c)
  OBVIOUS
<1>3. Feed(s, <<a>>) = Apply(s, a)
  BY FeedOne
<1>4. Feed(s, <<a, b>>) = Apply(Apply(s, a), b)
  <2>1. Feed(s, Append(<<a>>, b)) = Apply(Feed(s, <<a>>), b)
    BY <1>1, FeedLast
  <2>2. QED BY <1>2, <1>3, <2>1
<1>5. Feed(s, <<a, b, c>>) = Apply(Apply(Apply(s, a), b), c)
  <2>1. Feed(s, Append(<<a, b>>, c)) = Apply(Feed(s, <<a, b>>), c)
    BY <1>1, FeedLast
  <2>2. QED BY <1>2, <1>4, <2>1
<1>6. QED BY <1>1, <1>5

-----------------------------------------------------------------------------
(***************************************************************************)
(* The grid: every token leads from a screen to a screen.                  *)
(***************************************************************************)
GridCell == [f : {"unset", "prompt", "input"}, ch : Glyph]
GridRow == [cells : [Columns -> GridCell], wrap : BOOLEAN]
Fields == [rows : Seq(GridRow), r : Nat, c : 0 .. Width,
           saved : (0 .. MaxRows - 1) \X (0 .. Width),
           phase : {"prompt", "input"}, alt : BOOLEAN, bad : BOOLEAN,
           tail : {"other", "^", "^C"}, lf : BOOLEAN, abort : BOOLEAN, panic : BOOLEAN]
Short == {s \in Fields : Len(s.rows) <= MaxRows}
Screen == {s \in Short : s.r < MaxRows}

\* Same region, same buffer, no end of bracketed paste.
Steady(s, t) == t.alt = s.alt /\ t.phase = s.phase /\ t.abort = s.abort

LEMMA RowTypes ==
  /\ Width \in Nat \ {0} /\ MaxRows \in Nat \ {0}
  /\ Unset \in GridCell /\ EmptyRow \in GridRow
  /\ \A n \in Int : /\ [i \in 1 .. Largest(0, n) |-> EmptyRow] \in Seq(GridRow)
                    /\ Len([i \in 1 .. Largest(0, n) |-> EmptyRow]) = Largest(0, n)
<1>1. Width \in Nat \ {0} /\ MaxRows \in Nat \ {0}
  BY EchoAssumption
<1>2. Unset \in GridCell
  BY DEF Unset, GridCell, Glyph
<1>3. EmptyRow \in GridRow
  BY <1>2 DEF EmptyRow, GridRow
<1>4. ASSUME NEW n \in Int
      PROVE  /\ [i \in 1 .. Largest(0, n) |-> EmptyRow] \in Seq(GridRow)
             /\ Len([i \in 1 .. Largest(0, n) |-> EmptyRow]) = Largest(0, n)
  <2>1. Largest(0, n) \in Nat
    BY DEF Largest
  <2>2. QED BY <1>3, <2>1
<1>5. QED BY <1>1, <1>2, <1>3, <1>4

\* Row makes the cursor's row, wherever the cursor was.
LEMMA RowIs ==
  ASSUME NEW s \in Short
  PROVE  /\ Row(s) \in Screen /\ Steady(s, Row(s)) /\ Row(s).c = s.c
         /\ Row(s).r + 1 \in DOMAIN Row(s).rows
         /\ Row(s).tail = s.tail /\ Row(s).lf = s.lf /\ Row(s).panic = s.panic
         /\ s.bad => Row(s).bad
<1> DEFINE want == Least(s.r + 1, MaxRows)
           more == Largest(0, want - Len(s.rows))
           new == [i \in 1 .. more |-> EmptyRow]
<1>1. s \in Fields /\ Len(s.rows) <= MaxRows /\ s.r \in Nat /\ s.rows \in Seq(GridRow)
      /\ Len(s.rows) \in Nat
  BY DEF Short, Fields
<1>2. want \in Int /\ want - Len(s.rows) \in Int /\ more \in Nat
  BY <1>1, RowTypes DEF Least, Largest
<1>3. new \in Seq(GridRow) /\ Len(new) = more
  <2> HIDE DEF want
  <2>1. QED BY <1>1, <1>2, RowTypes
<1>4. Row(s) = [s EXCEPT !.rows = @ \o new, !.r = Least(@, MaxRows - 1), !.bad = @ \/ s.r >= MaxRows]
  BY DEF Row
<1>5. /\ Len(s.rows) + more <= MaxRows
      /\ Least(s.r, MaxRows - 1) \in Nat /\ Least(s.r, MaxRows - 1) < MaxRows
      /\ Least(s.r, MaxRows - 1) + 1 <= Len(s.rows) + more
  BY <1>1, RowTypes DEF Least, Largest
<1> HIDE DEF new, more
<1>6. s.rows \o new \in Seq(GridRow) /\ Len(s.rows \o new) = Len(s.rows) + more
  BY <1>1, <1>2, <1>3
<1> DEFINE t == [s EXCEPT !.rows = s.rows \o new, !.r = Least(s.r, MaxRows - 1),
                          !.bad = s.bad \/ s.r >= MaxRows]
<1>7. Row(s) = t
  BY <1>1, <1>4 DEF Fields
<1>8. /\ t.rows = s.rows \o new /\ t.r = Least(s.r, MaxRows - 1) /\ t.bad = (s.bad \/ s.r >= MaxRows)
      /\ t.c = s.c /\ Steady(s, t) /\ t.tail = s.tail /\ t.lf = s.lf /\ t.panic = s.panic
  BY <1>1 DEF Fields, Steady
<1>9. t \in Fields
  BY <1>1, <1>5, <1>6 DEF Fields
<1> HIDE DEF t
<1>10. t \in Screen
  BY <1>5, <1>6, <1>8, <1>9, RowTypes DEF Short, Screen
<1>11. t.r + 1 \in DOMAIN t.rows
  BY <1>1, <1>2, <1>5, <1>6, <1>8
<1>12. QED BY <1>7, <1>8, <1>10, <1>11

\* One row of a screen may become any other.
LEMMA RowChanged ==
  ASSUME NEW s \in Screen, NEW row \in GridRow, s.r + 1 \in DOMAIN s.rows
  PROVE  /\ [s EXCEPT !.rows[s.r + 1] = row] \in Screen
         /\ Steady(s, [s EXCEPT !.rows[s.r + 1] = row])
<1>1. s \in Fields /\ s.rows \in Seq(GridRow) /\ Len(s.rows) \in Nat /\ Len(s.rows) <= MaxRows /\ s.r < MaxRows
  BY DEF Screen, Short, Fields
<1> DEFINE rows == [s.rows EXCEPT ![s.r + 1] = row]
           t == [s EXCEPT !.rows = rows]
<1>2. rows \in Seq(GridRow) /\ Len(rows) = Len(s.rows)
  BY <1>1
<1>3. [s EXCEPT !.rows[s.r + 1] = row] = t
  BY <1>1 DEF Fields
<1> HIDE DEF rows
<1>4. t \in Fields /\ t.rows = rows /\ t.r = s.r /\ Steady(s, t)
  BY <1>1, <1>2 DEF Fields, Steady
<1>5. QED BY <1>1, <1>2, <1>3, <1>4 DEF Screen, Short

\* All rows may.
LEMMA RowsChanged ==
  ASSUME NEW s \in Screen, NEW rows \in Seq(GridRow), Len(rows) <= MaxRows
  PROVE  [s EXCEPT !.rows = rows] \in Screen /\ Steady(s, [s EXCEPT !.rows = rows])
<1> DEFINE t == [s EXCEPT !.rows = rows]
<1>1. t \in Fields /\ t.rows = rows /\ t.r = s.r /\ Steady(s, t)
  BY DEF Screen, Short, Fields, Steady
<1>2. QED BY <1>1 DEF Screen, Short

\* So may the cursor, within bounds.
LEMMA CursorMoved ==
  ASSUME NEW s \in Screen, NEW r \in 0 .. MaxRows - 1, NEW c \in 0 .. Width
  PROVE  /\ [s EXCEPT !.r = r, !.c = c] \in Screen /\ Steady(s, [s EXCEPT !.r = r, !.c = c])
         /\ [s EXCEPT !.r = r] \in Screen /\ Steady(s, [s EXCEPT !.r = r])
         /\ [s EXCEPT !.c = c] \in Screen /\ Steady(s, [s EXCEPT !.c = c])
<1>1. s \in Fields /\ s.rows \in Seq(GridRow) /\ Len(s.rows) <= MaxRows /\ s.r < MaxRows /\ MaxRows \in Nat
  BY RowTypes DEF Screen, Short, Fields
<1> DEFINE t == [s EXCEPT !.r = r, !.c = c]  u == [s EXCEPT !.r = r]  v == [s EXCEPT !.c = c]
<1>2. t \in Fields /\ t.rows = s.rows /\ t.r = r /\ Steady(s, t)
  <2>1. r \in Nat
    BY <1>1
  <2>2. QED BY <1>1, <2>1 DEF Fields, Steady
<1>3. u \in Fields /\ u.rows = s.rows /\ u.r = r /\ Steady(s, u)
  BY <1>1 DEF Fields, Steady
<1>4. v \in Fields /\ v.rows = s.rows /\ v.r = s.r /\ Steady(s, v)
  BY <1>1 DEF Fields, Steady
<1> HIDE DEF t, u, v
<1>5. t \in Screen /\ u \in Screen /\ v \in Screen
  BY <1>1, <1>2, <1>3, <1>4 DEF Screen, Short
<1>6. QED BY <1>2, <1>3, <1>4, <1>5 DEF t, u, v

\* A row with cells exchanged is a row.
LEMMA CellsChanged ==
  ASSUME NEW row \in GridRow
  PROVE  /\ \A cells \in [Columns -> GridCell] : [row EXCEPT !.cells = cells] \in GridRow
         /\ \A i \in Columns, cell \in GridCell : [row EXCEPT !.cells[i] = cell] \in GridRow
         /\ [row EXCEPT !.wrap = TRUE] \in GridRow
BY DEF GridRow

LEMMA ClearIs ==
  ASSUME NEW row \in GridRow, NEW from \in Int, NEW to \in Int
  PROVE  Clear(row, from, to) \in GridRow
<1> DEFINE cells == [i \in Columns |-> IF from <= i /\ i < to THEN Unset ELSE row.cells[i]]
<1>1. cells \in [Columns -> GridCell]
  BY RowTypes DEF GridRow
<1>2. Clear(row, from, to) = [row EXCEPT !.cells = cells]
  BY DEF Clear, GridRow
<1> HIDE DEF cells
<1>3. QED BY <1>1, <1>2, CellsChanged

LEMMA RowOfScreen ==
  ASSUME NEW s \in Screen, NEW i \in DOMAIN s.rows
  PROVE  s.rows[i] \in GridRow
BY DEF Screen, Short, Fields

LEMMA Fresh1 ==
  ASSUME NEW s \in Screen
  PROVE  /\ s \in Short /\ s.r \in 0 .. MaxRows - 1 /\ s.c \in 0 .. Width
         /\ s.rows \in Seq(GridRow) /\ Len(s.rows) \in Nat /\ Len(s.rows) <= MaxRows
         /\ s.saved \in (0 .. MaxRows - 1) \X (0 .. Width)
         /\ s.phase \in {"prompt", "input"} /\ s.alt \in BOOLEAN /\ s.bad \in BOOLEAN
         /\ s.tail \in {"other", "^", "^C"} /\ s.lf \in BOOLEAN /\ s.abort \in BOOLEAN
         /\ s.panic \in BOOLEAN
BY RowTypes DEF Screen, Short, Fields

LEMMA ClearHereIs ==
  ASSUME NEW s \in Screen, NEW from \in Int, NEW to \in Int
  PROVE  ClearHere(s, from, to) \in Screen /\ Steady(s, ClearHere(s, from, to))
         /\ ClearHere(s, from, to).r = Row(s).r
<1> DEFINE t == Row(s)
<1>1. t \in Screen /\ Steady(s, t) /\ t.r + 1 \in DOMAIN t.rows
  BY Fresh1, RowIs
<1> DEFINE row == Clear(t.rows[t.r + 1], from, to)
           u == [t EXCEPT !.rows[t.r + 1] = row]
<1>2. ClearHere(s, from, to) = u
  BY DEF ClearHere
<1> HIDE DEF t
<1>3. row \in GridRow
  BY <1>1, RowOfScreen, ClearIs
<1>4. u.r = t.r
  BY <1>1 DEF Screen, Short, Fields
<1> HIDE DEF row
<1>5. u \in Screen /\ Steady(t, u)
  BY <1>1, <1>3, RowChanged
<1>6. QED BY <1>1, <1>2, <1>4, <1>5 DEF Steady, t

LEMMA EraseInLineIs ==
  ASSUME NEW s \in Screen, NEW k \in Int
  PROVE  EraseInLine(s, k) \in Screen /\ Steady(s, EraseInLine(s, k))
<1>1. s.c \in Int /\ s.c + 1 \in Int /\ Width \in Int /\ 0 \in Int
  BY Fresh1, RowTypes
<1>2. Row(s) \in Screen /\ Steady(s, Row(s))
  BY Fresh1, RowIs
<1>3. /\ ClearHere(s, s.c, Width) \in Screen /\ Steady(s, ClearHere(s, s.c, Width))
      /\ ClearHere(s, 0, s.c + 1) \in Screen /\ Steady(s, ClearHere(s, 0, s.c + 1))
      /\ ClearHere(s, 0, Width) \in Screen /\ Steady(s, ClearHere(s, 0, Width))
  BY <1>1, ClearHereIs
<1>4. QED BY <1>2, <1>3 DEF EraseInLine

LEMMA EraseInDisplayIs ==
  ASSUME NEW s \in Screen, NEW k \in Int
  PROVE  EraseInDisplay(s, k) \in Screen /\ Steady(s, EraseInDisplay(s, k))
<1>1. s.c \in Int /\ s.c + 1 \in Int /\ Width \in Int /\ 0 \in Int /\ MaxRows \in Nat
  BY Fresh1, RowTypes
<1>2. CASE k = 0
  <2> DEFINE t == ClearHere(s, s.c, Width)
             rows == SubSeq(t.rows, 1, Least(t.r + 1, Len(t.rows)))
  <2>1. t \in Screen /\ Steady(s, t)
    BY <1>1, ClearHereIs
  <2>2. EraseInDisplay(s, k) = [t EXCEPT !.rows = rows]
    BY <1>2, <2>1 DEF EraseInDisplay, Screen, Short, Fields
  <2> HIDE DEF t
  <2>3. rows \in Seq(GridRow) /\ Len(rows) <= MaxRows
    <3>1. t.rows \in Seq(GridRow) /\ Len(t.rows) \in Nat /\ Len(t.rows) <= MaxRows /\ t.r \in Nat
      BY <2>1, Fresh1
    <3>2. Least(t.r + 1, Len(t.rows)) \in 0 .. Len(t.rows)
      BY <3>1 DEF Least
    <3>3. QED BY <1>1, <3>1, <3>2
  <2>4. QED BY <2>1, <2>2, <2>3, RowsChanged DEF Steady
<1>3. CASE k = 1
  <2> DEFINE t == ClearHere(s, 0, s.c + 1)
             rows == [i \in DOMAIN t.rows |-> IF i <= t.r THEN Clear(t.rows[i], 0, Width) ELSE t.rows[i]]
  <2>1. t \in Screen /\ Steady(s, t)
    BY <1>1, ClearHereIs
  <2>2. EraseInDisplay(s, k) = [t EXCEPT !.rows = rows]
    BY <1>3, <2>1 DEF EraseInDisplay, Screen, Short, Fields
  <2> HIDE DEF t
  <2>3. rows \in Seq(GridRow) /\ Len(rows) <= MaxRows
    <3>1. t.rows \in Seq(GridRow) /\ Len(t.rows) \in Nat /\ Len(t.rows) <= MaxRows
      BY <2>1, Fresh1
    <3>2. \A i \in DOMAIN t.rows : Clear(t.rows[i], 0, Width) \in GridRow
      BY <1>1, <3>1, ClearIs
    <3>3. QED BY <3>1, <3>2
  <2>4. QED BY <2>1, <2>2, <2>3, RowsChanged DEF Steady
<1>4. CASE k \notin {0, 1}
  <2>1. EraseInDisplay(s, k) = [s EXCEPT !.rows = <<>>]
    BY <1>4 DEF EraseInDisplay
  <2>2. <<>> \in Seq(GridRow) /\ Len(<<>>) = 0
    OBVIOUS
  <2>3. Len(<<>>) <= MaxRows
    BY <1>1, <2>2
  <2>4. QED BY ONLY <2>1, <2>2, <2>3, RowsChanged, s \in Screen
<1>5. QED BY <1>2, <1>3, <1>4

LEMMA DeleteCharsIs ==
  ASSUME NEW s \in Screen, NEW n \in Nat \ {0}
  PROVE  DeleteChars(s, n) \in Screen /\ Steady(s, DeleteChars(s, n))
<1> DEFINE t == Row(s)
           by == Least(n, Width - s.c)
           old == t.rows[t.r + 1]
           cells == [i \in Columns |->
                       IF i < s.c THEN old.cells[i] ELSE IF i + by < Width THEN old.cells[i + by] ELSE Unset]
           row == [old EXCEPT !.cells = cells]
           u == [t EXCEPT !.rows[t.r + 1] = row]
<1>1. t \in Screen /\ Steady(s, t) /\ t.r + 1 \in DOMAIN t.rows
  BY Fresh1, RowIs
<1>2. CASE s.c >= Width
  BY <1>1, <1>2 DEF DeleteChars
<1>3. CASE ~(s.c >= Width)
  <2>1. by \in Nat /\ Width \in Nat /\ s.c \in Nat
    BY <1>3, Fresh1, RowTypes DEF Least
  <2> HIDE DEF t
  <2>2. old \in GridRow
    BY <1>1, RowOfScreen
  <2>3. DeleteChars(s, n) = u
    <3>1. t.rows \in Seq(GridRow)
      BY <1>1, Fresh1
    <3>2. DeleteChars(s, n) = [t EXCEPT !.rows[t.r + 1].cells = cells]
      BY <1>3 DEF DeleteChars, t
    <3>3. QED BY <1>1, <2>2, <3>1, <3>2 DEF GridRow, Screen, Short, Fields
  <2> HIDE DEF by, old
  <2>4. cells \in [Columns -> GridCell]
    BY <2>1, <2>2, RowTypes DEF GridRow, Columns
  <2> HIDE DEF cells
  <2>5. row \in GridRow
    BY <2>2, <2>4, CellsChanged
  <2> HIDE DEF row
  <2>6. QED BY <1>1, <2>3, <2>5, RowChanged DEF Steady
<1>4. QED BY <1>2, <1>3

LEMMA InsertBlanksIs ==
  ASSUME NEW s \in Screen, NEW n \in Nat \ {0}
  PROVE  InsertBlanks(s, n) \in Screen /\ Steady(s, InsertBlanks(s, n))
<1> DEFINE t == Row(s)
           by == Least(n, Width - s.c)
           old == t.rows[t.r + 1]
           blank == [f |-> s.phase, ch |-> " "]
           cells == [i \in Columns |->
                       IF i < s.c THEN old.cells[i]
                       ELSE IF i < s.c + by THEN blank ELSE old.cells[i - by]]
           row == [old EXCEPT !.cells = cells]
           u == [t EXCEPT !.rows[t.r + 1] = row]
<1>1. t \in Screen /\ Steady(s, t) /\ t.r + 1 \in DOMAIN t.rows
  BY Fresh1, RowIs
<1>2. CASE s.c >= Width
  BY <1>1, <1>2 DEF InsertBlanks
<1>3. CASE ~(s.c >= Width)
  <2>1. by \in Nat /\ Width \in Nat /\ s.c \in Nat
    BY <1>3, Fresh1, RowTypes DEF Least
  <2> HIDE DEF t
  <2>2. old \in GridRow
    BY <1>1, RowOfScreen
  <2>3. InsertBlanks(s, n) = u
    <3>1. t.rows \in Seq(GridRow)
      BY <1>1, Fresh1
    <3>2. InsertBlanks(s, n) = [t EXCEPT !.rows[t.r + 1].cells = cells]
      BY <1>3 DEF InsertBlanks, t
    <3>3. QED BY <1>1, <2>2, <3>1, <3>2 DEF GridRow, Screen, Short, Fields
  <2> HIDE DEF by, old
  <2>4. blank \in GridCell
    BY Fresh1 DEF GridCell, Glyph
  <2> HIDE DEF blank
  <2>5. cells \in [Columns -> GridCell]
    BY <2>1, <2>2, <2>4 DEF GridRow, Columns
  <2> HIDE DEF cells
  <2>6. row \in GridRow
    BY <2>2, <2>5, CellsChanged
  <2> HIDE DEF row
  <2>7. QED BY <1>1, <2>3, <2>6, RowChanged DEF Steady
<1>4. QED BY <1>2, <1>3

LEMMA InsertLinesIs ==
  ASSUME NEW s \in Screen, NEW n \in Nat \ {0}
  PROVE  InsertLines(s, n) \in Screen /\ Steady(s, InsertLines(s, n))
<1> DEFINE fits == Least(n, MaxRows - Len(s.rows))
           new == [i \in 1 .. fits |-> EmptyRow]
           rows == SubSeq(s.rows, 1, s.r) \o new \o SubSeq(s.rows, s.r + 1, Len(s.rows))
<1>1. s.rows \in Seq(GridRow) /\ Len(s.rows) \in Nat /\ Len(s.rows) <= MaxRows /\ s.r \in Nat
      /\ MaxRows \in Nat
  BY Fresh1, RowTypes
<1>2. fits \in Int /\ fits + Len(s.rows) <= MaxRows
  <2> DEFINE l == Len(s.rows)
  <2>1. l \in Nat /\ MaxRows \in Nat
    BY <1>1
  <2> HIDE DEF l
  <2>2. Least(n, MaxRows - l) \in Int /\ Least(n, MaxRows - l) + l <= MaxRows
    BY <2>1 DEF Least
  <2>3. QED BY <2>2 DEF l
<1>3. CASE fits <= 0
  BY <1>2, <1>3 DEF InsertLines, Steady
<1>4. CASE fits > 0 /\ s.r > Len(s.rows)
  <2>1. InsertLines(s, n) = [s EXCEPT !.panic = TRUE, !.bad = TRUE]
    BY <1>2, <1>1, <1>4 DEF InsertLines
  <2>2. QED BY <2>1 DEF Screen, Short, Fields, Steady
<1>5. CASE fits > 0 /\ s.r <= Len(s.rows)
  <2>1. InsertLines(s, n) = [s EXCEPT !.rows = rows]
    BY <1>2, <1>1, <1>5 DEF InsertLines, Screen, Short, Fields
  <2> HIDE DEF fits
  <2>2. new \in Seq(GridRow) /\ Len(new) = fits
    BY <1>2, <1>5, RowTypes DEF Largest
  <2> HIDE DEF new
  <2>3. /\ SubSeq(s.rows, 1, s.r) \in Seq(GridRow) /\ Len(SubSeq(s.rows, 1, s.r)) = s.r
        /\ SubSeq(s.rows, s.r + 1, Len(s.rows)) \in Seq(GridRow)
        /\ Len(SubSeq(s.rows, s.r + 1, Len(s.rows))) = Len(s.rows) - s.r
    BY <1>1, <1>5
  <2>4. rows \in Seq(GridRow) /\ Len(rows) = Len(s.rows) + fits
    <3>1. \A a, b, d \in Seq(GridRow) :
            a \o b \o d \in Seq(GridRow) /\ Len(a \o b \o d) = Len(a) + Len(b) + Len(d)
      OBVIOUS
    <3>2. /\ rows \in Seq(GridRow)
          /\ Len(rows) = s.r + fits + (Len(s.rows) - s.r)
      BY <2>2, <2>3, <3>1
    <3>3. QED BY <1>2, <1>1, <3>2
  <2>5. Len(rows) <= MaxRows
    BY <1>2, <1>1, <2>4
  <2> HIDE DEF rows
  <2>6. QED BY <2>1, <2>4, <2>5, RowsChanged
<1>6. QED BY <1>2, <1>1, <1>3, <1>4, <1>5

LEMMA DeleteLinesIs ==
  ASSUME NEW s \in Screen, NEW n \in Nat \ {0}
  PROVE  DeleteLines(s, n) \in Screen /\ Steady(s, DeleteLines(s, n))
<1> DEFINE to == Least(s.r, Len(s.rows))
           rows == SubSeq(s.rows, 1, to) \o SubSeq(s.rows, s.r + n + 1, Len(s.rows))
<1>1. s.rows \in Seq(GridRow) /\ Len(s.rows) \in Nat /\ Len(s.rows) <= MaxRows /\ s.r \in Nat
      /\ MaxRows \in Nat /\ to \in 0 .. Len(s.rows) /\ to <= s.r
  BY Fresh1, RowTypes DEF Least
<1>2. DeleteLines(s, n) = [s EXCEPT !.rows = rows]
  BY DEF DeleteLines, Screen, Short, Fields
<1> HIDE DEF to
<1>3. /\ SubSeq(s.rows, 1, to) \in Seq(GridRow) /\ Len(SubSeq(s.rows, 1, to)) = to
      /\ SubSeq(s.rows, s.r + n + 1, Len(s.rows)) \in Seq(GridRow)
      /\ to + Len(SubSeq(s.rows, s.r + n + 1, Len(s.rows))) <= Len(s.rows)
  BY <1>1
<1>4. rows \in Seq(GridRow) /\ Len(rows) <= MaxRows
  BY <1>1, <1>3
<1>5. QED BY <1>2, <1>4, RowsChanged

\* The next row, or one further down.
LEMMA DownIs ==
  ASSUME NEW s \in Screen, NEW n \in Nat
  PROVE  /\ Down(s, n) \in Screen /\ Steady(s, Down(s, n))
         /\ Down(s, n).tail = s.tail /\ Down(s, n).lf = s.lf
<1> DEFINE t == [s EXCEPT !.r = s.r + n]
<1>1. Down(s, n) = Row(t)
  BY DEF Down, Screen, Short, Fields
<1>2. t \in Short /\ Steady(s, t) /\ t.tail = s.tail /\ t.lf = s.lf
  BY DEF Screen, Short, Fields, Steady
<1> HIDE DEF t
<1>3. QED BY <1>1, <1>2, RowIs DEF Steady

LEMMA PutIs ==
  ASSUME NEW s \in Screen, NEW ch \in Glyph
  PROVE  /\ Put(s, ch) \in Screen /\ Steady(s, Put(s, ch))
         /\ ~s.alt /\ s.phase = "input" => Put(s, ch).tail = Tail2(s.tail, ch) /\ ~Put(s, ch).lf
<1>1. CASE s.alt
  BY <1>1 DEF Put, Steady
<1>2. CASE ~s.alt
  <2> DEFINE s2 == [s EXCEPT !.r = @ + 1, !.c = 0]
             next == Row(s2)
             wrapped == [next EXCEPT !.rows[next.r + 1].wrap = TRUE]
             w == IF s.c >= Width THEN wrapped ELSE Row(s)
             typed == s.phase = "input"
             cell == [f |-> s.phase, ch |-> ch]
             u == [w EXCEPT !.rows[w.r + 1].cells[w.c] = cell]
             tail == IF typed THEN Tail2(s.tail, ch) ELSE s.tail
             lf == s.lf /\ ~typed
             result == [u EXCEPT !.c = w.c + 1, !.tail = tail, !.lf = lf]
  <2>1. s2 \in Short /\ Steady(s, s2) /\ s2.c = 0 /\ s2.tail = s.tail /\ s2.lf = s.lf
    <3>1. 0 \in 0 .. Width /\ s.r + 1 \in Nat
      BY Fresh1, RowTypes
    <3>2. QED BY <3>1 DEF Screen, Short, Fields, Steady
  <2> HIDE DEF s2
  <2>2. /\ next \in Screen /\ Steady(s, next) /\ next.c = 0 /\ next.r + 1 \in DOMAIN next.rows
        /\ next.tail = s.tail /\ next.lf = s.lf
    BY <2>1, RowIs DEF Steady
  <2> HIDE DEF next
  <2>3. /\ wrapped \in Screen /\ Steady(s, wrapped) /\ wrapped.c = 0
        /\ wrapped.r + 1 \in DOMAIN wrapped.rows /\ wrapped.tail = s.tail /\ wrapped.lf = s.lf
    <3> DEFINE row == [next.rows[next.r + 1] EXCEPT !.wrap = TRUE]
    <3>1. row \in GridRow
      BY <2>2, RowOfScreen, CellsChanged
    <3>2. next.rows \in Seq(GridRow)
      BY <2>2, Fresh1
    <3>3. wrapped = [next EXCEPT !.rows[next.r + 1] = row]
      BY <2>2, <3>2 DEF Screen, Short, Fields, GridRow
    <3> HIDE DEF row
    <3>4. /\ wrapped.c = 0 /\ wrapped.r = next.r /\ DOMAIN wrapped.rows = DOMAIN next.rows
          /\ wrapped.tail = s.tail /\ wrapped.lf = s.lf
      BY <2>2, <3>2, <3>3 DEF Screen, Short, Fields
    <3>5. wrapped \in Screen /\ Steady(next, wrapped)
      BY <2>2, <3>1, <3>3, RowChanged
    <3>6. QED BY <2>2, <3>4, <3>5 DEF Steady
  <2> HIDE DEF wrapped
  <2>4. /\ w \in Screen /\ Steady(s, w) /\ w.c \in Columns /\ w.r + 1 \in DOMAIN w.rows
        /\ w.tail = s.tail /\ w.lf = s.lf
    <3>1. CASE s.c >= Width
      BY <2>3, <3>1, RowTypes DEF Columns
    <3>2. CASE ~(s.c >= Width)
      <4>1. w = Row(s) /\ s.c \in Columns
        BY <3>2, Fresh1, RowTypes DEF Columns
      <4>2. QED BY <4>1, Fresh1, RowIs
    <3>3. QED BY <3>1, <3>2
  <2>5. Put(s, ch) = [w EXCEPT !.rows[w.r + 1].cells[w.c] = cell, !.c = @ + 1,
                               !.tail = IF typed THEN Tail2(@, ch) ELSE @, !.lf = @ /\ ~typed]
    BY <1>2 DEF Put, next, s2, wrapped
  <2> HIDE DEF w
  <2>6. u \in Screen /\ Steady(s, u) /\ u.tail = s.tail /\ u.lf = s.lf /\ u.c = w.c
    <3> DEFINE row == [w.rows[w.r + 1] EXCEPT !.cells[w.c] = cell]
    <3>1. cell \in GridCell
      BY Fresh1 DEF GridCell
    <3> HIDE DEF cell
    <3>2. row \in GridRow
      BY <2>4, <3>1, RowOfScreen, CellsChanged
    <3>3. w.rows \in Seq(GridRow)
      BY <2>4, Fresh1
    <3>4. u = [w EXCEPT !.rows[w.r + 1] = row]
      BY <2>4, <3>3 DEF Screen, Short, Fields, GridRow
    <3> HIDE DEF row
    <3>5. u.tail = s.tail /\ u.lf = s.lf /\ u.c = w.c
      BY <2>4, <3>4 DEF Screen, Short, Fields
    <3>6. u \in Screen /\ Steady(w, u)
      BY <2>4, <3>2, <3>4, RowChanged
    <3>7. QED BY <2>4, <3>5, <3>6 DEF Steady
  <2>7. Put(s, ch) = result
    BY <2>4, <2>5 DEF Screen, Short, Fields
  <2> HIDE DEF u
  <2>8. tail \in {"other", "^", "^C"} /\ lf \in BOOLEAN
    BY Fresh1 DEF Tail2
  <2>9. w.c + 1 \in 0 .. Width
    BY <2>4, RowTypes DEF Columns
  <2> HIDE DEF tail, lf
  <2>10. result \in Screen /\ Steady(u, result) /\ result.tail = tail /\ result.lf = lf
    BY <2>6, <2>8, <2>9 DEF Screen, Short, Fields, Steady
  <2>11. QED BY <1>2, <2>6, <2>7, <2>10 DEF Steady, tail, lf
<1>3. QED BY <1>1, <1>2, Fresh1

LEMMA ApplyCSIIs ==
  ASSUME NEW s \in Screen, NEW final \in Finals, NEW raw \in Int
  PROVE  ApplyCSI(s, final, raw) \in Screen /\ Steady(s, ApplyCSI(s, final, raw))
<1> DEFINE n == Param(raw, 1)  k == Param(raw, 0)
<1>1. n \in Nat \ {0} /\ k \in Int
  BY DEF Param
<1>2. s.r \in 0 .. MaxRows - 1 /\ s.c \in 0 .. Width /\ Width \in Nat \ {0} /\ MaxRows \in Nat \ {0}
  BY Fresh1, RowTypes
<1> HIDE DEF n, k
<1>3. CASE final = "A"
  <2>1. Largest(0, s.r - n) \in 0 .. MaxRows - 1
    BY <1>1, <1>2 DEF Largest
  <2>2. ApplyCSI(s, final, raw) = [s EXCEPT !.r = Largest(0, s.r - n)]
    BY <1>3 DEF ApplyCSI, n, Screen, Short, Fields
  <2>3. QED BY <2>1, <2>2, CursorMoved, Fresh1
<1>4. CASE final = "B"
  BY <1>1, <1>4, DownIs DEF ApplyCSI, n
<1>5. CASE final \in {"C", "D", "G"}
  <2>1. /\ Least(Width, s.c + n) \in 0 .. Width /\ Largest(0, s.c - n) \in 0 .. Width
        /\ Least(Width, n - 1) \in 0 .. Width
    BY <1>1, <1>2 DEF Largest, Least
  <2>2. \/ ApplyCSI(s, final, raw) = [s EXCEPT !.c = Least(Width, s.c + n)]
        \/ ApplyCSI(s, final, raw) = [s EXCEPT !.c = Largest(0, s.c - n)]
        \/ ApplyCSI(s, final, raw) = [s EXCEPT !.c = Least(Width, n - 1)]
    BY <1>5 DEF ApplyCSI, n, Screen, Short, Fields
  <2>3. \A c \in 0 .. Width : [s EXCEPT !.c = c] \in Screen /\ Steady(s, [s EXCEPT !.c = c])
    BY <1>2, CursorMoved
  <2>4. QED BY <2>1, <2>2, <2>3
<1>6. CASE final \in {"K", "J", "P", "@", "X", "L", "M"}
  <2>1. Least(s.c + n, Width) \in Int /\ s.c \in Int
    BY <1>1, <1>2 DEF Least
  <2>2. /\ ClearHere(s, s.c, Least(s.c + n, Width)) \in Screen
        /\ Steady(s, ClearHere(s, s.c, Least(s.c + n, Width)))
    BY <2>1, ClearHereIs
  <2>3. QED BY <1>1, <1>6, <2>2, EraseInLineIs, EraseInDisplayIs, DeleteCharsIs, InsertBlanksIs,
               InsertLinesIs, DeleteLinesIs DEF ApplyCSI, n, k
<1>7. CASE final \in {"H", "f", "d", "r", "S", "T"}
  <2>1. ApplyCSI(s, final, raw) = [s EXCEPT !.bad = TRUE]
    BY <1>7 DEF ApplyCSI
  <2>2. QED BY <2>1 DEF Screen, Short, Fields, Steady
<1>8. QED BY <1>3, <1>4, <1>5, <1>6, <1>7 DEF Finals

\* Tokens that switch neither region nor buffer.
Plain == {t \in Token : t.op \notin {"alt on", "alt off", "paste off", "phase P", "phase B"}}

LEMMA CursorOps ==
  ASSUME NEW s \in Screen
  PROVE  /\ CarriageReturn(s) \in Screen /\ Steady(s, CarriageReturn(s))
         /\ LineFeed(s) \in Screen /\ Steady(s, LineFeed(s))
         /\ Backspace(s) \in Screen /\ Steady(s, Backspace(s))
         /\ Tab(s) \in Screen /\ Steady(s, Tab(s))
         /\ ReverseIndex(s) \in Screen /\ Steady(s, ReverseIndex(s))
         /\ Index(s) \in Screen /\ Steady(s, Index(s))
<1>1. /\ s.r \in 0 .. MaxRows - 1 /\ s.c \in 0 .. Width /\ Width \in Nat \ {0} /\ MaxRows \in Nat \ {0}
      /\ Steady(s, s)
  BY Fresh1, RowTypes DEF Steady
<1>2. /\ \A c \in 0 .. Width : [s EXCEPT !.c = c] \in Screen /\ Steady(s, [s EXCEPT !.c = c])
      /\ \A r \in 0 .. MaxRows - 1 : [s EXCEPT !.r = r] \in Screen /\ Steady(s, [s EXCEPT !.r = r])
  BY <1>1, CursorMoved
<1>3. Down(s, 1) \in Screen /\ Steady(s, Down(s, 1))
  BY DownIs
<1>4. CarriageReturn(s) \in Screen /\ Steady(s, CarriageReturn(s))
  BY <1>1, <1>2 DEF CarriageReturn
<1>5. LineFeed(s) \in Screen /\ Steady(s, LineFeed(s))
  BY <1>1, <1>3 DEF LineFeed, Screen, Short, Fields, Steady
<1>6. Backspace(s) \in Screen /\ Steady(s, Backspace(s))
  <2>1. s.c # 0 => Least(s.c - 1, Width - 1) \in 0 .. Width
    BY <1>1 DEF Least
  <2>2. Backspace(s) = IF s.alt \/ s.c = 0 THEN s ELSE [s EXCEPT !.c = Least(s.c - 1, Width - 1)]
    BY DEF Backspace, Screen, Short, Fields
  <2>3. QED BY <1>1, <1>2, <2>1, <2>2
<1>7. Tab(s) \in Screen /\ Steady(s, Tab(s))
  <2>1. Least((s.c \div 8 + 1) * 8, Width - 1) \in 0 .. Width
    BY <1>1 DEF Least
  <2>2. Tab(s) = IF s.alt THEN s ELSE [s EXCEPT !.c = Least((s.c \div 8 + 1) * 8, Width - 1)]
    BY DEF Tab, Screen, Short, Fields
  <2>3. QED BY <1>1, <1>2, <2>1, <2>2
<1>8. ReverseIndex(s) \in Screen /\ Steady(s, ReverseIndex(s))
  <2>1. Largest(0, s.r - 1) \in 0 .. MaxRows - 1
    BY <1>1 DEF Largest
  <2>2. ReverseIndex(s) = IF s.alt THEN s ELSE [s EXCEPT !.r = Largest(0, s.r - 1)]
    BY DEF ReverseIndex, Screen, Short, Fields
  <2>3. QED BY <1>1, <1>2, <2>1, <2>2
<1>9. Index(s) \in Screen /\ Steady(s, Index(s))
  BY <1>1, <1>3 DEF Index
<1>10. QED BY <1>4, <1>5, <1>6, <1>7, <1>8, <1>9

LEMMA TokenIs ==
  ASSUME NEW t \in Token
  PROVE  \/ t.op = "put" /\ t.ch \in Glyph
         \/ t.op = "csi" /\ t.final \in Finals /\ t.n \in Int
         \/ t.op \in Names
BY DEF Token, Op, Char, CSI

LEMMA ApplyIs ==
  ASSUME NEW s \in Screen, NEW t \in Token
  PROVE  /\ Apply(s, t) \in Screen
         /\ t \in Plain => Steady(s, Apply(s, t))
<1>1. CASE s.bad
  BY <1>1 DEF Apply, Steady
<1>2. CASE ~s.bad /\ t.op = "put"
  <2>1. Apply(s, t) = Put(s, t.ch) /\ t.ch \in Glyph
    BY <1>2, TokenIs DEF Apply, Names
  <2>2. QED BY <2>1, PutIs
<1>3. CASE ~s.bad /\ t.op = "csi"
  <2>1. Apply(s, t) = (IF s.alt THEN s ELSE ApplyCSI(s, t.final, t.n)) /\ t.final \in Finals /\ t.n \in Int
    BY <1>3, TokenIs DEF Apply, Names
  <2>2. QED BY <2>1, ApplyCSIIs DEF Steady
<1>4. CASE ~s.bad /\ t.op \in {"cr", "lf", "bs", "tab", "reverse index", "index", "next line"}
  <2>1. CarriageReturn(Index(s)) \in Screen /\ Steady(s, CarriageReturn(Index(s)))
    BY CursorOps DEF Steady
  <2>2. QED BY <1>4, <2>1, CursorOps DEF Apply
<1>5. CASE ~s.bad /\ t.op = "save"
  <2>1. Apply(s, t) = [s EXCEPT !.saved = <<s.r, s.c>>] /\ <<s.r, s.c>> \in (0 .. MaxRows - 1) \X (0 .. Width)
    BY <1>5, Fresh1 DEF Apply
  <2>2. QED BY <2>1 DEF Screen, Short, Fields, Steady
<1>6. CASE ~s.bad /\ t.op = "restore"
  <2>1. Apply(s, t) = [s EXCEPT !.r = s.saved[1], !.c = s.saved[2]]
        /\ s.saved[1] \in 0 .. MaxRows - 1 /\ s.saved[2] \in 0 .. Width
    BY <1>6, Fresh1 DEF Apply
  <2>2. /\ [s EXCEPT !.r = s.saved[1], !.c = s.saved[2]] \in Screen
        /\ Steady(s, [s EXCEPT !.r = s.saved[1], !.c = s.saved[2]])
    BY ONLY <2>1, CursorMoved, s \in Screen
  <2>3. QED BY <2>1, <2>2
<1>7. CASE ~s.bad /\ t.op \in {"alt on", "alt off", "paste off", "phase P", "phase B"}
  <2>1. \/ Apply(s, t) = [s EXCEPT !.alt = TRUE]
        \/ Apply(s, t) = [s EXCEPT !.alt = FALSE]
        \/ Apply(s, t) = [s EXCEPT !.abort = s.abort \/ (s.tail = "^C" /\ ~s.lf)]
        \/ Apply(s, t) = [s EXCEPT !.phase = "prompt"]
        \/ Apply(s, t) = [s EXCEPT !.phase = "input"]
    BY <1>7 DEF Apply, Screen, Short, Fields
  <2>2. Apply(s, t) \in Screen
    BY <2>1 DEF Screen, Short, Fields
  <2>3. QED BY <1>7, <2>2 DEF Plain
<1>8. QED BY <1>1, <1>2, <1>3, <1>4, <1>5, <1>6, <1>7, TokenIs DEF Names

-----------------------------------------------------------------------------
(***************************************************************************)
(* The line editor: while a line is edited, its tokens go to the input     *)
(* region of the main screen, unless the replay has given up.              *)
(***************************************************************************)
Open == {s \in Screen : s.bad \/ (~s.alt /\ s.phase = "input")}
Over == {s \in Screen : s.bad \/ s.abort}

LEMMA PlainTokens ==
  /\ Plain \subseteq Token
  /\ \A name \in Names : Op(name) \in Token /\ Op(name).op = name
  /\ \A name \in Names \ {"alt on", "alt off", "paste off", "phase P", "phase B"} : Op(name) \in Plain
  /\ \A ch \in Glyph : Char(ch) \in Plain /\ Char(ch).op = "put" /\ Char(ch).ch = ch
  /\ \A final \in Finals, n \in Int : CSI(final, n) \in Plain
<1>1. Plain \subseteq Token
  BY DEF Plain
<1>2. ASSUME NEW name \in Names PROVE Op(name) \in Token /\ Op(name).op = name
  BY DEF Token, Op
<1>3. ASSUME NEW name \in Names \ {"alt on", "alt off", "paste off", "phase P", "phase B"}
      PROVE  Op(name) \in Plain
  BY <1>2 DEF Plain
<1>4. ASSUME NEW ch \in Glyph PROVE Char(ch) \in Plain /\ Char(ch).op = "put" /\ Char(ch).ch = ch
  <2>1. Char(ch) \in Token
    BY DEF Char, Token
  <2>2. QED BY <2>1 DEF Char, Plain
<1>5. ASSUME NEW final \in Finals, NEW n \in Int PROVE CSI(final, n) \in Plain
  <2>1. CSI(final, n) \in Token
    BY DEF CSI, Token
  <2>2. QED BY <2>1 DEF CSI, Plain
<1>6. QED BY <1>1, <1>2, <1>3, <1>4, <1>5

LEMMA FeedTyped ==
  ASSUME NEW s \in Screen, NEW q \in Seq(Token)
  PROVE  Feed(s, q) \in Screen
BY ApplyIs, FeedKeeps

LEMMA FeedOpen ==
  ASSUME NEW s \in Open, NEW q \in Seq(Plain)
  PROVE  Feed(s, q) \in Open
<1>1. \A x \in Open, t \in Plain : Apply(x, t) \in Open
  <2>1. TAKE x \in Open, t \in Plain
  <2>2. x \in Screen /\ t \in Token
    BY PlainTokens DEF Open
  <2>3. CASE x.bad
    BY <2>3 DEF Apply
  <2>4. CASE ~x.bad
    BY <2>2, <2>4, ApplyIs DEF Open, Steady
  <2>5. QED BY <2>3, <2>4
<1>2. QED BY <1>1, PlainTokens, FeedKeeps

LEMMA FeedOver ==
  ASSUME NEW s \in Over, NEW q \in Seq(Plain)
  PROVE  Feed(s, q) \in Over
<1>1. \A x \in Over, t \in Plain : Apply(x, t) \in Over
  <2>1. TAKE x \in Over, t \in Plain
  <2>2. x \in Screen /\ t \in Token
    BY PlainTokens DEF Over
  <2>3. CASE x.bad
    BY <2>3 DEF Apply
  <2>4. CASE ~x.bad
    BY <2>2, <2>4, ApplyIs DEF Over, Steady
  <2>5. QED BY <2>3, <2>4
<1>2. QED BY <1>1, PlainTokens, FeedKeeps

\* A prompt leaves the input region open.
LEMMA PromptOpens ==
  ASSUME NEW s \in Screen, s.bad \/ ~s.alt
  PROVE  PromptTokens \in Seq(Token) /\ Feed(s, PromptTokens) \in Open
<1> DEFINE P == Op("phase P")  D == Char("$")  B == Op("phase B")
           s1 == Apply(s, P)  s2 == Apply(s1, D)  s3 == Apply(s2, B)
<1>1. P \in Token /\ D \in Token /\ B \in Token /\ D \in Plain /\ P.op = "phase P" /\ B.op = "phase B"
  <2>1. "$" \in Glyph /\ "phase P" \in Names /\ "phase B" \in Names
    BY DEF Glyph, Names
  <2>2. QED BY <2>1, PlainTokens
<1>2. PromptTokens = <<P, D, B>>
  BY DEF PromptTokens
<1> HIDE DEF P, D, B
<1>3. PromptTokens \in Seq(Token) /\ Feed(s, PromptTokens) = s3
  <2>1. P \in Token /\ D \in Token /\ B \in Token
    BY <1>1
  <2>2. QED BY ONLY <1>2, <2>1, FeedThree
<1>4. s1 \in Screen /\ s2 \in Screen /\ s3 \in Screen
  BY <1>1, ApplyIs
<1>5. s1.bad \/ ~s1.alt
  BY <1>1 DEF Apply, Screen, Short, Fields
<1>6. s2.bad \/ ~s2.alt
  <2>1. CASE s1.bad
    BY <2>1 DEF Apply
  <2>2. CASE ~s1.bad
    BY <1>1, <1>4, <1>5, <2>2, ApplyIs DEF Steady
  <2>3. QED BY <2>1, <2>2
<1> HIDE DEF s1, s2
<1>7. s3.bad \/ (~s3.alt /\ s3.phase = "input")
  BY <1>1, <1>4, <1>6 DEF Apply, Screen, Short, Fields
<1>8. QED BY <1>3, <1>4, <1>7 DEF Open

\* ^C, then bracketed paste off: the line is given up, or the replay was.
LEMMA KillOver ==
  ASSUME NEW s \in Open
  PROVE  /\ Chars(<<"^", "C">>) \o <<Op("paste off")>> \in Seq(Token)
         /\ Feed(s, Chars(<<"^", "C">>) \o <<Op("paste off")>>) \in Over
<1> DEFINE U == Char("^")  C == Char("C")  E == Op("paste off")
           s1 == Apply(s, U)  s2 == Apply(s1, C)  s3 == Apply(s2, E)
           q == Chars(<<"^", "C">>) \o <<E>>
<1>1. /\ U \in Token /\ C \in Token /\ E \in Token /\ E.op = "paste off"
      /\ U.op = "put" /\ U.ch = "^" /\ C.op = "put" /\ C.ch = "C"
  <2>1. "^" \in Glyph /\ "C" \in Glyph /\ "paste off" \in Names
    BY DEF Glyph, Names
  <2>2. QED BY <2>1, PlainTokens
<1>2. q = <<U, C, E>>
  <2>1. Chars(<<"^", "C">>) = <<U, C>>
    BY DEF Chars
  <2> HIDE DEF U, C, E
  <2>2. <<U, C>> \o <<E>> = <<U, C, E>>
    <3>1. U \in Token /\ C \in Token /\ E \in Token
      BY <1>1
    <3>2. <<U, C>> \in Seq(Token)
      BY ONLY <3>1
    <3>3. <<U, C>> \o <<E>> = Append(<<U, C>>, E)
      BY ONLY <3>1, <3>2
    <3>4. <<U, C, E>> = Append(<<U, C>>, E)
      OBVIOUS
    <3>5. QED BY ONLY <3>3, <3>4
  <2>3. QED BY <2>1, <2>2
<1> HIDE DEF U, C, E, q
<1>3. q \in Seq(Token) /\ Feed(s, q) = s3
  <2>1. U \in Token /\ C \in Token /\ E \in Token
    BY <1>1
  <2>2. QED BY ONLY <1>2, <2>1, FeedThree
<1>4. s \in Screen /\ s1 \in Screen /\ s2 \in Screen /\ s3 \in Screen
  BY <1>1, ApplyIs DEF Open
<1>5. s1.bad \/ (~s1.alt /\ s1.phase = "input" /\ s1.tail = "^" /\ ~s1.lf)
  <2>1. CASE s.bad
    BY <2>1 DEF Apply
  <2>2. CASE ~s.bad
    <3>1. s1 = Put(s, "^") /\ "^" \in Glyph /\ ~s.alt /\ s.phase = "input"
      BY <1>1, <2>2 DEF Apply, Glyph, Open
    <3>2. Steady(s, Put(s, "^")) /\ Put(s, "^").tail = Tail2(s.tail, "^") /\ ~Put(s, "^").lf
      BY <1>4, <3>1, PutIs
    <3>3. QED BY <3>1, <3>2 DEF Steady, Tail2
  <2>3. QED BY <2>1, <2>2
<1> HIDE DEF s1
<1>6. s2.bad \/ (s2.tail = "^C" /\ ~s2.lf)
  <2>1. CASE s1.bad
    BY <2>1 DEF Apply
  <2>2. CASE ~s1.bad
    <3>1. s2 = Put(s1, "C") /\ "C" \in Glyph /\ ~s1.alt /\ s1.phase = "input" /\ s1.tail = "^"
      BY <1>1, <1>5, <2>2 DEF Apply, Glyph
    <3>2. Steady(s1, Put(s1, "C")) /\ Put(s1, "C").tail = Tail2(s1.tail, "C") /\ ~Put(s1, "C").lf
      BY <1>4, <3>1, PutIs
    <3>3. QED BY <3>1, <3>2 DEF Tail2
  <2>3. QED BY <2>1, <2>2
<1> HIDE DEF s2
<1>7. s3.bad \/ s3.abort
  BY <1>1, <1>4, <1>6 DEF Apply, Screen, Short, Fields
<1>8. QED BY <1>3, <1>4, <1>7 DEF Over, q, E

\* Sequences put end to end.
LEMMA FlattenTyped ==
  ASSUME NEW S, NEW qs \in Seq(Seq(S))
  PROVE  FlattenSeq(qs) \in Seq(S)
<1> DEFINE Flat(n, f) == f = [i \in 1 .. n |-> IF i = 1 THEN qs[i] ELSE f[i - 1] \o qs[i]]
           T == {n \in Nat : n \in 1 .. Len(qs) => \E f \in [1 .. n -> Seq(S)] : Flat(n, f)}
<1>1. CASE Len(qs) = 0
  <2>1. FlattenSeq(qs) = qs /\ qs = <<>>
    BY <1>1 DEF FlattenSeq
  <2>2. QED BY <2>1
<1>2. CASE Len(qs) # 0
  <2>1. 0 \in T
    OBVIOUS
  <2>2. ASSUME NEW n \in Nat, n \in T PROVE n + 1 \in T
    <3>1. SUFFICES ASSUME n + 1 \in 1 .. Len(qs)
                   PROVE  \E f \in [1 .. n + 1 -> Seq(S)] : Flat(n + 1, f)
      <4> HIDE DEF Flat
      <4>1. QED OBVIOUS
    <3>2. CASE n = 0
      <4> DEFINE f == [i \in 1 .. 1 |-> qs[1]]
      <4>1. f \in [1 .. 1 -> Seq(S)] /\ Flat(1, f)
        BY <3>1
      <4> HIDE DEF f, Flat
      <4>2. QED BY <3>2, <4>1
    <3>3. CASE n # 0
      <4>1. \E f \in [1 .. n -> Seq(S)] : Flat(n, f)
        <5> HIDE DEF Flat
        <5>1. QED BY <2>2, <3>1, <3>3
      <4>2. PICK f \in [1 .. n -> Seq(S)] : Flat(n, f)
        BY <4>1
      <4> DEFINE g == [i \in 1 .. n + 1 |-> IF i = n + 1 THEN f[n] \o qs[n + 1] ELSE f[i]]
      <4>3. g \in [1 .. n + 1 -> Seq(S)]
        <5>1. f[n] \in Seq(S) /\ qs[n + 1] \in Seq(S)
          BY <3>1, <3>3, <4>2
        <5>2. f[n] \o qs[n + 1] \in Seq(S)
          BY <5>1
        <5> DEFINE next == f[n] \o qs[n + 1]
        <5> HIDE DEF next
        <5>3. g = [i \in 1 .. n + 1 |-> IF i = n + 1 THEN next ELSE f[i]]
          BY DEF next
        <5>4. next \in Seq(S)
          BY <5>2 DEF next
        <5> HIDE DEF g
        <5>5. \A i \in 1 .. n + 1 : i # n + 1 => f[i] \in Seq(S)
          OBVIOUS
        <5>6. QED BY <5>3, <5>4, <5>5
      <4>4. \A i \in 1 .. n + 1 : g[i] = IF i = 1 THEN qs[i] ELSE g[i - 1] \o qs[i]
        <5>1. TAKE i \in 1 .. n + 1
        <5>2. CASE i = n + 1
          <6>1. g[i] = f[n] \o qs[n + 1] /\ g[i - 1] = f[n] /\ i # 1
            <7>1. i - 1 = n /\ n \in 1 .. n + 1 /\ n # n + 1 /\ n + 1 \in 1 .. n + 1 /\ i # 1
              BY <3>3, <5>2
            <7>2. g[n] = f[n] /\ g[n + 1] = f[n] \o qs[n + 1]
              BY <7>1
            <7> HIDE DEF g
            <7>3. QED BY <5>2, <7>1, <7>2
          <6>2. QED BY <5>2, <6>1
        <5>3. CASE i # n + 1
          <6>1. i \in 1 .. n /\ g[i] = f[i] /\ (i # 1 => g[i - 1] = f[i - 1])
            BY <5>3
          <6>2. f[i] = IF i = 1 THEN qs[i] ELSE f[i - 1] \o qs[i]
            BY <4>2, <6>1
          <6>3. QED BY <6>1, <6>2
        <5>4. QED BY <5>2, <5>3
      <4> HIDE DEF g
      <4>5. Flat(n + 1, g)
        BY <4>3, <4>4
      <4> HIDE DEF Flat
      <4>6. QED BY <4>3, <4>5
    <3>4. QED BY <3>2, <3>3
  <2>3. Len(qs) \in T
    <3> HIDE DEF T
    <3>1. Nat \subseteq T
      BY <2>1, <2>2, Induct
    <3>2. QED BY <3>1
  <2>4. \E f \in [1 .. Len(qs) -> Seq(S)] : Flat(Len(qs), f)
    <3> HIDE DEF Flat
    <3>1. QED BY <1>2, <2>3
  <2> DEFINE F == CHOOSE f : Flat(Len(qs), f)
  <2>5. Flat(Len(qs), F)
    <3> HIDE DEF Flat
    <3>1. QED BY <2>4
  <2>6. FlattenSeq(qs) = F[Len(qs)]
    BY <1>2 DEF FlattenSeq
  <2> HIDE DEF F
  <2> DEFINE V == {n \in Nat : n \in 1 .. Len(qs) => F[n] \in Seq(S)}
  <2>7. 0 \in V
    OBVIOUS
  <2>8. ASSUME NEW n \in Nat, n \in V PROVE n + 1 \in V
    <3>1. SUFFICES ASSUME n + 1 \in 1 .. Len(qs) PROVE F[n + 1] \in Seq(S)
      OBVIOUS
    <3>2. F[n + 1] = IF n + 1 = 1 THEN qs[n + 1] ELSE F[(n + 1) - 1] \o qs[n + 1]
      BY <2>5, <3>1
    <3>3. qs[n + 1] \in Seq(S) /\ (n # 0 => F[n] \in Seq(S)) /\ (n + 1) - 1 = n
      BY <2>8, <3>1
    <3>4. QED BY <3>2, <3>3
  <2>9. Len(qs) \in V
    <3> HIDE DEF V
    <3>1. Nat \subseteq V
      BY <2>7, <2>8, Induct
    <3>2. QED BY <3>1
  <2>10. QED BY <1>2, <2>6, <2>9
<1>3. QED BY <1>1, <1>2

\* What the editor writes are tokens that switch nothing.
LEMMA PlainOps ==
  /\ Op("cr") \in Plain /\ Op("lf") \in Plain /\ Op("bs") \in Plain
  /\ \A n \in Int : /\ CSI("A", n) \in Plain /\ CSI("B", n) \in Plain /\ CSI("C", n) \in Plain
                    /\ CSI("G", n) \in Plain /\ CSI("J", n) \in Plain /\ CSI("K", n) \in Plain
                    /\ CSI("P", n) \in Plain /\ CSI("@", n) \in Plain /\ CSI("L", n) \in Plain
                    /\ CSI("H", n) \in Plain
  /\ CSI("J", 0) \in Plain /\ CSI("K", 0) \in Plain /\ CSI("B", 1) \in Plain /\ CSI("G", 1) \in Plain
  /\ CSI("C", 1) \in Plain /\ CSI("A", 1) \in Plain /\ CSI("J", 2) \in Plain /\ CSI("L", 1) \in Plain
  /\ CSI("H", 0) \in Plain /\ CSI("P", 1) \in Plain
  /\ Char(" ") \in Plain /\ Char("m") \in Plain
<1>1. " " \in Glyph /\ "m" \in Glyph
  BY DEF Glyph
<1>2. {"cr", "lf", "bs"} \subseteq Names \ {"alt on", "alt off", "paste off", "phase P", "phase B"}
  BY DEF Names
<1>3. {"A", "B", "C", "G", "J", "K", "P", "@", "L", "H"} \subseteq Finals
  BY DEF Finals
<1>4. 0 \in Int /\ 1 \in Int /\ 2 \in Int
  OBVIOUS
<1>5. QED BY <1>1, <1>2, <1>3, <1>4, PlainTokens

LEMMA Tuples ==
  ASSUME NEW S
  PROVE  /\ <<>> \in Seq(S)
         /\ \A a \in S : <<a>> \in Seq(S)
         /\ \A a, b \in S : <<a, b>> \in Seq(S)
         /\ \A a, b, c \in S : <<a, b, c>> \in Seq(S)
         /\ \A a, b, c, d \in S : <<a, b, c, d>> \in Seq(S)
OBVIOUS

LEMMA CharsPlain ==
  ASSUME NEW text \in Seq(Glyph)
  PROVE  Chars(text) \in Seq(Plain)
<1>1. \A i \in DOMAIN text : Char(text[i]) \in Plain
  <2>1. \A i \in DOMAIN text : text[i] \in Glyph
    OBVIOUS
  <2>2. QED BY <2>1, PlainTokens
<1>2. DOMAIN text = 1 .. Len(text) /\ Len(text) \in Nat
  OBVIOUS
<1>3. QED BY <1>1, <1>2 DEF Chars

LEMMA Offsets ==
  ASSUME NEW o \in Int
  PROVE  RowOf(o) \in Int /\ ColOf(o) \in Int
BY RowTypes DEF RowOf, ColOf

LEMMA MovePlain ==
  ASSUME NEW a \in Int, NEW b \in Int
  PROVE  Move(a, b) \in Seq(Plain)
<1>1. /\ RowOf(a) - RowOf(b) \in Int /\ RowOf(b) - RowOf(a) \in Int /\ ColOf(b) + 1 \in Int
  BY Offsets
<1>2. /\ <<CSI("A", RowOf(a) - RowOf(b))>> \in Seq(Plain)
      /\ <<CSI("B", RowOf(b) - RowOf(a))>> \in Seq(Plain)
      /\ <<CSI("G", ColOf(b) + 1)>> \in Seq(Plain)
      /\ <<>> \in Seq(Plain)
  BY <1>1, PlainOps, Tuples
<1>3. b < a => [i \in 1 .. a - b |-> Op("bs")] \in Seq(Plain)
  <2>1. ASSUME b < a PROVE a - b \in Nat
    BY <2>1
  <2>2. \A n \in Nat, t \in Plain : [i \in 1 .. n |-> t] \in Seq(Plain)
    OBVIOUS
  <2>3. QED BY <2>1, <2>2, PlainOps
<1> DEFINE up == <<CSI("A", RowOf(a) - RowOf(b))>>
           down == <<CSI("B", RowOf(b) - RowOf(a))>>
           across == <<CSI("G", ColOf(b) + 1)>>
           vertical == IF RowOf(b) < RowOf(a) THEN up ELSE IF RowOf(b) > RowOf(a) THEN down ELSE <<>>
           back == [i \in 1 .. a - b |-> Op("bs")]
<1>4. Move(a, b) = IF a = b THEN <<>> ELSE IF RowOf(a) = RowOf(b) /\ b < a THEN back
                   ELSE vertical \o across
  BY DEF Move
<1> HIDE DEF up, down, across, back
<1>5. vertical \in Seq(Plain) /\ across \in Seq(Plain) /\ <<>> \in Seq(Plain)
  BY <1>2 DEF up, down, across
<1> HIDE DEF vertical
<1>6. vertical \o across \in Seq(Plain)
  BY <1>5
<1>7. b < a => back \in Seq(Plain)
  BY <1>3 DEF back
<1>8. QED BY <1>4, <1>5, <1>6, <1>7

LEMMA PrintPlain ==
  ASSUME NEW o \in Int, NEW text \in Seq(Glyph)
  PROVE  PrintAt(o, text) \in Seq(Plain)
<1>1. <<Char(" "), Op("cr")>> \in Seq(Plain) /\ <<>> \in Seq(Plain)
  BY PlainOps, Tuples
<1> DEFINE end == IF text # <<>> /\ ColOf(o + Len(text)) = 0 THEN <<Char(" "), Op("cr")>> ELSE <<>>
<1>2. PrintAt(o, text) = Chars(text) \o end
  BY DEF PrintAt
<1>3. end \in Seq(Plain)
  BY <1>1
<1> HIDE DEF end
<1>4. QED BY <1>2, <1>3, CharsPlain

LEMMA WipePlain ==
  ASSUME NEW mode \in {"J", "K"}, NEW o \in Int, NEW old \in Int
  PROVE  Wipe(mode, o, old) \in Seq(Plain)
<1> DEFINE k == RowOf(old) - RowOf(o)
           each == <<CSI("B", 1), CSI("G", 1), CSI("K", 0)>>
           rows == [i \in 1 .. k |-> each]
           here == <<CSI("K", 0)>>
           home == <<CSI("A", k), CSI("G", ColOf(o) + 1)>>
           once == <<CSI(mode, 0)>>
<1>1. k \in Int /\ ColOf(o) + 1 \in Int
  BY Offsets
<1>2. each \in Seq(Plain) /\ here \in Seq(Plain) /\ once \in Seq(Plain)
  BY PlainOps, Tuples
<1>3. home \in Seq(Plain)
  BY <1>1, PlainOps, Tuples
<1>4. Wipe(mode, o, old) = IF mode = "J" \/ RowOf(old) = RowOf(o) THEN once
                           ELSE here \o FlattenSeq(rows) \o home
  BY DEF Wipe
<1> HIDE DEF k, each, here, home, once
<1>5. rows \in Seq(Seq(Plain))
  <2>1. CASE k >= 0
    BY <1>1, <1>2, <2>1
  <2>2. CASE k < 0
    <3>1. 1 .. k = {}
      BY <1>1, <2>2
    <3>2. rows = <<>>
      BY <3>1
    <3>3. QED BY <3>2, Tuples
  <2>3. QED BY <1>1, <2>1, <2>2
<1> HIDE DEF rows
<1>6. FlattenSeq(rows) \in Seq(Plain)
  BY <1>5, FlattenTyped
<1>7. here \o FlattenSeq(rows) \o home \in Seq(Plain)
  BY <1>2, <1>3, <1>6
<1>8. QED BY <1>2, <1>4, <1>7

EditorTypes == line \in Seq(Glyph) /\ point \in Int

LEMMA LineParts ==
  ASSUME NEW text \in Seq(Glyph), NEW p \in Nat
  PROVE  /\ From(text, p) \in Seq(Glyph)
         /\ p <= Len(text) => SubSeq(text, 1, p) \in Seq(Glyph)
BY DEF From

LEMMA RedrawPlain ==
  ASSUME EditorTypes, NEW o \in Int, NEW p \in Nat, NEW new \in Seq(Glyph), NEW q \in Int,
         NEW mode \in {"J", "K"}
  PROVE  Redraw(o, p, new, q, mode) \in Seq(Plain)
<1> DEFINE first == Move(o, At(p))
           text == PrintAt(At(p), From(new, p))
           rest == IF Len(new) < Len(line) THEN Wipe(mode, At(Len(new)), At(Len(line))) ELSE <<>>
           last == Move(At(Len(new)), At(q))
<1>1. At(p) \in Int /\ At(q) \in Int /\ At(Len(new)) \in Int /\ At(Len(line)) \in Int
  BY DEF At, EditorTypes
<1>2. first \in Seq(Plain) /\ last \in Seq(Plain)
  BY <1>1, MovePlain
<1>3. text \in Seq(Plain)
  BY <1>1, PrintPlain, LineParts
<1>4. rest \in Seq(Plain)
  <2>1. Wipe(mode, At(Len(new)), At(Len(line))) \in Seq(Plain) /\ <<>> \in Seq(Plain)
    BY <1>1, WipePlain, Tuples
  <2>2. QED BY <2>1
<1>5. Redraw(o, p, new, q, mode) = first \o text \o rest \o last
  BY DEF Redraw
<1> HIDE DEF first, text, rest, last
<1>6. QED BY <1>2, <1>3, <1>4, <1>5

LEMMA HideRightPlain ==
  ASSUME EditorTypes, NEW text
  PROVE  HideRight(text) \in Seq(Plain)
<1>1. At(point) \in Int /\ Width - Len(RightPrompt) \in Int
  BY RowTypes, EchoAssumption DEF At, EditorTypes
<1> DEFINE to == Move(At(point), Width - Len(RightPrompt))
           wipe == <<CSI("K", 0)>>
           back == <<CSI("G", ColOf(At(point)) + 1)>>
<1>2. to \in Seq(Plain)
  BY <1>1, MovePlain
<1>3. wipe \in Seq(Plain) /\ back \in Seq(Plain)
  <2>1. ColOf(At(point)) + 1 \in Int
    BY <1>1, Offsets
  <2>2. CSI("K", 0) \in Plain /\ CSI("G", ColOf(At(point)) + 1) \in Plain
    BY <2>1, PlainOps
  <2>3. QED BY <2>2, Tuples
<1>4. HideRight(text) = IF right /\ ~Fits(text) THEN to \o wipe \o back ELSE <<>>
  BY DEF HideRight
<1> HIDE DEF to, wipe, back
<1>5. to \o wipe \o back \in Seq(Plain) /\ <<>> \in Seq(Plain)
  BY <1>2, <1>3
<1>6. QED BY <1>4, <1>5

LEMMA RightPlain == RightTokens \in Seq(Plain)
<1> DEFINE to == <<CSI("G", Width - Len(RightPrompt) + 1)>>
           back == <<Op("cr"), CSI("C", 1)>>
<1>1. Width - Len(RightPrompt) + 1 \in Int /\ RightPrompt \in Seq(Glyph)
  <2>1. STRING \subseteq Glyph /\ RightPrompt \in Seq(STRING)
    BY EchoAssumption DEF Glyph
  <2>2. Len(RightPrompt) \in Nat /\ RightPrompt \in Seq(Glyph)
    <3>1. \A S, T : S \subseteq T => \A q \in Seq(S) : q \in Seq(T) /\ Len(q) \in Nat
      OBVIOUS
    <3>2. QED BY ONLY <2>1, <3>1
  <2>3. QED BY <2>2, RowTypes
<1>2. to \in Seq(Plain) /\ back \in Seq(Plain) /\ Chars(RightPrompt) \in Seq(Plain) /\ <<>> \in Seq(Plain)
  BY <1>1, PlainOps, Tuples, CharsPlain
<1>3. RightTokens = IF RightPrompt = <<>> THEN <<>> ELSE to \o Chars(RightPrompt) \o back
  BY DEF RightTokens
<1> HIDE DEF to, back
<1>4. to \o Chars(RightPrompt) \o back \in Seq(Plain)
  BY <1>2
<1>5. QED BY <1>2, <1>3, <1>4

LEMMA ToEndPlain ==
  ASSUME EditorTypes
  PROVE  ToEnd \in Seq(Plain)
<1> DEFINE wipe == IF menu THEN <<CSI("J", 0)>> ELSE <<>>
           to == Move(At(point), At(Len(line)))
<1>1. to \in Seq(Plain)
  BY MovePlain DEF At, EditorTypes
<1>2. wipe \in Seq(Plain)
  <2>1. <<CSI("J", 0)>> \in Seq(Plain) /\ <<>> \in Seq(Plain)
    BY PlainOps, Tuples
  <2>2. QED BY <2>1
<1>3. ToEnd = wipe \o to
  BY DEF ToEnd
<1> HIDE DEF wipe, to
<1>4. QED BY <1>1, <1>2, <1>3

EchoInv ==
  /\ screen \in Screen
  /\ line \in Seq(Glyph) /\ point \in 0 .. Len(line)
  /\ stage \in {"edit", "accepted", "killed"}
  /\ stage = "edit" => screen \in Open
  /\ stage = "killed" => screen \in Over

LEMMA WordsTyped ==
  ASSUME NEW w \in Words
  PROVE  w \in Seq(Glyph) /\ Len(w) \in Nat
<1>1. w \in Seq(STRING) /\ STRING \subseteq Glyph
  BY EchoAssumption DEF Glyph
<1>2. \A S, T : S \subseteq T => \A q \in Seq(S) : q \in Seq(T) /\ Len(q) \in Nat
  OBVIOUS
<1>3. QED BY ONLY <1>1, <1>2

\* A step that feeds plain tokens to an open screen, whatever they are.
LEMMA StaysOpen ==
  ASSUME EchoInv, Editing, NEW q \in Seq(Plain), screen' = Feed(screen, q),
         line' \in Seq(Glyph), point' \in 0 .. Len(line'), UNCHANGED stage
  PROVE  EchoInv'
<1>1. screen \in Open /\ stage = "edit"
  BY DEF EchoInv, Editing
<1>2. screen' \in Open
  BY <1>1, FeedOpen
<1>3. QED BY <1>1, <1>2 DEF EchoInv, Open

LEMMA FreshOpens ==
  ASSUME NEW q \in Seq(Plain)
  PROVE  Feed(Fresh, PromptTokens \o q) \in Open
<1>1. Fresh \in Screen /\ ~Fresh.alt
  <2>1. <<>> \in Seq(GridRow) /\ Len(<<>>) = 0 /\ 0 \in 0 .. Width /\ 0 \in 0 .. MaxRows - 1
        /\ MaxRows \in Nat \ {0}
    BY RowTypes
  <2>2. <<0, 0>> \in (0 .. MaxRows - 1) \X (0 .. Width)
    BY <2>1
  <2>3. Fresh \in Fields /\ Fresh.rows = <<>> /\ Fresh.r = 0
    BY <2>1, <2>2 DEF Fresh, Fields
  <2>4. QED BY <2>1, <2>3 DEF Screen, Short, Fresh
<1>2. PromptTokens \in Seq(Token) /\ Feed(Fresh, PromptTokens) \in Open
  BY <1>1, PromptOpens
<1>3. q \in Seq(Token)
  <2>1. \A S, T : S \subseteq T => \A p \in Seq(S) : p \in Seq(T)
    OBVIOUS
  <2>2. QED BY ONLY <2>1, PlainTokens, q \in Seq(Plain)
<1>4. Feed(Fresh, PromptTokens \o q) = Feed(Feed(Fresh, PromptTokens), q)
  BY <1>2, <1>3, FeedConcat
<1>5. QED BY <1>2, <1>4, FeedOpen

LEMMA EchoInit == Init => EchoInv
<1>1. SUFFICES ASSUME Init PROVE EchoInv
  OBVIOUS
<1>2. screen \in Open
  BY <1>1, RightPlain, FreshOpens DEF Init
<1>3. line = <<>> /\ point = 0 /\ stage = "edit"
  BY <1>1 DEF Init
<1>4. QED BY <1>2, <1>3 DEF EchoInv, Open

LEMMA EditKeeps ==
  ASSUME EchoInv, NEW p \in Nat, NEW new \in Seq(Glyph), NEW q \in 0 .. Len(new), Edit(p, new, q)
  PROVE  EchoInv'
<1>1. EditorTypes
  BY DEF EchoInv, EditorTypes
<1>2. PICK mode \in EraseWith :
        screen' = Feed(screen, (IF menu THEN <<CSI("J", 0)>> ELSE <<>>)
                               \o HideRight(new) \o Redraw(At(point), p, new, q, mode))
  BY DEF Edit
<1> DEFINE wipe == IF menu THEN <<CSI("J", 0)>> ELSE <<>>
           hide == HideRight(new)
           redraw == Redraw(At(point), p, new, q, mode)
<1>3. wipe \in Seq(Plain)
  BY PlainOps, Tuples
<1>4. hide \in Seq(Plain)
  BY <1>1, HideRightPlain
<1>5. redraw \in Seq(Plain)
  <2>1. mode \in {"J", "K"} /\ At(point) \in Int /\ q \in Int
    BY <1>1, EchoAssumption DEF EditorTypes, At
  <2>2. QED BY <1>1, <2>1, RedrawPlain
<1>6. screen' = Feed(screen, wipe \o hide \o redraw)
  BY <1>2
<1> HIDE DEF wipe, hide, redraw
<1>7. wipe \o hide \o redraw \in Seq(Plain)
  BY <1>3, <1>4, <1>5
<1>8. Editing /\ line' = new /\ point' = q /\ UNCHANGED stage
  BY DEF Edit
<1>9. QED BY <1>6, <1>7, <1>8, StaysOpen

LEMMA LineEdits ==
  ASSUME EchoInv, NEW w \in Seq(Glyph)
  PROVE  /\ point \in Nat /\ Len(line) \in Nat
         /\ SubSeq(line, 1, point) \o w \o From(line, point) \in Seq(Glyph)
         /\ Len(SubSeq(line, 1, point) \o w \o From(line, point)) = Len(line) + Len(w)
<1>1. line \in Seq(Glyph) /\ point \in 0 .. Len(line)
  BY DEF EchoInv
<1>2. /\ SubSeq(line, 1, point) \in Seq(Glyph) /\ Len(SubSeq(line, 1, point)) = point
      /\ From(line, point) \in Seq(Glyph) /\ Len(From(line, point)) = Len(line) - point
  BY <1>1 DEF From
<1> DEFINE a == SubSeq(line, 1, point)  b == From(line, point)
<1> HIDE DEF a, b
<1>3. a \in Seq(Glyph) /\ b \in Seq(Glyph) /\ Len(a) = point /\ Len(b) = Len(line) - point
  BY <1>2 DEF a, b
<1>4. a \o w \o b \in Seq(Glyph) /\ Len(a \o w \o b) = Len(a) + Len(w) + Len(b)
  <2>1. \A S : \A x, y, z \in Seq(S) :
          x \o y \o z \in Seq(S) /\ Len(x \o y \o z) = Len(x) + Len(y) + Len(z)
    OBVIOUS
  <2>2. QED BY ONLY <1>3, <2>1, w \in Seq(Glyph)
<1>5. QED BY <1>1, <1>3, <1>4 DEF a, b

LEMMA CutEdits ==
  ASSUME EchoInv, point > 0
  PROVE  /\ SubSeq(line, 1, point - 1) \o From(line, point) \in Seq(Glyph)
         /\ Len(SubSeq(line, 1, point - 1) \o From(line, point)) = Len(line) - 1
<1>1. line \in Seq(Glyph) /\ point \in 1 .. Len(line)
  BY DEF EchoInv
<1>2. /\ SubSeq(line, 1, point - 1) \in Seq(Glyph) /\ Len(SubSeq(line, 1, point - 1)) = point - 1
      /\ From(line, point) \in Seq(Glyph) /\ Len(From(line, point)) = Len(line) - point
  BY <1>1 DEF From
<1>3. QED BY <1>1, <1>2

LEMMA PromptSeq == PromptTokens \in Seq(Token)
<1>1. "$" \in Glyph /\ "phase P" \in Names /\ "phase B" \in Names
  BY DEF Glyph, Names
<1>2. Op("phase P") \in Token /\ Char("$") \in Token /\ Op("phase B") \in Token
  BY <1>1, PlainTokens
<1>3. QED BY <1>2, Tuples DEF PromptTokens

\* The picker's drawing goes to the alternate screen, which it leaves.
LEMMA PickerKeeps ==
  ASSUME EchoInv, Picker
  PROVE  EchoInv'
<1> DEFINE on == Op("alt on")  off == Op("alt off")
           X == {x \in Screen : x.bad \/ x.phase = "input"}
           S == Plain \cup {on, off}
           p == <<on, CSI("H", 0), Char("m"), Op("lf")>>
<1>1. Editing /\ screen' = Feed(screen, <<on, CSI("H", 0), Char("m"), Op("lf"), off>>)
      /\ UNCHANGED <<line, point, stage>>
  BY DEF Picker
<1>2. on \in Token /\ off \in Token /\ on.op = "alt on" /\ off.op = "alt off"
  BY PlainTokens DEF Names
<1> HIDE DEF on, off
<1>3. S \subseteq Token
  BY <1>2, PlainTokens
<1>4. \A x \in X, t \in S : Apply(x, t) \in X
  <2>1. TAKE x \in X, t \in S
  <2>2. x \in Screen /\ t \in Token
    BY <1>3
  <2>3. CASE x.bad
    BY <2>3 DEF Apply
  <2>4. CASE ~x.bad /\ t \in Plain
    BY <2>2, <2>4, ApplyIs DEF Steady
  <2>5. CASE ~x.bad /\ t \in {on, off}
    <3>1. Apply(x, t) \in Screen
      BY <2>2, ApplyIs
    <3>2. Apply(x, t).phase = x.phase
      BY <1>2, <2>2, <2>5 DEF Apply, Screen, Short, Fields
    <3>3. QED BY <2>5, <3>1, <3>2
  <2>6. QED BY <2>3, <2>4, <2>5
<1>5. p \in Seq(S) /\ p \in Seq(Token)
  <2>1. on \in S /\ CSI("H", 0) \in S /\ Char("m") \in S /\ Op("lf") \in S
    BY PlainOps
  <2> HIDE DEF S
  <2>2. p \in Seq(S)
    BY <2>1
  <2>3. \A V, W : V \subseteq W => \A q \in Seq(V) : q \in Seq(W)
    OBVIOUS
  <2> HIDE DEF p
  <2>4. QED BY <1>3, <2>2, <2>3
<1>6. screen' = Apply(Feed(screen, p), off)
  <2>1. <<on, CSI("H", 0), Char("m"), Op("lf"), off>> = Append(p, off)
    OBVIOUS
  <2> HIDE DEF p
  <2>2. QED BY <1>1, <1>2, <1>5, <2>1, FeedLast
<1>7. screen \in X /\ stage = "edit" /\ line \in Seq(Glyph) /\ point \in 0 .. Len(line)
  BY <1>1 DEF EchoInv, Editing, Open
<1> DEFINE s == Feed(screen, p)
<1>8. s \in X
  <2> HIDE DEF p, X, S
  <2>1. QED BY <1>3, <1>4, <1>5, <1>7, FeedKeeps
<1> HIDE DEF s
<1>9. Apply(s, off) \in Open
  <2>1. Apply(s, off) \in Screen
    BY <1>2, <1>8, ApplyIs
  <2>2. CASE s.bad
    BY <2>1, <2>2 DEF Apply, Open
  <2>3. CASE ~s.bad
    <3>1. Apply(s, off) = [s EXCEPT !.alt = FALSE]
      BY <1>2, <2>3 DEF Apply
    <3>2. QED BY <1>8, <2>1, <2>3, <3>1 DEF Open, Screen, Short, Fields
  <2>4. QED BY <2>2, <2>3
<1>10. QED BY <1>1, <1>6, <1>7, <1>9 DEF EchoInv, Open, s

LEMMA ContinueKeeps ==
  ASSUME EchoInv, EditorTypes, Continue
  PROVE  EchoInv'
<1> DEFINE e == <<Op("cr"), Op("lf")>>
           q == ToEnd \o e
<1>1. Editing /\ screen' = Feed(screen, ToEnd \o e \o PromptTokens) /\ line' = <<>> /\ point' = 0
      /\ UNCHANGED stage
  BY DEF Continue
<1>2. e \in Seq(Plain)
  BY PlainOps, Tuples
<1> HIDE DEF e
<1>3. q \in Seq(Plain)
  BY <1>2, ToEndPlain
<1>4. q \in Seq(Token) /\ PromptTokens \in Seq(Token)
  <2>1. \A V, W : V \subseteq W => \A x \in Seq(V) : x \in Seq(W)
    OBVIOUS
  <2> HIDE DEF q
  <2>2. QED BY <1>3, <2>1, PlainTokens, PromptSeq
<1>5. screen \in Open /\ stage = "edit"
  BY <1>1 DEF EchoInv, Editing
<1>6. screen' = Feed(screen, q \o PromptTokens)
  BY <1>1
<1> HIDE DEF q
<1>7. screen' = Feed(Feed(screen, q), PromptTokens)
  BY <1>4, <1>6, FeedConcat
<1>8. Feed(screen, q) \in Open
  BY <1>3, <1>5, FeedOpen
<1>9. screen' \in Open
  BY <1>7, <1>8, PromptOpens DEF Open
<1>10. QED BY <1>1, <1>5, <1>9 DEF EchoInv, Open

LEMMA AcceptKeeps ==
  ASSUME EchoInv, EditorTypes, Accept
  PROVE  EchoInv'
<1> DEFINE e == <<Op("cr"), Op("lf"), Op("paste off"), Op("cr")>>
<1>1. screen' = Feed(screen, ToEnd \o e) /\ stage' = "accepted" /\ UNCHANGED <<line, point>>
  BY DEF Accept
<1>2. e \in Seq(Token)
  <2>1. Op("cr") \in Token /\ Op("lf") \in Token /\ Op("paste off") \in Token
    BY PlainTokens DEF Names
  <2> HIDE DEF Op, Token
  <2>2. QED BY <2>1, Tuples
<1> HIDE DEF e
<1>3. ToEnd \in Seq(Token)
  <2>1. \A V, W : V \subseteq W => \A x \in Seq(V) : x \in Seq(W)
    OBVIOUS
  <2>2. QED BY <2>1, ToEndPlain, PlainTokens
<1>4. ToEnd \o e \in Seq(Token)
  BY <1>2, <1>3
<1>5. screen' \in Screen
  BY <1>1, <1>4, FeedTyped DEF EchoInv
<1>6. QED BY <1>1, <1>5 DEF EchoInv

LEMMA KillKeeps ==
  ASSUME EchoInv, Kill
  PROVE  EchoInv'
<1> DEFINE k == Chars(<<"^", "C">>) \o <<Op("paste off")>>
<1>1. Editing /\ stage' = "killed" /\ UNCHANGED <<line, point>>
  BY DEF Kill
<1>2. PICK noise \in {<<>>, <<Op("cr"), Op("lf")>>} : screen' = Feed(screen, k \o noise)
  BY DEF Kill
<1>3. noise \in Seq(Plain)
  <2>1. <<>> \in Seq(Plain) /\ <<Op("cr"), Op("lf")>> \in Seq(Plain)
    BY PlainOps, Tuples
  <2>2. QED BY <2>1
<1>4. noise \in Seq(Token)
  <2>1. \A V, W : V \subseteq W => \A x \in Seq(V) : x \in Seq(W)
    OBVIOUS
  <2>2. QED BY ONLY <1>3, <2>1, PlainTokens
<1>5. screen \in Open
  BY <1>1 DEF EchoInv, Editing
<1>6. k \in Seq(Token) /\ Feed(screen, k) \in Over
  BY <1>5, KillOver
<1> HIDE DEF k
<1>7. screen' = Feed(Feed(screen, k), noise)
  BY <1>2, <1>4, <1>6, FeedConcat
<1>8. screen' \in Over
  BY <1>3, <1>6, <1>7, FeedOver
<1>9. QED BY <1>1, <1>8 DEF EchoInv, Over

LEMMA EchoNext == EchoInv /\ [Next]_vars => EchoInv'
<1>1. SUFFICES ASSUME EchoInv, [Next]_vars PROVE EchoInv'
  OBVIOUS
<1>2. /\ line \in Seq(Glyph) /\ Len(line) \in Nat /\ point \in 0 .. Len(line) /\ point \in Nat
      /\ EditorTypes
  BY <1>1 DEF EchoInv, EditorTypes
<1>3. CASE Insert
  <2>1. PICK w \in Words :
          Edit(point, SubSeq(line, 1, point) \o w \o From(line, point), point + Len(w))
    BY <1>3 DEF Insert
  <2>2. point + Len(w) \in 0 .. Len(SubSeq(line, 1, point) \o w \o From(line, point))
    BY <1>1, <1>2, WordsTyped, LineEdits
  <2>3. QED BY <1>1, <1>2, <2>1, <2>2, WordsTyped, LineEdits, EditKeeps
<1>4. CASE InsertShift
  <2>1. PICK w \in Words :
          /\ Editing
          /\ screen' = Feed(screen, <<CSI("@", Len(w))>> \o Chars(w))
          /\ line' = SubSeq(line, 1, point) \o w \o From(line, point) /\ point' = point + Len(w)
          /\ UNCHANGED stage
    BY <1>4 DEF InsertShift
  <2>2. <<CSI("@", Len(w))>> \in Seq(Plain) /\ Chars(w) \in Seq(Plain)
    <3>1. w \in Seq(Glyph) /\ Len(w) \in Int
      BY WordsTyped
    <3>2. CSI("@", Len(w)) \in Plain /\ Chars(w) \in Seq(Plain)
      BY <3>1, PlainOps, CharsPlain
    <3>3. QED BY <3>2, Tuples
  <2>3. <<CSI("@", Len(w))>> \o Chars(w) \in Seq(Plain)
    BY <2>2
  <2>4. line' \in Seq(Glyph) /\ point' \in 0 .. Len(line')
    BY <1>1, <1>2, <2>1, WordsTyped, LineEdits
  <2>5. QED BY <1>1, <2>1, <2>3, <2>4, StaysOpen
<1>5. CASE Rubout
  <2>1. /\ point > 0
        /\ Edit(point - 1, SubSeq(line, 1, point - 1) \o From(line, point), point - 1)
    BY <1>5 DEF Rubout
  <2>2. point - 1 \in Nat /\ point - 1 \in 0 .. Len(SubSeq(line, 1, point - 1) \o From(line, point))
    BY <1>1, <1>2, <2>1, CutEdits
  <2>3. QED BY <1>1, <2>1, <2>2, CutEdits, EditKeeps
<1>6. CASE DeleteShift
  <2>1. /\ Editing /\ point < Len(line)
        /\ screen' = Feed(screen, <<CSI("P", 1)>>)
        /\ line' = SubSeq(line, 1, point) \o From(line, point + 1)
        /\ point' = point /\ UNCHANGED stage
    BY <1>6 DEF DeleteShift
  <2>2. /\ SubSeq(line, 1, point) \in Seq(Glyph) /\ Len(SubSeq(line, 1, point)) = point
        /\ From(line, point + 1) \in Seq(Glyph) /\ Len(From(line, point + 1)) \in Nat
    BY <1>2, <2>1 DEF From
  <2>3. line' \in Seq(Glyph) /\ point' \in 0 .. Len(line')
    <3>1. \A a, b \in Seq(Glyph) : a \o b \in Seq(Glyph) /\ Len(a \o b) = Len(a) + Len(b)
      OBVIOUS
    <3>2. QED BY <1>2, <2>1, <2>2, <3>1
  <2>4. <<CSI("P", 1)>> \in Seq(Plain)
    BY PlainOps, Tuples
  <2>5. QED BY <1>1, <2>1, <2>3, <2>4, StaysOpen
<1>7. CASE Cursor
  <2>1. PICK q \in 0 .. Len(line) : Edit(Len(line), line, q)
    BY <1>7 DEF Cursor
  <2>2. QED BY <1>1, <1>2, <2>1, EditKeeps
<1>8. CASE KillToEnd
  <2>1. Edit(point, SubSeq(line, 1, point), point)
    BY <1>8 DEF KillToEnd
  <2>2. SubSeq(line, 1, point) \in Seq(Glyph) /\ point \in 0 .. Len(SubSeq(line, 1, point))
    BY <1>2
  <2>3. QED BY <1>1, <1>2, <2>1, <2>2, EditKeeps
<1>9. CASE Replace
  <2>1. PICK w \in Words : Edit(0, w, Len(w))
    BY <1>9 DEF Replace
  <2>2. 0 \in Nat /\ Len(w) \in 0 .. Len(w)
    BY WordsTyped
  <2>3. QED BY <1>1, <2>1, <2>2, WordsTyped, EditKeeps
<1>10. CASE OpenMenu
  <2> DEFINE p == <<Op("cr"), Op("lf")>>
             m == Chars(<<"m", "m">>)
             q == <<CSI("A", 1), CSI("G", ColOf(At(point)) + 1)>>
  <2>1. Editing /\ screen' = Feed(screen, p \o m \o q) /\ UNCHANGED <<line, point, stage>>
    BY <1>10 DEF OpenMenu
  <2>2. p \in Seq(Plain)
    BY PlainOps, Tuples
  <2>3. m \in Seq(Plain)
    <3>1. "m" \in Glyph
      BY DEF Glyph
    <3>2. <<"m", "m">> \in Seq(Glyph)
      BY <3>1, Tuples
    <3>3. QED BY <3>2, CharsPlain
  <2>4. q \in Seq(Plain)
    <3>1. ColOf(At(point)) + 1 \in Int
      BY <1>2, Offsets DEF At
    <3>2. CSI("A", 1) \in Plain /\ CSI("G", ColOf(At(point)) + 1) \in Plain
      BY <3>1, PlainOps
    <3>3. QED BY <3>2, Tuples
  <2> HIDE DEF p, m, q
  <2>5. p \o m \o q \in Seq(Plain)
    BY <2>2, <2>3, <2>4
  <2>6. line' \in Seq(Glyph) /\ point' \in 0 .. Len(line')
    BY <1>2, <2>1
  <2>7. QED BY <1>1, <2>1, <2>5, <2>6, StaysOpen
<1>11. CASE Picker
  BY <1>1, <1>11, PickerKeeps
<1>12. CASE Repaint
  <2> DEFINE r == IF right THEN RightTokens ELSE <<>>
             p == PrintAt(At(0), line)
             m == Move(At(Len(line)), At(point))
  <2>1. /\ stage = "edit" /\ UNCHANGED <<line, point, stage>>
        /\ screen' = Feed(Fresh, PromptTokens \o r \o p \o m)
    BY <1>12 DEF Repaint, Editing
  <2>2. r \in Seq(Plain)
    BY RightPlain, Tuples
  <2>3. p \in Seq(Plain)
    BY <1>2, PrintPlain DEF At
  <2>4. m \in Seq(Plain)
    BY <1>2, MovePlain DEF At
  <2> HIDE DEF r, p, m
  <2>5. r \o p \o m \in Seq(Plain)
    BY <2>2, <2>3, <2>4
  <2>6. PromptTokens \o r \o p \o m = PromptTokens \o (r \o p \o m)
    <3>1. PromptTokens \in Seq(Token)
      BY PromptSeq
    <3>2. Plain \subseteq Token
      BY PlainTokens
    <3>3. r \in Seq(Token) /\ p \in Seq(Token) /\ m \in Seq(Token)
      <4>1. \A S, T : S \subseteq T => \A x \in Seq(S) : x \in Seq(T)
        OBVIOUS
      <4>2. QED BY ONLY <2>2, <2>3, <2>4, <3>2, <4>1
    <3> DEFINE pr == PromptTokens
    <3>4. pr \in Seq(Token)
      BY <3>1
    <3> HIDE DEF pr
    <3>5. PICK a, b, c, d \in Seq(Token) : a = pr /\ b = r /\ c = p /\ d = m
      BY <3>3, <3>4
    <3>6. a \o b \o c \o d = a \o (b \o c \o d)
      <4>1. \A x, y, z \in Seq(Token) : (x \o y) \o z = x \o (y \o z)
        OBVIOUS
      <4>2. a \o b \in Seq(Token) /\ b \o c \in Seq(Token)
        OBVIOUS
      <4>3. ((a \o b) \o c) \o d = (a \o (b \o c)) \o d
        BY <4>1
      <4>4. (a \o (b \o c)) \o d = a \o ((b \o c) \o d)
        BY <4>1, <4>2
      <4>5. QED BY <4>3, <4>4
    <3>7. pr \o r \o p \o m = pr \o (r \o p \o m)
      BY <3>5, <3>6
    <3>8. QED BY <3>7 DEF pr
  <2>7. screen' \in Open
    BY <2>1, <2>5, <2>6, FreshOpens
  <2>8. QED BY <1>2, <2>1, <2>7 DEF EchoInv, Open
<1>13. CASE Continue
  BY <1>1, <1>2, <1>13, ContinueKeeps
<1>14. CASE Accept
  BY <1>1, <1>2, <1>14, AcceptKeeps
<1>15. CASE Kill
  BY <1>1, <1>2, <1>15, KillKeeps
<1>16. CASE Trick
  <2>1. /\ Editing /\ UNCHANGED <<line, point, stage>>
        /\ \/ screen' = Feed(screen, <<CSI("J", 2)>>)
           \/ screen' = Feed(screen, <<CSI("L", 1)>>)
           \/ screen' = Feed(screen, <<CSI("H", 0)>>)
    BY <1>16 DEF Trick
  <2>2. /\ <<CSI("J", 2)>> \in Seq(Plain) /\ <<CSI("L", 1)>> \in Seq(Plain)
        /\ <<CSI("H", 0)>> \in Seq(Plain)
    BY PlainOps, Tuples
  <2>3. \E q \in Seq(Plain) : screen' = Feed(screen, q)
    BY <2>1, <2>2
  <2>4. line' \in Seq(Glyph) /\ point' \in 0 .. Len(line')
    BY <1>2, <2>1
  <2>5. QED BY <1>1, <2>1, <2>3, <2>4, StaysOpen
<1>17. CASE UNCHANGED vars
  BY <1>1, <1>17 DEF vars, EchoInv
<1>18. QED BY <1>1, <1>3, <1>4, <1>5, <1>6, <1>7, <1>8, <1>9, <1>10, <1>11, <1>12, <1>13, <1>14, <1>15,
              <1>16, <1>17 DEF Next

LEMMA EchoAlways == Spec => []EchoInv
BY EchoInit, EchoNext, PTL DEF Spec

\* The replay never has more rows than its cap, nor its cursor off the grid
\* (echoScreen.row, put and feedCSI), whatever the terminal's size and
\* whatever is typed.
THEOREM GridOKHolds == Spec => []GridOK
<1>1. ASSUME EchoInv PROVE GridOK
  <2>1. /\ screen.rows \in Seq(GridRow) /\ Len(screen.rows) <= MaxRows
        /\ screen.r \in 0 .. MaxRows - 1 /\ screen.c \in 0 .. Width
    BY <1>1, Fresh1 DEF EchoInv
  <2>2. \A i \in DOMAIN screen.rows : screen.rows[i] \in GridRow
    BY <2>1
  <2>3. \A row \in GridRow : DOMAIN row.cells = Columns
    BY DEF GridRow
  <2>4. QED BY <2>1, <2>2, <2>3 DEF GridOK
<1>2. QED BY <1>1, EchoAlways, PTL

\* However a line was edited before it was killed with Ctrl-C, and on whatever
\* screen, the replay reads nothing from it (ReconstructEcho).
THEOREM KilledNotReadHolds == Spec => []KilledNotRead
<1>1. EchoInv => KilledNotRead
  BY DEF EchoInv, Over, KilledNotRead, ReconstructEcho
<1>2. QED BY <1>1, EchoAlways, PTL
=============================================================================
