----------------------------- MODULE TextProofs -----------------------------
(***************************************************************************)
(* Proofs about the texts of MCReaders, of any length: an output as text and*)
(* as a page, command lines that are quoted, escaped and read back, and the*)
(* histories that are imported.                                            *)
(***************************************************************************)
EXTENDS ReaderProofs

-----------------------------------------------------------------------------
(***************************************************************************)
(* An output as text and as a page.                                        *)
(***************************************************************************)

\* What a line can hold, a text, and a page.
Text == {"x", "<", "1", "m", "[", "]", "P", "\\", "(", "TAB"}
Out  == Text \cup {" ", "LF"}
Html == Out \cup {"<span>", "</span>", "&lt;"}
Seg  == {g \in [st : {"plain", "bold"}, txt : Seq(Text)] : g.txt # <<>>}

\* A sequence that is not empty has a last element.
LEMMA LastOf ==
  ASSUME NEW T, NEW q \in Seq(T), q # <<>>
  PROVE  \E p \in Seq(T), x \in T :
           /\ q = Append(p, x) /\ Len(q) = Len(p) + 1 /\ q[Len(q)] = x
           /\ p = SubSeq(q, 1, Len(q) - 1)
           /\ \A y \in T : [q EXCEPT ![Len(q)] = y] = Append(p, y)
<1> DEFINE n == Len(q)  p == SubSeq(q, 1, n - 1)  x == q[n]
<1>1. n \in Nat /\ n > 0 /\ n - 1 \in Nat
  OBVIOUS
<1>2. p \in Seq(T) /\ Len(p) = n - 1 /\ x \in T /\ \A k \in 1 .. n - 1 : p[k] = q[k]
  <2>1. x \in T
    BY <1>1
  <2>2. n - 1 \in 0 .. Len(q) /\ \A k \in 1 .. n - 1 : k \in 1 .. Len(q) /\ q[k] \in T
    BY <1>1
  <2> DEFINE m == n - 1
  <2>3. m \in Nat /\ m <= Len(q)
    BY <1>1
  <2> HIDE DEF m
  <2>4. SubSeq(q, 1, m) \in Seq(T) /\ Len(SubSeq(q, 1, m)) = m
        /\ \A k \in 1 .. m : SubSeq(q, 1, m)[k] = q[k]
    BY <2>3
  <2>5. QED BY <2>1, <2>4 DEF m
<1>3. q = Append(p, x)
  <2> DEFINE w == Append(p, x)
  <2>1. /\ w \in Seq(T) /\ Len(w) = n /\ w[n] = x /\ \A k \in 1 .. n - 1 : w[k] = q[k]
    <3> HIDE DEF p, x
    <3>1. w \in Seq(T) /\ Len(w) = Len(p) + 1 /\ w[Len(p) + 1] = x /\ \A k \in 1 .. Len(p) : w[k] = p[k]
      BY <1>2
    <3>2. QED BY <1>1, <1>2, <3>1
  <2>2. \A k \in 1 .. n : w[k] = q[k]
    BY <1>1, <2>1
  <2> HIDE DEF w
  <2>3. w = q
    BY <2>1, <2>2, SameSeq
  <2>4. QED BY <2>3 DEF w
<1>4. ASSUME NEW y \in T PROVE [q EXCEPT ![n] = y] = Append(p, y)
  <2> DEFINE w == Append(p, y)  v == [q EXCEPT ![n] = y]
  <2>1. /\ w \in Seq(T) /\ Len(w) = n /\ w[n] = y /\ \A k \in 1 .. n - 1 : w[k] = q[k]
    <3> HIDE DEF p, x
    <3>1. w \in Seq(T) /\ Len(w) = Len(p) + 1 /\ w[Len(p) + 1] = y /\ \A k \in 1 .. Len(p) : w[k] = p[k]
      BY <1>2
    <3>2. QED BY <1>1, <1>2, <3>1
  <2>2. v \in Seq(T) /\ Len(v) = n /\ \A k \in 1 .. n : v[k] = IF k = n THEN y ELSE q[k]
    BY <1>1
  <2> HIDE DEF w, v, n
  <2>3. \A k \in 1 .. n : w[k] = v[k]
    <3>1. TAKE k \in 1 .. n
    <3>2. k = n \/ k \in 1 .. n - 1
      BY <1>1
    <3>3. QED BY <1>1, <2>1, <2>2, <3>2
  <2>4. w = v
    BY <2>1, <2>2, <2>3, SameSeq
  <2>5. QED BY <2>4 DEF w, v, n
<1>5. Len(q) = Len(p) + 1
  BY <1>1, <1>2
<1>6. QED BY <1>2, <1>3, <1>4, <1>5

-----------------------------------------------------------------------------
LEMMA AnsiFlatten == \A q : Ansi!FlattenSeq(q) = FlattenSeq(q)
BY DEF Ansi!FlattenSeq, FlattenSeq

ShownAt == [c \in Html |-> Ansi!Shown(c)]
SegAt   == [g \in Seg |-> Ansi!WriteSeg(g)]
\* A character as it is shown.
CharOf(c) == IF c = "TAB" THEN " " ELSE c
Entities(txt) == [k \in DOMAIN txt |-> Ansi!Escape(txt[k])]

LEMMA ShownIs ==
  /\ IsSpread(ShownAt, Out, Html)
  /\ \A c \in Html : ShownAt[c] = Ansi!Shown(c)
  /\ \A c \in Text : Ansi!Escape(c) \in Html /\ Ansi!Shown(Ansi!Escape(c)) = <<CharOf(c)>> /\ CharOf(c) \in Out
  /\ Ansi!Shown("<span>") = <<>> /\ Ansi!Shown("</span>") = <<>> /\ Ansi!Shown("LF") = <<"LF">>
<1>1. \A c \in Html : Ansi!Shown(c) = IF c \in {"<span>", "</span>"} THEN <<>>
                                      ELSE IF c = "&lt;" THEN <<"<">> ELSE <<CharOf(c)>>
  BY DEF Html, Out, Text, Ansi!Shown, Ansi!TAB, CharOf
<1>2. \A c \in Html \ {"<span>", "</span>", "&lt;"} : CharOf(c) \in Out
  BY DEF Html, Out, Text, CharOf
<1>3. "<" \in Out
  BY DEF Out, Text
<1>4. \A c \in Html : Ansi!Shown(c) \in Seq(Out)
  <2>1. TAKE c \in Html
  <2>2. CASE c \in {"<span>", "</span>"}
    <3>1. Ansi!Shown(c) = <<>>
      BY <1>1, <2>2
    <3>2. QED BY <3>1
  <2>3. CASE c = "&lt;"
    <3>1. Ansi!Shown(c) = <<"<">>
      BY <1>1, <2>3
    <3>2. QED BY <1>3, <3>1
  <2>4. CASE c \notin {"<span>", "</span>", "&lt;"}
    <3>1. Ansi!Shown(c) = <<CharOf(c)>> /\ CharOf(c) \in Out
      BY <1>1, <1>2, <2>4
    <3>2. QED BY <3>1
  <2>5. QED BY <2>2, <2>3, <2>4
<1>5. IsSpread(ShownAt, Out, Html)
  BY <1>4 DEF IsSpread, ShownAt
<1>6. \A c \in Html : ShownAt[c] = Ansi!Shown(c)
  BY DEF ShownAt
<1>7. \A c \in Text : Ansi!Escape(c) \in Html /\ CharOf(c) \in Out
  BY DEF Ansi!Escape, Html, Out, Text, CharOf
<1>8. \A c \in Text : Ansi!Shown(Ansi!Escape(c)) = <<CharOf(c)>>
  <2>1. TAKE c \in Text
  <2>2. CASE c = "<"
    <3>1. Ansi!Escape(c) = "&lt;" /\ CharOf(c) = "<"
      BY <2>2 DEF Ansi!Escape, CharOf
    <3>2. QED BY <1>1, <3>1 DEF Html
  <2>3. CASE c # "<"
    <3>1. Ansi!Escape(c) = c /\ c \in Html \ {"<span>", "</span>", "&lt;"}
      BY <2>3 DEF Ansi!Escape, Html, Out, Text
    <3>2. QED BY <1>1, <3>1
  <2>4. QED BY <2>2, <2>3
<1>9. Ansi!Shown("<span>") = <<>> /\ Ansi!Shown("</span>") = <<>>
  BY <1>1 DEF Html
<1>10. Ansi!Shown("LF") = <<"LF">>
  BY <1>1 DEF Html, Out, CharOf
<1>11. QED BY <1>5, <1>6, <1>7, <1>8, <1>9, <1>10

\* What is seen of two parts of a page is seen of both.
LEMMA SeenIs ==
  /\ Ansi!Seen(<<>>) = <<>>
  /\ \A q \in Seq(Html) : Ansi!Seen(q) \in Seq(Out)
  /\ \A q \in Seq(Html), c \in Html : Ansi!Seen(Append(q, c)) = Ansi!Seen(q) \o Ansi!Shown(c)
  /\ \A p, q \in Seq(Html) : Ansi!Seen(p \o q) = Ansi!Seen(p) \o Ansi!Seen(q)
<1>1. \A q \in Seq(Html) : Ansi!Seen(q) = Spread(ShownAt, q)
  <2>1. TAKE q \in Seq(Html)
  <2>2. \A k \in DOMAIN q : q[k] \in Html
    OBVIOUS
  <2>3. \A k \in DOMAIN q : Ansi!Shown(q[k]) = ShownAt[q[k]]
    BY <2>2, ShownIs
  <2>4. [k \in DOMAIN q |-> Ansi!Shown(q[k])] = [k \in DOMAIN q |-> ShownAt[q[k]]]
    BY <2>3
  <2>5. QED BY <2>4, AnsiFlatten DEF Ansi!Seen, Spread
<1>2. IsSpread(ShownAt, Out, Html)
  BY ShownIs
<1>3. /\ Spread(ShownAt, <<>>) = <<>>
      /\ \A q \in Seq(Html) : Spread(ShownAt, q) \in Seq(Out)
      /\ \A q \in Seq(Html), c \in Html : Spread(ShownAt, Append(q, c)) = Spread(ShownAt, q) \o ShownAt[c]
  BY <1>2, SpreadSteps
<1>4. \A p, q \in Seq(Html) : Spread(ShownAt, p \o q) = Spread(ShownAt, p) \o Spread(ShownAt, q)
  BY <1>2, SpreadConcat
<1>5. /\ <<>> \in Seq(Html)
      /\ \A q \in Seq(Html), c \in Html : Append(q, c) \in Seq(Html)
      /\ \A p, q \in Seq(Html) : p \o q \in Seq(Html)
  OBVIOUS
<1>6. Ansi!Seen(<<>>) = <<>>
  BY <1>1, <1>3, <1>5
<1>7. \A q \in Seq(Html) : Ansi!Seen(q) \in Seq(Out)
  BY <1>1, <1>3
<1>8. \A q \in Seq(Html), c \in Html : Ansi!Seen(Append(q, c)) = Ansi!Seen(q) \o Ansi!Shown(c)
  BY <1>1, <1>3, <1>5, ShownIs
<1>9. \A p, q \in Seq(Html) : Ansi!Seen(p \o q) = Ansi!Seen(p) \o Ansi!Seen(q)
  <2>1. TAKE p, q \in Seq(Html)
  <2>2. p \o q \in Seq(Html)
    BY <1>5
  <2>3. QED BY <1>1, <1>4, <2>2, Zenon
<1>10. QED BY <1>6, <1>7, <1>8, <1>9

LEMMA EntitiesAre ==
  /\ Entities(<<>>) = <<>>
  /\ \A txt \in Seq(Text) : Entities(txt) \in Seq(Html) /\ (Entities(txt) = <<>> <=> txt = <<>>)
  /\ \A txt \in Seq(Text), c \in Text : Entities(Append(txt, c)) = Append(Entities(txt), Ansi!Escape(c))
<1>1. \A c \in Text : Ansi!Escape(c) \in Html
  BY ShownIs
<1>2. ASSUME NEW txt \in Seq(Text)
      PROVE  /\ Entities(txt) \in Seq(Html) /\ Len(Entities(txt)) = Len(txt)
             /\ \A k \in 1 .. Len(txt) : Entities(txt)[k] = Ansi!Escape(txt[k])
             /\ Entities(txt) = <<>> <=> txt = <<>>
  <2> DEFINE e == Entities(txt)
  <2>1. Len(txt) \in Nat /\ DOMAIN txt = 1 .. Len(txt) /\ \A k \in 1 .. Len(txt) : txt[k] \in Text
    OBVIOUS
  <2>2. e = [k \in 1 .. Len(txt) |-> Ansi!Escape(txt[k])]
    BY <2>1 DEF Entities
  <2>3. e \in [1 .. Len(txt) -> Html]
    BY <1>1, <2>1, <2>2
  <2>4. e \in Seq(Html)
    BY <2>1, <2>3, SeqDef
  <2>5. Len(e) = Len(txt)
    BY <2>1, <2>3, <2>4
  <2>6. \A k \in 1 .. Len(txt) : e[k] = Ansi!Escape(txt[k])
    BY <2>2
  <2> HIDE DEF e
  <2>7. e = <<>> <=> txt = <<>>
    BY <2>4, <2>5
  <2>8. QED BY <2>4, <2>5, <2>6, <2>7 DEF e
<1>3. Entities(<<>>) = <<>>
  BY DEF Entities
<1>4. ASSUME NEW txt \in Seq(Text), NEW c \in Text
      PROVE  Entities(Append(txt, c)) = Append(Entities(txt), Ansi!Escape(c))
  <2> DEFINE r == Append(txt, c)  x == Ansi!Escape(c)  n == Len(txt)
             u == Entities(r)  e == Entities(txt)  w == Append(e, x)
  <2>1. /\ r \in Seq(Text) /\ n \in Nat /\ Len(r) = n + 1 /\ r[n + 1] = c /\ \A k \in 1 .. n : r[k] = txt[k]
    OBVIOUS
  <2> HIDE DEF r
  <2>2. u \in Seq(Html) /\ Len(u) = n + 1 /\ \A k \in 1 .. n + 1 : u[k] = Ansi!Escape(r[k])
    BY <1>2, <2>1
  <2>3. e \in Seq(Html) /\ Len(e) = n /\ (\A k \in 1 .. n : e[k] = Ansi!Escape(txt[k])) /\ x \in Html
    BY <1>1, <1>2
  <2> HIDE DEF e, x, u, n
  <2>4. w \in Seq(Html) /\ Len(w) = n + 1 /\ w[n + 1] = x /\ \A k \in 1 .. n : w[k] = e[k]
    BY <2>3
  <2>5. \A k \in 1 .. n + 1 : k \in 1 .. n \/ k = n + 1
    BY <2>1
  <2>6. \A k \in 1 .. n + 1 : u[k] = w[k]
    <3>1. TAKE k \in 1 .. n + 1
    <3>2. CASE k \in 1 .. n
      BY <2>1, <2>2, <2>3, <2>4, <3>2
    <3>3. CASE k = n + 1
      BY <2>1, <2>2, <2>4, <3>3 DEF x
    <3>4. QED BY <2>5, <3>2, <3>3
  <2> HIDE DEF w
  <2>7. u = w
    BY <2>2, <2>4, <2>6, SameSeq
  <2>8. QED BY <2>7 DEF u, w, e, x, r
<1>5. QED BY <1>2, <1>3, <1>4

LEMMA SegFields ==
  ASSUME NEW g \in Seg
  PROVE  /\ g.st \in {"plain", "bold"} /\ g.txt \in Seq(Text) /\ g.txt # <<>>
         /\ \A v \in Seq(Text) : v # <<>> => [g EXCEPT !.txt = v] \in Seg
                                             /\ [g EXCEPT !.txt = v].txt = v
BY DEF Seg

LEMMA WriteSegIs ==
  ASSUME NEW g \in Seg
  PROVE  /\ Ansi!WriteSeg(g) = IF g.st = "plain" THEN Entities(g.txt)
                               ELSE (<<"<span>">> \o Entities(g.txt)) \o <<"</span>">>
         /\ Ansi!WriteSeg(g) \in Seq(Html)
         /\ Ansi!Seen(Ansi!WriteSeg(g)) = Ansi!Seen(Entities(g.txt))
<1> DEFINE e == Entities(g.txt)  a == <<"<span>">>  z == <<"</span>">>
<1>1. e \in Seq(Html) /\ e # <<>>
  BY SegFields, EntitiesAre
<1>2. Ansi!WriteSeg(g) = IF g.st = "plain" THEN e ELSE (a \o e) \o z
  <2>1. [k \in DOMAIN g.txt |-> Ansi!Escape(g.txt[k])] = e
    BY DEF Entities
  <2> HIDE DEF e
  <2>2. Ansi!WriteSeg(g) = IF g.st = "plain" \/ e = <<>> THEN e ELSE a \o e \o z
    BY <2>1 DEF Ansi!WriteSeg, Ansi!Plain
  <2>3. QED BY <1>1, <2>2
<1>3. a \in Seq(Html) /\ z \in Seq(Html)
  BY DEF Html
<1>4. Ansi!Seen(a) = <<>> /\ Ansi!Seen(z) = <<>>
  <2> DEFINE o == <<>>
  <2>1. Ansi!Seen(o) = <<>> /\ o \in Seq(Html) /\ "<span>" \in Html /\ "</span>" \in Html
    <3>1. Ansi!Seen(o) = <<>>
      BY SeenIs
    <3>2. "<span>" \in Html /\ "</span>" \in Html
      BY DEF Html
    <3>3. o \in Seq(Html)
      OBVIOUS
    <3>4. QED BY <3>1, <3>2, <3>3
  <2>2. a = Append(o, "<span>") /\ z = Append(o, "</span>")
    OBVIOUS
  <2>3. Ansi!Shown("<span>") = <<>> /\ Ansi!Shown("</span>") = <<>>
    BY ShownIs
  <2> HIDE DEF o, a, z
  <2>4. Ansi!Seen(a) = <<>> \o <<>> /\ Ansi!Seen(z) = <<>> \o <<>>
    BY <2>1, <2>2, <2>3, SeenIs
  <2>5. QED BY <2>4
<1> HIDE DEF e, a, z
<1>5. a \o e \in Seq(Html) /\ (a \o e) \o z \in Seq(Html)
  BY <1>1, <1>3
<1>6. Ansi!Seen((a \o e) \o z) = Ansi!Seen(e)
  <2>1. Ansi!Seen((a \o e) \o z) = Ansi!Seen(a \o e) \o Ansi!Seen(z)
    BY <1>3, <1>5, SeenIs
  <2>2. Ansi!Seen(a \o e) = Ansi!Seen(a) \o Ansi!Seen(e)
    BY <1>1, <1>3, SeenIs
  <2>3. Ansi!Seen(e) \in Seq(Out)
    BY <1>1, SeenIs
  <2> DEFINE v == Ansi!Seen(e)
  <2> HIDE DEF v
  <2>4. (<<>> \o v) \o <<>> = v
    BY <2>3 DEF v
  <2>5. QED BY <1>4, <2>1, <2>2, <2>4 DEF v
<1>7. QED BY <1>1, <1>2, <1>5, <1>6 DEF e, a, z

\* What is seen of a line.
View(line) == Ansi!Seen(Ansi!Flush(line))
Chars(txt) == Ansi!Seen(Entities(txt))

LEMMA FlushIs ==
  /\ Ansi!Flush(<<>>) = <<>>
  /\ \A line \in Seq(Seg) : Ansi!Flush(line) \in Seq(Html)
  /\ \A line \in Seq(Seg), g \in Seg : Ansi!Flush(Append(line, g)) = Ansi!Flush(line) \o Ansi!WriteSeg(g)
<1>1. \A line \in Seq(Seg) : Ansi!Flush(line) = Spread(SegAt, line)
  <2>1. TAKE line \in Seq(Seg)
  <2>2. \A k \in DOMAIN line : line[k] \in Seg
    OBVIOUS
  <2>3. \A k \in DOMAIN line : Ansi!WriteSeg(line[k]) = SegAt[line[k]]
    BY <2>2 DEF SegAt
  <2>4. [k \in DOMAIN line |-> Ansi!WriteSeg(line[k])] = [k \in DOMAIN line |-> SegAt[line[k]]]
    BY <2>3
  <2>5. QED BY <2>4, AnsiFlatten DEF Ansi!Flush, Spread
<1>2. IsSpread(SegAt, Html, Seg)
  <2>1. \A g \in Seg : Ansi!WriteSeg(g) \in Seq(Html)
    BY WriteSegIs
  <2>2. QED BY <2>1 DEF IsSpread, SegAt
<1>3. /\ Spread(SegAt, <<>>) = <<>>
      /\ \A q \in Seq(Seg) : Spread(SegAt, q) \in Seq(Html)
      /\ \A q \in Seq(Seg), g \in Seg : Spread(SegAt, Append(q, g)) = Spread(SegAt, q) \o SegAt[g]
  BY <1>2, SpreadSteps
<1>4. <<>> \in Seq(Seg) /\ \A q \in Seq(Seg), g \in Seg : Append(q, g) \in Seq(Seg)
  OBVIOUS
<1>5. Ansi!Flush(<<>>) = <<>>
  BY <1>1, <1>3, <1>4
<1>6. \A line \in Seq(Seg) : Ansi!Flush(line) \in Seq(Html)
  BY <1>1, <1>3
<1>7. \A line \in Seq(Seg), g \in Seg : Ansi!Flush(Append(line, g)) = Ansi!Flush(line) \o Ansi!WriteSeg(g)
  <2>1. TAKE line \in Seq(Seg), g \in Seg
  <2>2. SegAt[g] = Ansi!WriteSeg(g)
    BY DEF SegAt
  <2>3. QED BY <1>1, <1>3, <1>4, <2>2
<1>8. QED BY <1>5, <1>6, <1>7

LEMMA CharsAre ==
  /\ Chars(<<>>) = <<>>
  /\ \A txt \in Seq(Text) : Chars(txt) \in Seq(Out)
  /\ \A txt \in Seq(Text), c \in Text : /\ Chars(Append(txt, c)) = Append(Chars(txt), CharOf(c))
                                         /\ CharOf(c) \in Out
<1>1. Chars(<<>>) = <<>>
  BY EntitiesAre, SeenIs DEF Chars
<1>2. \A txt \in Seq(Text) : Chars(txt) \in Seq(Out)
  BY EntitiesAre, SeenIs DEF Chars
<1>3. ASSUME NEW txt \in Seq(Text), NEW c \in Text
      PROVE  Chars(Append(txt, c)) = Append(Chars(txt), CharOf(c)) /\ CharOf(c) \in Out
  <2>1. Ansi!Escape(c) \in Html /\ Ansi!Shown(Ansi!Escape(c)) = <<CharOf(c)>> /\ CharOf(c) \in Out
    BY ShownIs
  <2>2. Entities(Append(txt, c)) = Append(Entities(txt), Ansi!Escape(c)) /\ Entities(txt) \in Seq(Html)
    BY EntitiesAre
  <2>3. Chars(Append(txt, c)) = Chars(txt) \o <<CharOf(c)>>
    BY <2>1, <2>2, SeenIs DEF Chars
  <2> DEFINE v == Chars(txt)  y == CharOf(c)
  <2>4. v \in Seq(Out) /\ y \in Out
    BY <1>2, <2>1
  <2> HIDE DEF v, y
  <2>5. v \o <<y>> = Append(v, y)
    BY <2>4
  <2>6. QED BY <2>1, <2>3, <2>5 DEF v, y
<1>4. QED BY <1>1, <1>2, <1>3

LEMMA ViewIs ==
  /\ View(<<>>) = <<>>
  /\ \A line \in Seq(Seg) : View(line) \in Seq(Out)
  /\ \A line \in Seq(Seg), g \in Seg : View(Append(line, g)) = View(line) \o Chars(g.txt)
<1>1. View(<<>>) = <<>>
  BY FlushIs, SeenIs DEF View
<1>2. \A line \in Seq(Seg) : View(line) \in Seq(Out)
  BY FlushIs, SeenIs DEF View
<1>3. ASSUME NEW line \in Seq(Seg), NEW g \in Seg
      PROVE  View(Append(line, g)) = View(line) \o Chars(g.txt)
  <2>1. Ansi!Flush(Append(line, g)) = Ansi!Flush(line) \o Ansi!WriteSeg(g)
    BY FlushIs
  <2>2. Ansi!Flush(line) \in Seq(Html) /\ Ansi!WriteSeg(g) \in Seq(Html)
    BY FlushIs, WriteSegIs
  <2>3. View(Append(line, g)) = View(line) \o Ansi!Seen(Ansi!WriteSeg(g))
    BY <2>1, <2>2, SeenIs DEF View
  <2>4. QED BY <2>3, WriteSegIs DEF Chars
<1>4. QED BY <1>1, <1>2, <1>3

\* Sequences put together, with one element more.
LEMMA ConcatAppend ==
  ASSUME NEW T, NEW p \in Seq(T), NEW q \in Seq(T), NEW x \in T
  PROVE  p \o Append(q, x) = Append(p \o q, x) /\ p \o q \in Seq(T) /\ Append(q, x) \in Seq(T)
OBVIOUS

\* A character more: as in the text, whatever its style.
LEMMA PutShows ==
  ASSUME NEW line \in Seq(Seg), NEW st \in {"plain", "bold"}, NEW c \in Text
  PROVE  /\ Ansi!Put(line, st, c) \in Seq(Seg)
         /\ View(Ansi!Put(line, st, c)) = Append(View(line), CharOf(c))
<1> DEFINE w == Ansi!Put(line, st, c)
<1>1. CASE line # <<>> /\ line[Len(line)].st = st
  <2>1. PICK p \in Seq(Seg), g \in Seg :
          /\ line = Append(p, g) /\ line[Len(line)] = g
          /\ \A y \in Seg : [line EXCEPT ![Len(line)] = y] = Append(p, y)
    BY <1>1, LastOf
  <2> DEFINE v == Append(g.txt, c)  h == [g EXCEPT !.txt = v]
  <2>2. g.txt \in Seq(Text) /\ v \in Seq(Text) /\ v # <<>>
    <3>1. g.txt \in Seq(Text)
      BY SegFields
    <3> DEFINE x == g.txt
    <3> HIDE DEF x
    <3>2. Append(x, c) \in Seq(Text) /\ Append(x, c) # <<>>
      BY <3>1 DEF x
    <3>3. QED BY <3>1, <3>2 DEF x
  <2>3. h \in Seg /\ h.txt = v
    <3> HIDE DEF v
    <3>1. QED BY <2>2, SegFields
  <2>4. w = [line EXCEPT ![Len(line)] = h]
    <3>1. w = [line EXCEPT ![Len(line)].txt = Append(@, c)]
      BY <1>1 DEF Ansi!Put, Ansi!Last, Last
    <3>2. QED BY <2>1, <3>1
  <2> HIDE DEF h, v, w
  <2>5. w = Append(p, h)
    BY <2>1, <2>3, <2>4
  <2>6. View(w) = View(p) \o Append(Chars(g.txt), CharOf(c))
    <3>1. View(w) = View(p) \o Chars(v)
      BY <2>3, <2>5, ViewIs
    <3>2. Chars(v) = Append(Chars(g.txt), CharOf(c))
      BY <2>2, CharsAre DEF v
    <3>3. QED BY <3>1, <3>2
  <2>7. View(line) = View(p) \o Chars(g.txt)
    BY <2>1, ViewIs
  <2>8. View(p) \in Seq(Out) /\ Chars(g.txt) \in Seq(Out) /\ CharOf(c) \in Out
    BY <2>2, ViewIs, CharsAre
  <2>9. View(p) \o Append(Chars(g.txt), CharOf(c)) = Append(View(p) \o Chars(g.txt), CharOf(c))
    BY <2>8, ConcatAppend
  <2>10. w \in Seq(Seg)
    BY <2>3, <2>5
  <2>11. QED BY <2>6, <2>7, <2>9, <2>10 DEF w
<1>2. CASE ~(line # <<>> /\ line[Len(line)].st = st)
  <2> DEFINE o == <<c>>  g == [st |-> st, txt |-> o]
  <2>1. o \in Seq(Text) /\ o # <<>>
    OBVIOUS
  <2>2. Chars(o) = <<CharOf(c)>> /\ CharOf(c) \in Out
    <3> DEFINE z == <<>>
    <3>1. z \in Seq(Text) /\ Append(z, c) = o
      OBVIOUS
    <3>2. Chars(z) = z
      BY CharsAre
    <3>3. Chars(Append(z, c)) = Append(Chars(z), CharOf(c)) /\ CharOf(c) \in Out
      <4> HIDE DEF z
      <4>1. QED BY <3>1, CharsAre
    <3>4. Append(z, CharOf(c)) = <<CharOf(c)>>
      OBVIOUS
    <3> HIDE DEF z, o
    <3>5. QED BY <3>1, <3>2, <3>3, <3>4
  <2> HIDE DEF o
  <2>3. g \in Seg /\ g.txt = o
    BY <2>1 DEF Seg
  <2>4. w = Append(line, g)
    BY <1>2 DEF Ansi!Put, Ansi!Last, Last, o
  <2> HIDE DEF g, w
  <2>5. View(w) = View(line) \o <<CharOf(c)>> /\ View(line) \in Seq(Out)
    BY <2>2, <2>3, <2>4, ViewIs
  <2>6. w \in Seq(Seg)
    BY <2>3, <2>4
  <2> DEFINE v == View(line)  y == CharOf(c)
  <2>7. v \in Seq(Out) /\ y \in Out
    BY <2>2, <2>5
  <2> HIDE DEF v, y
  <2>8. v \o <<y>> = Append(v, y)
    BY <2>7
  <2>9. QED BY <2>5, <2>6, <2>8 DEF w, v, y
<1>3. QED BY <1>1, <1>2

LEMMA TextLast ==
  ASSUME NEW z, z \in Seq(Text), z # <<>>
  PROVE  \E v \in Seq(Text), c \in Text :
           z = Append(v, c) /\ Len(z) = Len(v) + 1 /\ v = SubSeq(z, 1, Len(z) - 1)
BY LastOf

\* A backspace takes the last character of the line, if it has one.
LEMMA BackspaceShows ==
  ASSUME NEW line \in Seq(Seg)
  PROVE  /\ Ansi!Backspace(line) \in Seq(Seg)
         /\ line = <<>> => Ansi!Backspace(line) = <<>>
         /\ line # <<>> => \E y \in Out : View(line) = Append(View(Ansi!Backspace(line)), y)
<1> DEFINE w == Ansi!Backspace(line)
<1>1. CASE line = <<>>
  BY <1>1 DEF Ansi!Backspace
<1>2. CASE line # <<>>
  <2>1. PICK p \in Seq(Seg), g \in Seg :
          /\ line = Append(p, g) /\ line[Len(line)] = g /\ p = SubSeq(line, 1, Len(line) - 1)
          /\ \A y \in Seg : [line EXCEPT ![Len(line)] = y] = Append(p, y)
    BY <1>2, LastOf
  <2>2. g.txt \in Seq(Text) /\ g.txt # <<>>
    BY SegFields
  <2>3. PICK v \in Seq(Text), c \in Text :
          g.txt = Append(v, c) /\ Len(g.txt) = Len(v) + 1 /\ v = SubSeq(g.txt, 1, Len(g.txt) - 1)
    BY <2>2, TextLast
  <2>4. Chars(g.txt) = Append(Chars(v), CharOf(c)) /\ CharOf(c) \in Out /\ Chars(v) \in Seq(Out)
    BY <2>3, CharsAre
  <2>5. View(line) = View(p) \o Chars(g.txt) /\ View(p) \in Seq(Out)
    BY <2>1, ViewIs
  <2>6. View(line) = Append(View(p) \o Chars(v), CharOf(c))
    BY <2>4, <2>5, ConcatAppend
  <2>7. CASE Len(g.txt) = 1
    <3>1. w = p
      BY <1>2, <2>1, <2>7 DEF Ansi!Backspace, Ansi!Last, Ansi!Front, Last, Front
    <3>2. v = <<>>
      BY <2>3, <2>7
    <3>3. View(p) \o Chars(v) = View(p)
      <4>1. Chars(v) = <<>>
        BY <3>2, CharsAre
      <4>2. QED BY <2>5, <4>1
    <3> HIDE DEF w
    <3>4. View(line) = Append(View(w), CharOf(c))
      BY <2>6, <3>1, <3>3
    <3>5. QED BY <1>2, <2>4, <3>1, <3>4 DEF w
  <2>8. CASE Len(g.txt) # 1
    <3> DEFINE h == [g EXCEPT !.txt = v]
    <3>1. v # <<>>
      BY <2>3, <2>8
    <3>2. h \in Seg /\ h.txt = v
      BY <3>1, SegFields
    <3>3. w = [line EXCEPT ![Len(line)] = h]
      <4>1. w = [line EXCEPT ![Len(line)].txt = Ansi!Front(@)]
        BY <1>2, <2>1, <2>8 DEF Ansi!Backspace, Ansi!Last, Last
      <4>2. Ansi!Front(g.txt) = v
        BY <2>3 DEF Ansi!Front, Front
      <4>3. QED BY <2>1, <4>1, <4>2
    <3> HIDE DEF h, w
    <3>4. w = Append(p, h)
      BY <2>1, <3>2, <3>3
    <3>5. View(w) = View(p) \o Chars(v)
      BY <3>2, <3>4, ViewIs
    <3>6. w \in Seq(Seg)
      BY <3>2, <3>4
    <3>7. View(line) = Append(View(w), CharOf(c))
      BY <2>6, <3>5
    <3>8. QED BY <1>2, <2>4, <3>6, <3>7 DEF w
  <2>9. QED BY <2>7, <2>8
<1>3. QED BY <1>1, <1>2

Pos == Nat \ {0}

LEMMA PastIs ==
  ASSUME NEW T, NEW b \in Seq(T), NEW ends, ends \subseteq Pos
  PROVE  Ansi!Past(b, ends) \in Pos
<1> DEFINE S == ends \cup {Len(b) + 1}
<1>1. S \subseteq Pos /\ S \subseteq Nat /\ S # {}
  <2>1. Len(b) \in Nat
    OBVIOUS
  <2>2. Len(b) + 1 \in Pos
    BY <2>1 DEF Pos
  <2>3. S \subseteq Pos /\ S # {}
    BY <2>2
  <2>4. Pos \subseteq Nat
    BY DEF Pos
  <2> HIDE DEF S
  <2>5. QED BY <2>3, <2>4
<1> HIDE DEF S
<1>2. \E x \in S : \A y \in S : x <= y
  BY <1>1, Least
<1>3. Ansi!Min(S) \in S
  BY <1>2 DEF Ansi!Min
<1>4. QED BY <1>1, <1>3 DEF Ansi!Past, S

LEMMA EscapedIs ==
  ASSUME NEW T, NEW b \in Seq(T), NEW i \in Pos
  PROVE  Ansi!Escaped(b, i) \in Pos
<1>1. \A k \in Pos : k + 1 \in Pos /\ k + 2 \in Pos /\ k + 3 \in Pos
  BY DEF Pos
<1>2. i \in Pos /\ i + 1 \in Pos /\ i + 2 \in Pos /\ i + 3 \in Pos
  BY <1>1
<1>3. \A j \in Pos : /\ {k \in j .. Len(b) : b[k] \in Ansi!Finals} \subseteq Pos
                     /\ {k \in j .. Len(b) : b[k] = Ansi!BEL \/ Ansi!IsST(b, k)} \subseteq Pos
                     /\ {k \in j .. Len(b) : Ansi!IsST(b, k)} \subseteq Pos
  BY DEF Pos
<1>4. Ansi!AfterCSI(b, i + 2) \in Pos
  BY <1>1, <1>2, <1>3, PastIs DEF Ansi!AfterCSI, Ansi!FinalsIn
<1>5. \A j \in Pos : Ansi!AfterST(b, j) \in Pos
  BY <1>1 DEF Ansi!AfterST
<1>6. Ansi!AfterOSC(b, i + 2) \in Pos
  <2> DEFINE ends == {k \in i + 2 .. Len(b) : b[k] = Ansi!BEL \/ Ansi!IsST(b, k)}
  <2>1. ends \subseteq Pos
    BY <1>2, <1>3
  <2>2. Ansi!AfterOSC(b, i + 2) = Ansi!AfterST(b, Ansi!Past(b, ends))
    BY DEF Ansi!AfterOSC
  <2> HIDE DEF ends
  <2>3. Ansi!Past(b, ends) \in Pos
    BY <2>1, PastIs
  <2>4. QED BY <1>5, <2>2, <2>3
<1>7. Ansi!AfterDCS(b, i + 2) \in Pos
  <2> DEFINE ends == {k \in i + 2 .. Len(b) : Ansi!IsST(b, k)}
  <2>1. ends \subseteq Pos
    BY <1>2, <1>3
  <2>2. Ansi!AfterDCS(b, i + 2) = Ansi!AfterST(b, Ansi!Past(b, ends))
    BY DEF Ansi!AfterDCS
  <2> HIDE DEF ends
  <2>3. Ansi!Past(b, ends) \in Pos
    BY <2>1, PastIs
  <2>4. QED BY <1>5, <2>2, <2>3
<1>8. \/ Ansi!Escaped(b, i) \in {i + 1, i + 2, i + 3}
      \/ Ansi!Escaped(b, i) \in {Ansi!AfterCSI(b, i + 2), Ansi!AfterOSC(b, i + 2), Ansi!AfterDCS(b, i + 2)}
  BY DEF Ansi!Escaped
<1>9. QED BY <1>2, <1>4, <1>6, <1>7, <1>8

-----------------------------------------------------------------------------
\* The states of the two walks.
StripSts == {p \in [i : Pos, out : Seq(Out), start : Nat] : p.start <= Len(p.out)}
RenderSts == [i : Pos, out : Seq(Html), line : Seq(Seg), st : {"plain", "bold"}]

LEMMA ByteIs ==
  ASSUME NEW c \in Ansi!Bytes
  PROVE  c \in {"ESC", "CR", "LF", "TAB", "BS", "BEL", "NUL"} \/ (c \in Text /\ c # "TAB" /\ c \in Out)
BY DEF Ansi!Bytes, Ansi!ESC, Ansi!BEL, Ansi!CR, Ansi!LF, Ansi!TAB, Ansi!BS, Ansi!NUL, Text, Out

\* What an iteration of each does with a byte.
LEMMA StripCases ==
  ASSUME NEW b, NEW p
  PROVE  LET c == b[p.i]
             q == Ansi!StripStep(b, p)
             To(out) == [i |-> p.i + 1, out |-> out, start |-> p.start] IN
         /\ c = "ESC" => q = [p EXCEPT !.i = Ansi!Escaped(b, p.i)]
         /\ c = "CR" => q = To(IF Ansi!IsCRLF(b, p.i) THEN p.out ELSE SubSeq(p.out, 1, p.start))
         /\ c = "LF" => q = [i |-> p.i + 1, out |-> Append(p.out, "LF"), start |-> Len(p.out) + 1]
         /\ c = "TAB" => q = To(Append(p.out, " "))
         /\ c = "BS" => q = To(IF Len(p.out) > p.start THEN SubSeq(p.out, 1, Len(p.out) - 1) ELSE p.out)
         /\ c \in {"BEL", "NUL"} => q = To(p.out)
         /\ c \in Text /\ c # "TAB" => q = To(Append(p.out, c))
BY DEF Ansi!StripStep, Ansi!ESC, Ansi!BEL, Ansi!CR, Ansi!LF, Ansi!TAB, Ansi!BS, Ansi!NUL,
       Ansi!Controls, Ansi!CarriageReturn, Ansi!Front, Front, Text

LEMMA RenderCases ==
  ASSUME NEW b, NEW r
  PROVE  LET c == b[r.i]
             q == Ansi!RenderStep(b, r)
             To(line) == [i |-> r.i + 1, out |-> r.out, line |-> line, st |-> r.st] IN
         /\ c = "ESC" => q = [r EXCEPT !.i = Ansi!Escaped(b, r.i), !.st = Ansi!StyleAfter(b, r.i, r.st)]
         /\ c = "CR" => q = To(IF Ansi!IsCRLF(b, r.i) THEN r.line ELSE <<>>)
         /\ c = "LF" => q = [i |-> r.i + 1, out |-> r.out \o Ansi!Flush(r.line) \o <<"LF">>,
                             line |-> <<>>, st |-> r.st]
         /\ c = "BS" => q = To(Ansi!Backspace(r.line))
         /\ c \in {"BEL", "NUL"} => q = To(r.line)
         /\ c \in Text => q = To(Ansi!Put(r.line, r.st, c))
BY DEF Ansi!RenderStep, Ansi!ESC, Ansi!BEL, Ansi!CR, Ansi!LF, Ansi!TAB, Ansi!BS, Ansi!NUL,
       Ansi!Controls, Text

LEMMA RenderReturns ==
  ASSUME NEW b, NEW r, b[r.i] = "CR"
  PROVE  Ansi!RenderStep(b, r) = [i |-> r.i + 1, out |-> r.out,
                                  line |-> IF Ansi!IsCRLF(b, r.i) THEN r.line ELSE <<>>, st |-> r.st]
BY DEF Ansi!RenderStep, Ansi!ESC, Ansi!BEL, Ansi!CR, Ansi!LF, Ansi!TAB, Ansi!BS, Ansi!NUL,
       Ansi!Controls

LEMMA StripStepTyped ==
  ASSUME NEW b \in Seq(Ansi!Bytes), NEW p \in StripSts, p.i <= Len(b)
  PROVE  Ansi!StripStep(b, p) \in StripSts
<1> DEFINE q == Ansi!StripStep(b, p)  c == b[p.i]  k == p.i + 1  o == p.out  a == p.start
           To(out) == [i |-> k, out |-> out, start |-> a]
<1>1. p.i \in Pos /\ o \in Seq(Out) /\ a \in Nat /\ a <= Len(o)
  BY DEF StripSts
<1>2. k \in Pos /\ c \in Ansi!Bytes /\ c = b[p.i]
  <2>1. p.i \in 1 .. Len(b) /\ k \in Pos
    BY <1>1 DEF Pos
  <2>2. QED BY <2>1
<1>3. /\ c = "ESC" => q = [p EXCEPT !.i = Ansi!Escaped(b, p.i)]
      /\ c = "CR" => q = To(IF Ansi!IsCRLF(b, p.i) THEN o ELSE SubSeq(o, 1, a))
      /\ c = "LF" => q = [i |-> k, out |-> Append(o, "LF"), start |-> Len(o) + 1]
      /\ c = "TAB" => q = To(Append(o, " "))
      /\ c = "BS" => q = To(IF Len(o) > a THEN SubSeq(o, 1, Len(o) - 1) ELSE o)
      /\ c \in {"BEL", "NUL"} => q = To(o)
      /\ c \in Text /\ c # "TAB" => q = To(Append(o, c))
  BY StripCases
<1>4. Ansi!Escaped(b, p.i) \in Pos
  BY <1>1, EscapedIs
<1>5. \A i \in Pos : [p EXCEPT !.i = i] \in StripSts
  BY DEF StripSts
<1>6. SUFFICES q \in StripSts
  OBVIOUS
<1> HIDE DEF q, c, k, o, a
<1>7. \A out \in Seq(Out), start \in Nat :
        start <= Len(out) => [i |-> k, out |-> out, start |-> start] \in StripSts
  BY <1>2 DEF StripSts
<1>8. \A out \in Seq(Out) : a <= Len(out) => To(out) \in StripSts
  BY <1>1, <1>7
<1> HIDE DEF To
<1>19. "LF" \in Out /\ " " \in Out
  BY DEF Out
<1>9. /\ Len(o) \in Nat
      /\ \A x \in Out : Append(o, x) \in Seq(Out) /\ Len(Append(o, x)) = Len(o) + 1
      /\ \A n \in Nat : n <= Len(o) => SubSeq(o, 1, n) \in Seq(Out) /\ Len(SubSeq(o, 1, n)) = n
  <2>2. Len(o) \in Nat /\ \A x \in Out : Append(o, x) \in Seq(Out) /\ Len(Append(o, x)) = Len(o) + 1
    BY <1>1
  <2>3. \A n \in Nat : n <= Len(o) => SubSeq(o, 1, n) \in Seq(Out) /\ Len(SubSeq(o, 1, n)) = n
    BY <1>1
  <2>4. QED BY <2>2, <2>3
<1>10. \A x \in Out : To(Append(o, x)) \in StripSts
  <2>1. TAKE x \in Out
  <2>2. Append(o, x) \in Seq(Out) /\ a <= Len(Append(o, x))
    BY <1>1, <1>9
  <2>3. QED BY <1>8, <2>2
<1>11. CASE c = "ESC"
  BY <1>3, <1>4, <1>5, <1>11
<1>12. CASE c = "CR"
  <2>1. SubSeq(o, 1, a) \in Seq(Out) /\ a <= Len(SubSeq(o, 1, a))
    BY <1>1, <1>9
  <2>2. To(o) \in StripSts /\ To(SubSeq(o, 1, a)) \in StripSts
    BY <1>1, <1>8, <2>1
  <2>3. QED BY <1>3, <1>12, <2>2
<1>13. CASE c = "LF"
  <2> DEFINE lf == "LF"
  <2>0. lf \in Out
    BY <1>19
  <2> HIDE DEF lf
  <2>1. Append(o, lf) \in Seq(Out) /\ Len(o) + 1 \in Nat /\ Len(o) + 1 <= Len(Append(o, lf))
    BY <1>9, <2>0
  <2> USE DEF lf
  <2>2. QED BY <1>3, <1>7, <1>13, <2>1
<1>14. CASE c = "TAB"
  BY <1>3, <1>19, <1>10, <1>14
<1>15. CASE c = "BS"
  <2>1. CASE Len(o) > a
    <3>1. Len(o) - 1 \in Nat /\ Len(o) - 1 <= Len(o) /\ a <= Len(o) - 1
      BY <1>1, <1>9, <2>1
    <3> DEFINE n == Len(o) - 1
    <3> HIDE DEF n
    <3>2. SubSeq(o, 1, n) \in Seq(Out) /\ a <= Len(SubSeq(o, 1, n))
      BY <1>9, <3>1 DEF n
    <3>3. QED BY <1>3, <1>8, <1>15, <2>1, <3>2 DEF n
  <2>2. CASE ~(Len(o) > a)
    BY <1>1, <1>3, <1>8, <1>15, <2>2
  <2>3. QED BY <2>1, <2>2
<1>16. CASE c \in {"BEL", "NUL"}
  BY <1>1, <1>3, <1>8, <1>16
<1>17. CASE c \in Text /\ c # "TAB" /\ c \in Out
  BY <1>3, <1>10, <1>17
<1>18. QED BY <1>2, <1>11, <1>12, <1>13, <1>14, <1>15, <1>16, <1>17, ByteIs

LEMMA RenderStepTyped ==
  ASSUME NEW b \in Seq(Ansi!Bytes), NEW r \in RenderSts, r.i <= Len(b)
  PROVE  Ansi!RenderStep(b, r) \in RenderSts
<1> DEFINE q == Ansi!RenderStep(b, r)  c == b[r.i]
<1>1. r.i \in Pos /\ r.out \in Seq(Html) /\ r.line \in Seq(Seg) /\ r.st \in {"plain", "bold"}
  BY DEF RenderSts
<1>2. r.i \in 1 .. Len(b) /\ r.i + 1 \in Pos /\ c \in Ansi!Bytes
  BY <1>1 DEF Pos
<1>3. \A out \in Seq(Html), line \in Seq(Seg) :
        [i |-> r.i + 1, out |-> out, line |-> line, st |-> r.st] \in RenderSts
  BY <1>1, <1>2 DEF RenderSts
<1>4. <<>> \in Seq(Seg)
  OBVIOUS
<1>5. CASE c = "ESC"
  <2>1. q = [r EXCEPT !.i = Ansi!Escaped(b, r.i), !.st = Ansi!StyleAfter(b, r.i, r.st)]
    BY <1>5, RenderCases
  <2>2. Ansi!Escaped(b, r.i) \in Pos
    BY <1>1, EscapedIs
  <2>3. Ansi!StyleAfter(b, r.i, r.st) \in {"plain", "bold"}
    BY <1>1 DEF Ansi!StyleAfter, Ansi!ApplySGR, Ansi!Plain
  <2>4. QED BY <2>1, <2>2, <2>3 DEF RenderSts
<1>6. CASE c = "CR"
  <2>1. q = [i |-> r.i + 1, out |-> r.out,
             line |-> IF Ansi!IsCRLF(b, r.i) THEN r.line ELSE <<>>, st |-> r.st]
    BY <1>6, RenderReturns
  <2>2. QED BY <1>1, <1>3, <1>4, <2>1
<1>7. CASE c = "LF"
  <2>1. q = [i |-> r.i + 1, out |-> r.out \o Ansi!Flush(r.line) \o <<"LF">>, line |-> <<>>, st |-> r.st]
    BY <1>7, RenderCases
  <2>2. Ansi!Flush(r.line) \in Seq(Html)
    BY <1>1, FlushIs
  <2>3. <<"LF">> \in Seq(Html)
    BY DEF Html, Out
  <2>4. \A x, y, z \in Seq(Html) : x \o y \o z \in Seq(Html)
    OBVIOUS
  <2>5. r.out \o Ansi!Flush(r.line) \o <<"LF">> \in Seq(Html)
    BY <1>1, <2>2, <2>3, <2>4
  <2>6. QED BY <1>3, <1>4, <2>1, <2>5
<1>8. CASE c = "BS"
  <2>1. q = [i |-> r.i + 1, out |-> r.out, line |-> Ansi!Backspace(r.line), st |-> r.st]
    BY <1>8, RenderCases
  <2>2. QED BY <1>1, <1>3, <2>1, BackspaceShows
<1>9. CASE c \in {"BEL", "NUL"}
  <2>1. q = [i |-> r.i + 1, out |-> r.out, line |-> r.line, st |-> r.st]
    BY <1>9, RenderCases
  <2>2. QED BY <1>1, <1>3, <2>1
<1>10. CASE c \in Text
  <2>1. q = [i |-> r.i + 1, out |-> r.out, line |-> Ansi!Put(r.line, r.st, c), st |-> r.st]
    BY <1>10, RenderCases
  <2>2. Ansi!Put(r.line, r.st, c) \in Seq(Seg)
    BY <1>1, <1>10, PutShows
  <2>3. QED BY <1>1, <1>3, <2>1, <2>2
<1>11. "TAB" \in Text
  BY DEF Text
<1>12. QED BY <1>2, <1>5, <1>6, <1>7, <1>8, <1>9, <1>10, <1>11, ByteIs

\* The two walks are at the same byte, and the page shows what the text is.
Together(p, r) ==
  /\ p.i = r.i /\ p.start = Len(Ansi!Seen(r.out))
  /\ p.out = Ansi!Seen(r.out) \o View(r.line)

LEMMA SeqParts ==
  ASSUME NEW T, NEW p \in Seq(T), NEW q \in Seq(T)
  PROVE  /\ p \o q \in Seq(T) /\ Len(p) \in Nat /\ Len(p \o q) = Len(p) + Len(q)
         /\ SubSeq(p \o q, 1, Len(p)) = p
         /\ p \o <<>> = p
         /\ \A x \in T : p \o Append(q, x) = Append(p \o q, x)
         /\ \A x \in T : SubSeq(Append(q, x), 1, Len(Append(q, x)) - 1) = q /\ Append(q, x) # <<>>
         /\ q # <<>> => Len(p \o q) > Len(p)
<1>1. p \o q \in Seq(T) /\ Len(p) \in Nat /\ Len(q) \in Nat /\ Len(p \o q) = Len(p) + Len(q)
  OBVIOUS
<1>2. SubSeq(p \o q, 1, Len(p)) = p
  <2> DEFINE u == p \o q  n == Len(p)  w == SubSeq(u, 1, n)
  <2>1. u \in Seq(T) /\ n \in Nat /\ n <= Len(u) /\ \A k \in 1 .. n : u[k] = p[k]
    BY <1>1
  <2> HIDE DEF u
  <2>2. w \in Seq(T) /\ Len(w) = n /\ \A k \in 1 .. n : w[k] = u[k]
    BY <2>1
  <2>3. w = p
    <3> HIDE DEF w
    <3>1. QED BY <2>1, <2>2, SameSeq
  <2>4. QED BY <2>3 DEF u
<1>3. p \o <<>> = p
  OBVIOUS
<1>4. \A x \in T : p \o Append(q, x) = Append(p \o q, x)
  OBVIOUS
<1>5. ASSUME NEW x \in T PROVE SubSeq(Append(q, x), 1, Len(Append(q, x)) - 1) = q /\ Append(q, x) # <<>>
  <2> DEFINE u == Append(q, x)  n == Len(q)  w == SubSeq(u, 1, n)
  <2>1. u \in Seq(T) /\ n \in Nat /\ Len(u) = n + 1 /\ \A k \in 1 .. n : u[k] = q[k]
    OBVIOUS
  <2>2. u # <<>> /\ Len(u) - 1 = n
    BY <2>1
  <2> HIDE DEF u, n
  <2>3. w \in Seq(T) /\ Len(w) = n /\ \A k \in 1 .. n : w[k] = u[k]
    BY <2>1
  <2>4. w = q
    <3> HIDE DEF w
    <3>1. Len(q) = n
      BY DEF n
    <3>2. \A k \in 1 .. n : w[k] = q[k]
      BY <2>1, <2>3
    <3>3. QED BY <2>3, <3>1, <3>2, SameSeq
  <2>5. QED BY <2>2, <2>4 DEF u, w
<1>6. q # <<>> => Len(p \o q) > Len(p)
  <2>1. q # <<>> => Len(q) > 0
    OBVIOUS
  <2>2. QED BY <1>1, <2>1
<1>7. QED BY <1>1, <1>2, <1>3, <1>4, <1>5, <1>6

LEMMA StaysTogether ==
  ASSUME NEW b \in Seq(Ansi!Bytes), NEW p \in StripSts, NEW r \in RenderSts,
         p.i <= Len(b), Together(p, r)
  PROVE  Together(Ansi!StripStep(b, p), Ansi!RenderStep(b, r))
<1> DEFINE c == b[p.i]  k == p.i + 1
           seen == Ansi!Seen(r.out)  view == View(r.line)
           ps == Ansi!StripStep(b, p)  rs == Ansi!RenderStep(b, r)
           P(out) == [i |-> k, out |-> out, start |-> p.start]
           R(line) == [i |-> k, out |-> r.out, line |-> line, st |-> r.st]
<1>1. /\ p.i \in Pos /\ p.i = r.i /\ p.out = seen \o view /\ p.start = Len(seen)
      /\ r.out \in Seq(Html) /\ r.line \in Seq(Seg) /\ r.st \in {"plain", "bold"}
  BY DEF StripSts, RenderSts, Together
<1>2. c \in Ansi!Bytes /\ b[r.i] = c /\ r.i + 1 = k
  <2>1. p.i \in 1 .. Len(b)
    BY <1>1 DEF Pos
  <2>2. QED BY <1>1, <2>1
<1>3. seen \in Seq(Out) /\ view \in Seq(Out)
  BY <1>1, SeenIs, ViewIs
<1>4. /\ c = "ESC" => ps = [p EXCEPT !.i = Ansi!Escaped(b, p.i)]
      /\ c = "CR" => ps = P(IF Ansi!IsCRLF(b, p.i) THEN p.out ELSE SubSeq(p.out, 1, p.start))
      /\ c = "LF" => ps = [i |-> k, out |-> Append(p.out, "LF"), start |-> Len(p.out) + 1]
      /\ c = "TAB" => ps = P(Append(p.out, " "))
      /\ c = "BS" => ps = P(IF Len(p.out) > p.start THEN SubSeq(p.out, 1, Len(p.out) - 1) ELSE p.out)
      /\ c \in {"BEL", "NUL"} => ps = P(p.out)
      /\ c \in Text /\ c # "TAB" => ps = P(Append(p.out, c))
  BY StripCases
<1>5. /\ c = "ESC" => rs = [r EXCEPT !.i = Ansi!Escaped(b, r.i), !.st = Ansi!StyleAfter(b, r.i, r.st)]
      /\ c = "CR" => rs = R(IF Ansi!IsCRLF(b, r.i) THEN r.line ELSE <<>>)
      /\ c = "LF" => rs = [i |-> k, out |-> r.out \o Ansi!Flush(r.line) \o <<"LF">>,
                           line |-> <<>>, st |-> r.st]
      /\ c = "BS" => rs = R(Ansi!Backspace(r.line))
      /\ c \in {"BEL", "NUL"} => rs = R(r.line)
      /\ c \in Text => rs = R(Ansi!Put(r.line, r.st, c))
  <2> DEFINE d == b[r.i]  kr == r.i + 1
             Q(line) == [i |-> kr, out |-> r.out, line |-> line, st |-> r.st]
  <2>1. /\ d = "ESC" => rs = [r EXCEPT !.i = Ansi!Escaped(b, r.i), !.st = Ansi!StyleAfter(b, r.i, r.st)]
        /\ d = "CR" => rs = Q(IF Ansi!IsCRLF(b, r.i) THEN r.line ELSE <<>>)
        /\ d = "LF" => rs = [i |-> kr, out |-> r.out \o Ansi!Flush(r.line) \o <<"LF">>,
                             line |-> <<>>, st |-> r.st]
        /\ d = "BS" => rs = Q(Ansi!Backspace(r.line))
        /\ d \in {"BEL", "NUL"} => rs = Q(r.line)
        /\ d \in Text => rs = Q(Ansi!Put(r.line, r.st, d))
    BY RenderCases
  <2> HIDE DEF rs, d, kr, c, k
  <2>2. d = c /\ kr = k
    BY <1>2 DEF d, kr
  <2>3. QED BY <2>1, <2>2
<1>0. SUFFICES Together(ps, rs)
  OBVIOUS
<1> HIDE DEF c, k, ps, rs, seen, view
\* What the step must leave.
<1>6. ASSUME NEW out, NEW line, out = seen \o View(line), ps = P(out), rs = R(line)
      PROVE  Together(ps, rs)
  BY <1>1, <1>6 DEF Together, seen
<1>7. CASE c = "ESC"
  <2>1. /\ ps.i = Ansi!Escaped(b, p.i) /\ ps.out = p.out /\ ps.start = p.start
        /\ rs.i = Ansi!Escaped(b, r.i) /\ rs.out = r.out /\ rs.line = r.line
    BY <1>4, <1>5, <1>7 DEF StripSts, RenderSts
  <2>2. QED BY <1>1, <2>1 DEF Together, seen, view
<1>8. CASE c = "CR"
  <2>1. CASE Ansi!IsCRLF(b, p.i)
    BY <1>1, <1>4, <1>5, <1>6, <1>8, <2>1 DEF view
  <2>2. CASE ~Ansi!IsCRLF(b, p.i)
    <3>1. SubSeq(p.out, 1, p.start) = seen \o View(<<>>)
      <4>1. SubSeq(p.out, 1, p.start) = seen
        BY <1>1, <1>3, SeqParts
      <4>2. View(<<>>) = <<>>
        BY ViewIs
      <4> DEFINE e == <<>>
      <4>3. seen \o e = seen
        BY <1>3, SeqParts
      <4> HIDE DEF e
      <4>4. QED BY <4>1, <4>2, <4>3, Zenon DEF e
    <3>2. ps = P(SubSeq(p.out, 1, p.start)) /\ rs = R(<<>>)
      BY <1>1, <1>4, <1>5, <1>8, <2>2
    <3>3. QED BY <1>6, <3>1, <3>2
  <2>3. QED BY <2>1, <2>2
<1>9. CASE c = "LF"
  <2> DEFINE lf == <<"LF">>  o == r.out \o Ansi!Flush(r.line) \o lf  e == <<>>
  <2>1. ps.i = k /\ ps.out = Append(p.out, "LF") /\ ps.start = Len(p.out) + 1
    BY <1>4, <1>9
  <2>2. rs.i = k /\ rs.out = o /\ rs.line = e
    <3>1. rs = [i |-> k, out |-> o, line |-> e, st |-> r.st]
      BY <1>5, <1>9, Zenon
    <3> HIDE DEF o, e
    <3>2. QED BY <3>1
  <2>3. Ansi!Seen(o) = (seen \o view) \o lf
    <3>1. lf \in Seq(Html) /\ Ansi!Flush(r.line) \in Seq(Html) /\ Ansi!Seen(lf) = lf
      <4>1. "LF" \in Html
        BY DEF Html, Out
      <4>2. <<>> \in Seq(Html) /\ Append(<<>>, "LF") = lf
        OBVIOUS
      <4>3. Ansi!Seen(Append(<<>>, "LF")) = <<>> \o Ansi!Shown("LF")
        BY <4>1, <4>2, SeenIs, Zenon
      <4>4. Ansi!Seen(lf) = <<>> \o lf
        BY <4>2, <4>3, ShownIs
      <4>5. Ansi!Flush(r.line) \in Seq(Html)
        BY <1>1, FlushIs
      <4>6. QED BY <4>1, <4>4, <4>5
    <3> DEFINE x == r.out  y == Ansi!Flush(r.line)
    <3>2. x \in Seq(Html) /\ y \in Seq(Html)
      BY <1>1, <3>1
    <3> HIDE DEF x, y, lf
    <3>3. (x \o y) \o lf = x \o y \o lf /\ x \o y \in Seq(Html)
      BY <3>1, <3>2
    <3>4. Ansi!Seen((x \o y) \o lf) = Ansi!Seen(x \o y) \o Ansi!Seen(lf)
      BY <3>1, <3>3, SeenIs
    <3>5. Ansi!Seen(x \o y) = Ansi!Seen(x) \o Ansi!Seen(y)
      BY <3>2, SeenIs
    <3>6. QED BY <3>1, <3>4, <3>5 DEF x, y, seen, view, View
  <2>4. (seen \o view) \o lf = Append(p.out, "LF") /\ Len((seen \o view) \o lf) = Len(p.out) + 1
    <3> DEFINE v == seen \o view
    <3>1. v \in Seq(Out) /\ p.out = v
      BY <1>1, <1>3
    <3>2. "LF" \in Out
      BY DEF Out
    <3> HIDE DEF v
    <3>3. \A x \in Out : v \o <<x>> = Append(v, x) /\ Len(v \o <<x>>) = Len(v) + 1
      BY <3>1
    <3>4. QED BY <3>1, <3>2, <3>3, Zenon DEF v
  <2>5. View(e) = <<>> /\ Append(p.out, "LF") \in Seq(Out)
    <3>1. p.out \in Seq(Out) /\ "LF" \in Out
      BY DEF StripSts, Out
    <3>2. Append(p.out, "LF") \in Seq(Out)
      BY <3>1
    <3>3. QED BY <3>2, ViewIs
  <2>6. Append(p.out, "LF") \o <<>> = Append(p.out, "LF")
    BY <2>5, SeqParts
  <2> HIDE DEF o, e, lf
  <2>7. ps.i = rs.i /\ ps.start = Len(Ansi!Seen(rs.out)) /\ ps.out = Ansi!Seen(rs.out) \o View(rs.line)
    BY <2>1, <2>2, <2>3, <2>4, <2>5, <2>6, Zenon
  <2>8. QED BY <2>7 DEF Together
<1>10. ASSUME NEW x \in Text, c \in Text, x = c
       PROVE  Together(ps, rs)
  <2>1. ps = P(Append(p.out, CharOf(c)))
    BY <1>4, <1>10 DEF CharOf
  <2>2. View(Ansi!Put(r.line, r.st, x)) = Append(view, CharOf(x)) /\ CharOf(x) \in Out
    BY <1>1, PutShows, CharsAre, ShownIs DEF view
  <2>3. seen \o Append(view, CharOf(x)) = Append(seen \o view, CharOf(x))
    BY <1>3, <2>2, SeqParts
  <2>4. rs = R(Ansi!Put(r.line, r.st, x))
    BY <1>5, <1>10
  <2>5. QED BY <1>1, <1>6, <1>10, <2>1, <2>2, <2>3, <2>4
<1>11. CASE c = "BS"
  <2> DEFINE w == Ansi!Backspace(r.line)
  <2>1. rs = R(w)
    BY <1>5, <1>11
  <2>2. CASE r.line = <<>>
    <3>1. view = <<>> /\ w = r.line
      BY <1>1, <2>2, ViewIs, BackspaceShows DEF view
    <3>2. p.out = seen /\ ~(Len(p.out) > p.start)
      BY <1>1, <1>3, <3>1, SeqParts
    <3>3. ps = P(p.out)
      BY <1>4, <1>11, <3>2
    <3>4. QED BY <1>1, <1>6, <2>1, <3>1, <3>3 DEF view
  <2>3. CASE r.line # <<>>
    <3> HIDE DEF w
    <3>1. w \in Seq(Seg) /\ \E y \in Out : view = Append(View(w), y)
      BY <1>1, <2>3, BackspaceShows DEF view, w
    <3>2. PICK y \in Out : view = Append(View(w), y)
      BY <3>1
    <3>3. View(w) \in Seq(Out)
      BY <3>1, ViewIs
    <3>4. seen \o view = Append(seen \o View(w), y) /\ seen \o View(w) \in Seq(Out) /\ view # <<>>
      <4>1. seen \in Seq(Out)
        BY <1>3
      <4>2. seen \o Append(View(w), y) = Append(seen \o View(w), y)
        BY <3>3, <4>1, SeqParts
      <4>3. seen \o View(w) \in Seq(Out)
        BY <3>3, <4>1, SeqParts
      <4>4. Append(View(w), y) # <<>>
        BY <3>3, SeqParts
      <4>5. QED BY <3>2, <4>2, <4>3, <4>4
    <3>5. Len(p.out) > p.start
      BY <1>1, <1>3, <3>4, SeqParts
    <3>6. SubSeq(p.out, 1, Len(p.out) - 1) = seen \o View(w)
      BY <1>1, <3>4, SeqParts
    <3>7. ps = P(SubSeq(p.out, 1, Len(p.out) - 1))
      BY <1>4, <1>11, <3>5
    <3>8. QED BY <1>6, <2>1, <3>6, <3>7
  <2>4. QED BY <2>2, <2>3
<1>12. CASE c \in {"BEL", "NUL"}
  <2>1. ps = P(p.out) /\ rs = R(r.line)
    BY <1>4, <1>5, <1>12
  <2>2. QED BY <1>1, <1>6, <2>1 DEF view
<1>13. c \in Text => Together(ps, rs)
  BY <1>10
<1>14. c = "TAB" => c \in Text
  BY DEF Text
<1>15. QED BY <1>2, <1>7, <1>8, <1>9, <1>11, <1>12, <1>13, <1>14, ByteIs

\* How deep in spans a page is, from a place on; 9 stands for wrong.
Depths == {0, 1, 9}
Deeper == [z \in Depths \X Html |-> Ansi!DepthAfter(z[1], z[2])]
DepthOf(d, q) == End(Deeper, d, q)

LEMMA DeeperStep ==
  /\ IsStep(Deeper, Depths, Html)
  /\ \A d \in Depths, c \in Html : Deeper[<<d, c>>] = Ansi!DepthAfter(d, c)
<1>1. \A d \in Depths, c \in Html : Ansi!DepthAfter(d, c) \in Depths
  BY DEF Depths, Ansi!DepthAfter
<1>2. QED BY <1>1 DEF IsStep, Deeper

LEMMA DepthSteps ==
  ASSUME NEW d \in Depths
  PROVE  /\ DepthOf(d, <<>>) = d
         /\ \A q \in Seq(Html) : DepthOf(d, q) \in Depths
         /\ \A q \in Seq(Html), c \in Html : DepthOf(d, Append(q, c)) = Ansi!DepthAfter(DepthOf(d, q), c)
<1>1. /\ End(Deeper, d, <<>>) = d
      /\ \A q \in Seq(Html) : End(Deeper, d, q) \in Depths
      /\ \A q \in Seq(Html), c \in Html : End(Deeper, d, Append(q, c)) = Deeper[<<End(Deeper, d, q), c>>]
  BY DeeperStep, EndSteps
<1>2. QED BY <1>1, DeeperStep DEF DepthOf

\* The depth of two parts together.
LEMMA DepthConcat ==
  ASSUME NEW d \in Depths, NEW p \in Seq(Html), NEW q \in Seq(Html)
  PROVE  DepthOf(d, p \o q) = DepthOf(DepthOf(d, p), q)
<1> DEFINE m == DepthOf(d, p)
           G == {r \in Seq(Html) : DepthOf(d, p \o r) = DepthOf(m, r)}
<1>1. m \in Depths
  BY DepthSteps
<1> HIDE DEF m
<1>2. <<>> \in G
  <2>1. p \o <<>> = p /\ <<>> \in Seq(Html)
    OBVIOUS
  <2>2. DepthOf(m, <<>>) = m
    BY <1>1, DepthSteps
  <2>3. QED BY <2>1, <2>2, Zenon DEF m
<1>3. ASSUME NEW r \in Seq(Html), NEW c \in Html, r \in G PROVE Append(r, c) \in G
  <2>1. p \o Append(r, c) = Append(p \o r, c) /\ p \o r \in Seq(Html) /\ Append(r, c) \in Seq(Html)
    BY ConcatAppend
  <2>2. DepthOf(d, Append(p \o r, c)) = Ansi!DepthAfter(DepthOf(d, p \o r), c)
    <3> DEFINE u == p \o r
    <3>1. u \in Seq(Html)
      BY <2>1
    <3> HIDE DEF u
    <3>2. DepthOf(d, Append(u, c)) = Ansi!DepthAfter(DepthOf(d, u), c)
      BY <3>1, DepthSteps
    <3>3. QED BY <3>2 DEF u
  <2>3. DepthOf(m, Append(r, c)) = Ansi!DepthAfter(DepthOf(m, r), c)
    BY <1>1, DepthSteps
  <2>4. DepthOf(d, p \o r) = DepthOf(m, r)
    BY <1>3
  <2>5. DepthOf(d, p \o Append(r, c)) = DepthOf(m, Append(r, c))
    BY <2>1, <2>2, <2>3, <2>4, Zenon
  <2>6. QED BY <2>1, <2>5
<1>4. Seq(Html) \subseteq G
  <2> HIDE DEF G
  <2>1. QED BY <1>2, <1>3, SeqInduct
<1>5. QED BY <1>4 DEF m

\* The characters of a segment open and close nothing.
LEMMA EntitiesFlat ==
  ASSUME NEW d \in {0, 1}, NEW txt \in Seq(Text)
  PROVE  DepthOf(d, Entities(txt)) = d
<1> DEFINE G == {r \in Seq(Text) : DepthOf(d, Entities(r)) = d}
<1>1. d \in Depths
  BY DEF Depths
<1>2. <<>> \in G
  <2>1. Entities(<<>>) = <<>> /\ DepthOf(d, <<>>) = d
    BY <1>1, EntitiesAre, DepthSteps
  <2>2. <<>> \in Seq(Text)
    OBVIOUS
  <2>3. QED BY <2>1, <2>2, Zenon
<1>3. ASSUME NEW r \in Seq(Text), NEW c \in Text, r \in G PROVE Append(r, c) \in G
  <2>1. /\ Entities(Append(r, c)) = Append(Entities(r), Ansi!Escape(c)) /\ Entities(r) \in Seq(Html)
        /\ Append(r, c) \in Seq(Text)
    <3>1. Append(r, c) \in Seq(Text)
      OBVIOUS
    <3>2. QED BY <3>1, EntitiesAre
  <2>2. Ansi!Escape(c) \in Html
    BY ShownIs
  <2>3. DepthOf(d, Entities(Append(r, c))) = Ansi!DepthAfter(DepthOf(d, Entities(r)), Ansi!Escape(c))
    BY <1>1, <2>1, <2>2, DepthSteps
  <2>4. DepthOf(d, Entities(r)) = d
    BY <1>3
  <2>5. Ansi!DepthAfter(d, Ansi!Escape(c)) = d
    <3>1. Ansi!Escape(c) \notin {"<span>", "</span>", "LF", "<"}
      BY DEF Ansi!Escape, Text
    <3>2. QED BY <3>1 DEF Ansi!DepthAfter, Ansi!LF
  <2>6. QED BY <2>1, <2>3, <2>4, <2>5
<1>4. Seq(Text) \subseteq G
  <2> HIDE DEF G
  <2>1. QED BY <1>2, <1>3, SeqInduct
<1>5. QED BY <1>4

LEMMA OneDeep ==
  ASSUME NEW c \in Html, NEW d \in Depths
  PROVE  DepthOf(d, <<c>>) = Ansi!DepthAfter(d, c) /\ <<c>> \in Seq(Html)
<1> DEFINE e == <<>>
<1>1. e \in Seq(Html) /\ Append(e, c) = <<c>> /\ <<c>> \in Seq(Html)
  OBVIOUS
<1>2. DepthOf(d, e) = d
  BY DepthSteps
<1> HIDE DEF e
<1>3. DepthOf(d, Append(e, c)) = Ansi!DepthAfter(DepthOf(d, e), c)
  BY <1>1, DepthSteps
<1>4. QED BY <1>1, <1>2, <1>3

\* A segment, and a line, close what they open.
LEMMA SegClosed ==
  ASSUME NEW g \in Seg
  PROVE  DepthOf(0, Ansi!WriteSeg(g)) = 0
<1> DEFINE e == Entities(g.txt)  a == <<"<span>">>  z == <<"</span>">>
<1>1. e \in Seq(Html) /\ \A d \in {0, 1} : DepthOf(d, e) = d
  BY SegFields, EntitiesAre, EntitiesFlat
<1>2. Ansi!WriteSeg(g) = IF g.st = "plain" THEN e ELSE (a \o e) \o z
  BY WriteSegIs
<1>3. /\ a \in Seq(Html) /\ z \in Seq(Html)
      /\ DepthOf(0, a) = 1 /\ DepthOf(1, z) = 0
  <2>1. "<span>" \in Html /\ "</span>" \in Html
    BY DEF Html
  <2>2. 0 \in Depths /\ 1 \in Depths
    BY DEF Depths
  <2>3. Ansi!DepthAfter(0, "<span>") = 1 /\ Ansi!DepthAfter(1, "</span>") = 0
    BY DEF Ansi!DepthAfter, Ansi!LF
  <2>4. DepthOf(0, a) = Ansi!DepthAfter(0, "<span>") /\ a \in Seq(Html)
    BY <2>1, <2>2, OneDeep
  <2>5. DepthOf(1, z) = Ansi!DepthAfter(1, "</span>") /\ z \in Seq(Html)
    BY <2>1, <2>2, OneDeep
  <2>6. QED BY <2>3, <2>4, <2>5
<1> HIDE DEF e, a, z
<1>4. a \o e \in Seq(Html) /\ 0 \in Depths
  BY <1>1, <1>3 DEF Depths
<1>5. DepthOf(0, a \o e) = DepthOf(DepthOf(0, a), e)
  BY <1>1, <1>3, <1>4, DepthConcat
<1>6. DepthOf(0, (a \o e) \o z) = DepthOf(DepthOf(0, a \o e), z)
  BY <1>3, <1>4, DepthConcat
<1>7. DepthOf(0, a \o e) = 1
  BY <1>1, <1>3, <1>5
<1>8. DepthOf(0, (a \o e) \o z) = 0
  BY <1>3, <1>6, <1>7
<1>9. QED BY <1>1, <1>2, <1>8

LEMMA LineClosed ==
  ASSUME NEW line \in Seq(Seg)
  PROVE  DepthOf(0, Ansi!Flush(line)) = 0
<1> DEFINE G == {q \in Seq(Seg) : DepthOf(0, Ansi!Flush(q)) = 0}
<1>1. 0 \in Depths
  BY DEF Depths
<1>2. <<>> \in G
  <2>1. Ansi!Flush(<<>>) = <<>> /\ DepthOf(0, <<>>) = 0
    BY <1>1, FlushIs, DepthSteps
  <2>2. <<>> \in Seq(Seg)
    OBVIOUS
  <2>3. QED BY <2>1, <2>2, Zenon
<1>3. ASSUME NEW q \in Seq(Seg), NEW g \in Seg, q \in G PROVE Append(q, g) \in G
  <2>1. Ansi!Flush(Append(q, g)) = Ansi!Flush(q) \o Ansi!WriteSeg(g)
    BY FlushIs
  <2>2. Ansi!Flush(q) \in Seq(Html) /\ Ansi!WriteSeg(g) \in Seq(Html)
    BY FlushIs, WriteSegIs
  <2>3. DepthOf(0, Ansi!Flush(Append(q, g))) = DepthOf(DepthOf(0, Ansi!Flush(q)), Ansi!WriteSeg(g))
    BY <1>1, <2>1, <2>2, DepthConcat
  <2>4. DepthOf(0, Ansi!Flush(q)) = 0
    BY <1>3
  <2>5. DepthOf(0, Ansi!Flush(Append(q, g))) = 0
    BY <2>3, <2>4, SegClosed
  <2>6. Append(q, g) \in Seq(Seg)
    OBVIOUS
  <2>7. QED BY <2>5, <2>6
<1>4. Seq(Seg) \subseteq G
  <2> HIDE DEF G
  <2>1. QED BY <1>2, <1>3, SeqInduct
<1>5. QED BY <1>4

\* What is written stays closed at every byte.
LEMMA StaysClosed ==
  ASSUME NEW b \in Seq(Ansi!Bytes), NEW r \in RenderSts, r.i <= Len(b), DepthOf(0, r.out) = 0
  PROVE  DepthOf(0, Ansi!RenderStep(b, r).out) = 0
<1> DEFINE c == b[r.i]  q == Ansi!RenderStep(b, r)
<1>1. r.i \in Pos /\ r.out \in Seq(Html) /\ r.line \in Seq(Seg)
  BY DEF RenderSts
<1>2. c \in Ansi!Bytes
  <2>1. r.i \in 1 .. Len(b)
    BY <1>1 DEF Pos
  <2>2. QED BY <2>1
<1>3. CASE c = "LF"
  <2> DEFINE f == Ansi!Flush(r.line)  lf == <<"LF">>  o == r.out
  <2>1. q.out = o \o f \o lf
    <3>1. q = [i |-> r.i + 1, out |-> o \o f \o lf, line |-> <<>>, st |-> r.st]
      BY <1>3, RenderCases
    <3> HIDE DEF q, o, f, lf
    <3>2. QED BY <3>1
  <2>2. f \in Seq(Html) /\ DepthOf(0, f) = 0 /\ o \in Seq(Html) /\ DepthOf(0, o) = 0
    BY <1>1, FlushIs, LineClosed
  <2>3. lf \in Seq(Html) /\ DepthOf(0, lf) = 0 /\ 0 \in Depths
    <3>1. "LF" \in Html /\ 0 \in Depths
      BY DEF Html, Out, Depths
    <3>2. Ansi!DepthAfter(0, "LF") = 0
      BY DEF Ansi!DepthAfter, Ansi!LF
    <3>3. DepthOf(0, lf) = Ansi!DepthAfter(0, "LF") /\ lf \in Seq(Html)
      BY <3>1, OneDeep
    <3>4. QED BY <3>1, <3>2, <3>3
  <2> HIDE DEF f, lf, o, q
  <2>4. o \o f \in Seq(Html) /\ o \o f \o lf = (o \o f) \o lf
    BY <2>2, <2>3
  <2>5. DepthOf(0, o \o f) = DepthOf(DepthOf(0, o), f)
    BY <2>2, <2>3, DepthConcat
  <2>6. DepthOf(0, (o \o f) \o lf) = DepthOf(DepthOf(0, o \o f), lf)
    BY <2>3, <2>4, DepthConcat
  <2>7. DepthOf(0, q.out) = 0
    BY <2>1, <2>2, <2>3, <2>4, <2>5, <2>6
  <2>8. QED BY <2>7 DEF q
<1>4. CASE c # "LF"
  <2>1. "TAB" \in Text
    BY DEF Text
  <2>2. \/ c = "ESC" \/ c = "CR" \/ c = "BS" \/ c \in {"BEL", "NUL"} \/ c \in Text
    BY <1>2, <1>4, <2>1, ByteIs
  <2>3. q.out = r.out
    <3>1. CASE c = "ESC"
      <4>1. q = [r EXCEPT !.i = Ansi!Escaped(b, r.i), !.st = Ansi!StyleAfter(b, r.i, r.st)]
        BY <3>1, RenderCases
      <4>2. QED BY <4>1 DEF RenderSts
    <3>2. CASE c = "CR"
      <4>1. q = [i |-> r.i + 1, out |-> r.out,
                 line |-> IF Ansi!IsCRLF(b, r.i) THEN r.line ELSE <<>>, st |-> r.st]
        BY <3>2, RenderReturns
      <4>2. QED BY <4>1
    <3>3. CASE c = "BS"
      <4>1. q = [i |-> r.i + 1, out |-> r.out, line |-> Ansi!Backspace(r.line), st |-> r.st]
        BY <3>3, RenderCases
      <4>2. QED BY <4>1
    <3>4. CASE c \in {"BEL", "NUL"}
      <4>1. q = [i |-> r.i + 1, out |-> r.out, line |-> r.line, st |-> r.st]
        BY <3>4, RenderCases
      <4>2. QED BY <4>1
    <3>5. CASE c \in Text
      <4>1. q = [i |-> r.i + 1, out |-> r.out, line |-> Ansi!Put(r.line, r.st, c), st |-> r.st]
        BY <3>5, RenderCases
      <4>2. QED BY <4>1
    <3>6. QED BY <2>2, <3>1, <3>2, <3>3, <3>4, <3>5
  <2>4. QED BY <2>3
<1>5. QED BY <1>3, <1>4

\* A walk takes a step until it is past the end.
StripStart  == [i |-> 1, out |-> <<>>, start |-> 0]
RenderStart == [i |-> 1, out |-> <<>>, line |-> <<>>, st |-> "plain"]
StripGoes(b, p)  == IF p.i > Len(b) THEN p ELSE Ansi!StripStep(b, p)
RenderGoes(b, r) == IF r.i > Len(b) THEN r ELSE Ansi!RenderStep(b, r)

LEMMA StripWalk ==
  ASSUME NEW b \in Seq(Ansi!Bytes)
  PROVE  \E a : /\ \A k \in 0 .. Len(b) : a[k] \in StripSts
                /\ a[0] = StripStart
                /\ \A k \in 1 .. Len(b) : a[k] = StripGoes(b, a[k - 1])
                /\ Ansi!Strip(b) = a[Len(b)].out
<1> DEFINE n == Len(b)
           Rec(M) == M = [k \in 0 .. n |->
             IF k = 0 THEN [i |-> 1, out |-> <<>>, start |-> 0]
             ELSE LET p == M[k - 1] IN IF p.i > Len(b) THEN p ELSE Ansi!StripStep(b, p)]
           M == CHOOSE M : Rec(M)
           B == Ansi!Bytes
           f == [z \in StripSts \X B |-> StripGoes(b, z[1])]
<1>1. n \in Nat /\ b \in Seq(B)
  OBVIOUS
<1>2. \A p \in StripSts : StripGoes(b, p) \in StripSts
  <2>1. TAKE p \in StripSts
  <2>2. n \in Nat /\ p.i \in Nat
    BY DEF StripSts, Pos
  <2>3. CASE p.i > n
    BY <2>3 DEF StripGoes
  <2>4. CASE ~(p.i > n)
    <3>1. p.i <= Len(b)
      BY <2>2, <2>4
    <3>2. QED BY <2>4, <3>1, StripStepTyped DEF StripGoes
  <2>5. QED BY <2>3, <2>4
<1>3. StripStart \in StripSts
  <2> DEFINE e == <<>>
  <2>1. e \in Seq(Out) /\ Len(e) = 0
    OBVIOUS
  <2>2. StripStart = [i |-> 1, out |-> e, start |-> 0]
    BY DEF StripStart
  <2> HIDE DEF e
  <2>3. QED BY <2>1, <2>2 DEF StripSts, Pos
<1> HIDE DEF B, n
<1>4. IsStep(f, StripSts, B)
  BY <1>2 DEF IsStep
<1>5. \A p \in StripSts, x \in B : f[<<p, x>>] = StripGoes(b, p)
  OBVIOUS
<1> HIDE DEF f
<1>6. PICK a \in [0 .. Len(b) -> StripSts] :
        a[0] = StripStart /\ \A k \in 1 .. Len(b) : a[k] = f[<<a[k - 1], b[k]>>]
  BY <1>1, <1>3, <1>4, FoldExists
<1>7. \A k \in 1 .. n : k - 1 \in 0 .. n /\ a[k - 1] \in StripSts /\ b[k] \in B
  BY <1>1, <1>6 DEF n
<1>8. \A k \in 1 .. n : a[k] = StripGoes(b, a[k - 1])
  BY <1>5, <1>6, <1>7 DEF n
<1>9. Rec(a)
  <2>1. \A k \in 0 .. n : k = 0 \/ k \in 1 .. n
    BY <1>1
  <2>2. a = [k \in 0 .. n |-> a[k]]
    BY <1>6 DEF n
  <2>3. \A k \in 0 .. n :
          a[k] = IF k = 0 THEN [i |-> 1, out |-> <<>>, start |-> 0]
                 ELSE LET p == a[k - 1] IN IF p.i > Len(b) THEN p ELSE Ansi!StripStep(b, p)
    BY <1>6, <1>8, <2>1 DEF StripGoes, StripStart
  <2>4. QED BY <2>2, <2>3
<1>10. Rec(M)
  <2> HIDE DEF Rec
  <2>1. QED BY <1>9
<1>11. Ansi!Strip(b) = M[n].out
  BY DEF Ansi!Strip, n
<1> HIDE DEF M
<1>12. M[0] = StripStart /\ \A k \in 1 .. n : M[k] = StripGoes(b, M[k - 1])
  <2>1. \A k \in 1 .. n : k \in 0 .. n /\ k # 0
    BY <1>1
  <2>2. 0 \in 0 .. n
    BY <1>1
  <2>3. QED BY <1>10, <2>1, <2>2 DEF StripGoes, StripStart
<1> HIDE DEF Rec
<1> DEFINE G == {k \in 0 .. n : M[k] \in StripSts}
<1>13. 0 .. n \subseteq G
  <2>1. 0 \in G
    BY <1>1, <1>3, <1>12
  <2>2. ASSUME NEW k \in 1 .. n, k - 1 \in G PROVE k \in G
    <3>1. k \in 0 .. n
      BY <1>1
    <3>2. QED BY <1>2, <1>12, <2>2, <3>1
  <2> HIDE DEF G
  <2>3. QED BY <1>1, <2>1, <2>2, Along
<1>14. QED BY <1>11, <1>12, <1>13 DEF n

LEMMA RenderWalk ==
  ASSUME NEW b \in Seq(Ansi!Bytes)
  PROVE  \E a : /\ \A k \in 0 .. Len(b) : a[k] \in RenderSts
                /\ a[0] = RenderStart
                /\ \A k \in 1 .. Len(b) : a[k] = RenderGoes(b, a[k - 1])
                /\ Ansi!Render(b) = a[Len(b)].out \o Ansi!Flush(a[Len(b)].line)
<1> DEFINE n == Len(b)
           Rec(M) == M = [k \in 0 .. n |->
             IF k = 0 THEN [i |-> 1, out |-> <<>>, line |-> <<>>, st |-> Ansi!Plain]
             ELSE LET p == M[k - 1] IN IF p.i > Len(b) THEN p ELSE Ansi!RenderStep(b, p)]
           M == CHOOSE M : Rec(M)
           B == Ansi!Bytes
           f == [z \in RenderSts \X B |-> RenderGoes(b, z[1])]
<1>1. n \in Nat /\ b \in Seq(B)
  OBVIOUS
<1>2. \A p \in RenderSts : RenderGoes(b, p) \in RenderSts
  <2>1. TAKE p \in RenderSts
  <2>2. n \in Nat /\ p.i \in Nat
    BY DEF RenderSts, Pos
  <2>3. CASE p.i > n
    BY <2>3 DEF RenderGoes
  <2>4. CASE ~(p.i > n)
    <3>1. p.i <= Len(b)
      BY <2>2, <2>4
    <3>2. QED BY <2>4, <3>1, RenderStepTyped DEF RenderGoes
  <2>5. QED BY <2>3, <2>4
<1>3. RenderStart \in RenderSts
  <2> DEFINE e == <<>>
  <2>1. e \in Seq(Html) /\ e \in Seq(Seg)
    OBVIOUS
  <2>2. RenderStart = [i |-> 1, out |-> e, line |-> e, st |-> "plain"]
    BY DEF RenderStart
  <2> HIDE DEF e
  <2>3. QED BY <2>1, <2>2 DEF RenderSts, Pos
<1> HIDE DEF B, n
<1>4. IsStep(f, RenderSts, B)
  BY <1>2 DEF IsStep
<1>5. \A p \in RenderSts, x \in B : f[<<p, x>>] = RenderGoes(b, p)
  OBVIOUS
<1> HIDE DEF f
<1>6. PICK a \in [0 .. Len(b) -> RenderSts] :
        a[0] = RenderStart /\ \A k \in 1 .. Len(b) : a[k] = f[<<a[k - 1], b[k]>>]
  BY <1>1, <1>3, <1>4, FoldExists
<1>7. \A k \in 1 .. n : k - 1 \in 0 .. n /\ a[k - 1] \in RenderSts /\ b[k] \in B
  BY <1>1, <1>6 DEF n
<1>8. \A k \in 1 .. n : a[k] = RenderGoes(b, a[k - 1])
  BY <1>5, <1>6, <1>7 DEF n
<1>9. Rec(a)
  <2>1. \A k \in 0 .. n : k = 0 \/ k \in 1 .. n
    BY <1>1
  <2>2. a = [k \in 0 .. n |-> a[k]]
    BY <1>6 DEF n
  <2>3. \A k \in 0 .. n :
          a[k] = IF k = 0 THEN [i |-> 1, out |-> <<>>, line |-> <<>>, st |-> Ansi!Plain]
                 ELSE LET p == a[k - 1] IN IF p.i > Len(b) THEN p ELSE Ansi!RenderStep(b, p)
    BY <1>6, <1>8, <2>1 DEF RenderGoes, RenderStart, Ansi!Plain
  <2>4. QED BY <2>2, <2>3
<1>10. Rec(M)
  <2> HIDE DEF Rec
  <2>1. QED BY <1>9
<1>11. Ansi!Render(b) = M[n].out \o Ansi!Flush(M[n].line)
  BY DEF Ansi!Render, n
<1> HIDE DEF M
<1>12. M[0] = RenderStart /\ \A k \in 1 .. n : M[k] = RenderGoes(b, M[k - 1])
  <2>1. \A k \in 1 .. n : k \in 0 .. n /\ k # 0
    BY <1>1
  <2>2. 0 \in 0 .. n
    BY <1>1
  <2>3. QED BY <1>10, <2>1, <2>2 DEF RenderGoes, RenderStart, Ansi!Plain
<1> HIDE DEF Rec
<1> DEFINE G == {k \in 0 .. n : M[k] \in RenderSts}
<1>13. 0 .. n \subseteq G
  <2>1. 0 \in G
    BY <1>1, <1>3, <1>12
  <2>2. ASSUME NEW k \in 1 .. n, k - 1 \in G PROVE k \in G
    <3>1. k \in 0 .. n
      BY <1>1
    <3>2. QED BY <1>2, <1>12, <2>2, <3>1
  <2> HIDE DEF G
  <2>3. QED BY <1>1, <2>1, <2>2, Along
<1>14. QED BY <1>11, <1>12, <1>13 DEF n

\* A page shows the text, and closes what it opens.
LEMMA PageRight ==
  ASSUME NEW b \in Seq(Ansi!Bytes)
  PROVE  Ansi!SameText(b) /\ Ansi!WellFormed(b)
<1> DEFINE n == Len(b)
<1>1. n \in Nat
  OBVIOUS
<1>2. PICK p : /\ \A k \in 0 .. n : p[k] \in StripSts
               /\ p[0] = StripStart
               /\ \A k \in 1 .. n : p[k] = StripGoes(b, p[k - 1])
               /\ Ansi!Strip(b) = p[n].out
  BY StripWalk
<1>3. PICK r : /\ \A k \in 0 .. n : r[k] \in RenderSts
               /\ r[0] = RenderStart
               /\ \A k \in 1 .. n : r[k] = RenderGoes(b, r[k - 1])
               /\ Ansi!Render(b) = r[n].out \o Ansi!Flush(r[n].line)
  BY RenderWalk
<1> DEFINE G == {k \in 0 .. n : Together(p[k], r[k]) /\ DepthOf(0, r[k].out) = 0}
<1>4. 0 \in G
  <2> DEFINE e == <<>>
  <2>1. Ansi!Seen(e) = e /\ View(e) = e /\ Len(e) = 0 /\ e \o e = e
    BY SeenIs, ViewIs
  <2>2. DepthOf(0, e) = 0
    BY DepthSteps DEF Depths
  <2>3. /\ p[0].i = 1 /\ p[0].out = e /\ p[0].start = 0
        /\ r[0].i = 1 /\ r[0].out = e /\ r[0].line = e
    BY <1>2, <1>3 DEF StripStart, RenderStart
  <2> HIDE DEF e
  <2>4. Together(p[0], r[0])
    BY <2>1, <2>3 DEF Together
  <2>5. 0 \in 0 .. n
    BY <1>1
  <2>6. QED BY <2>2, <2>3, <2>4, <2>5
<1>5. ASSUME NEW k \in 1 .. n, k - 1 \in G PROVE k \in G
  <2> DEFINE u == p[k - 1]  v == r[k - 1]
  <2>1. k \in 0 .. n /\ k - 1 \in 0 .. n
    BY <1>1
  <2>2. u \in StripSts /\ v \in RenderSts /\ Together(u, v) /\ DepthOf(0, v.out) = 0
    BY <1>2, <1>3, <1>5, <2>1
  <2>3. p[k] = StripGoes(b, u) /\ r[k] = RenderGoes(b, v)
    BY <1>2, <1>3
  <2> HIDE DEF u, v
  <2>4. u.i = v.i /\ u.i \in Nat
    BY <2>2 DEF Together, StripSts, Pos
  <2>5. CASE u.i > n
    BY <2>1, <2>2, <2>3, <2>4, <2>5 DEF StripGoes, RenderGoes
  <2>6. CASE ~(u.i > n)
    <3>1. u.i <= Len(b) /\ v.i <= Len(b)
      BY <1>1, <2>4, <2>6
    <3>2. p[k] = Ansi!StripStep(b, u) /\ r[k] = Ansi!RenderStep(b, v)
      BY <2>3, <2>4, <2>6 DEF StripGoes, RenderGoes
    <3>3. Together(p[k], r[k])
      BY <2>2, <3>1, <3>2, StaysTogether
    <3>4. DepthOf(0, r[k].out) = 0
      BY <2>2, <3>1, <3>2, StaysClosed
    <3>5. QED BY <2>1, <3>3, <3>4
  <2>7. QED BY <2>5, <2>6
<1>6. n \in G
  <2> HIDE DEF G, n
  <2>1. 0 .. n \subseteq G
    BY <1>1, <1>4, <1>5, Along
  <2>2. n \in 0 .. n
    BY <1>1
  <2>3. QED BY <2>1, <2>2
<1> DEFINE o == r[n].out  f == Ansi!Flush(r[n].line)  html == Ansi!Render(b)
<1>7. o \in Seq(Html) /\ f \in Seq(Html) /\ html = o \o f /\ DepthOf(0, f) = 0 /\ DepthOf(0, o) = 0
  <2>1. n \in 0 .. n
    BY <1>1
  <2>2. r[n].out \in Seq(Html) /\ r[n].line \in Seq(Seg)
    BY <1>3, <2>1 DEF RenderSts
  <2>3. QED BY <1>3, <1>6, <2>2, FlushIs, LineClosed
<1>8. Ansi!SameText(b)
  <2>1. p[n].out = Ansi!Seen(o) \o Ansi!Seen(f)
    BY <1>6 DEF Together, View
  <2> HIDE DEF o, f
  <2>2. Ansi!Seen(o \o f) = Ansi!Seen(o) \o Ansi!Seen(f)
    BY <1>7, SeenIs
  <2>3. QED BY <1>2, <1>7, <2>1, <2>2 DEF Ansi!SameText
<1> HIDE DEF o, f, n
<1>9. html \in Seq(Html) /\ DepthOf(0, html) = 0
  <2>1. o \o f \in Seq(Html) /\ 0 \in Depths
    BY <1>7 DEF Depths
  <2>2. DepthOf(0, o \o f) = DepthOf(DepthOf(0, o), f)
    BY <1>7, <2>1, DepthConcat
  <2>3. QED BY <1>7, <2>1, <2>2
<1>10. Ansi!WellFormed(b)
  <2> DEFINE Rec(M) == M = [k \in 0 .. Len(html) |->
               IF k = 0 THEN 0 ELSE Ansi!DepthAfter(M[k - 1], html[k])]
             M == CHOOSE M : Rec(M)
  <2>1. Ansi!WellFormed(b) <=> M[Len(html)] = 0
    BY DEF Ansi!WellFormed
  <2> HIDE DEF html
  <2>2. Len(html) \in Nat /\ 0 \in Depths /\ \A k \in 1 .. Len(html) : html[k] \in Html
    BY <1>9 DEF Depths
  <2>3. PICK a \in [0 .. Len(html) -> Depths] :
          a[0] = 0 /\ \A k \in 1 .. Len(html) : a[k] = Deeper[<<a[k - 1], html[k]>>]
    BY <1>9, <2>2, DeeperStep, FoldExists
  <2>4. \A k \in 1 .. Len(html) : a[k] = Ansi!DepthAfter(a[k - 1], html[k])
    <3>1. TAKE k \in 1 .. Len(html)
    <3>2. a[k - 1] \in Depths /\ html[k] \in Html
      BY <2>2, <2>3
    <3>3. QED BY <2>3, <3>2, DeeperStep
  <2>5. Rec(a)
    <3>1. \A k \in 0 .. Len(html) : k = 0 \/ k \in 1 .. Len(html)
      BY <2>2
    <3>2. a = [k \in 0 .. Len(html) |-> a[k]]
      BY <2>3
    <3>3. \A k \in 0 .. Len(html) :
            a[k] = IF k = 0 THEN 0 ELSE Ansi!DepthAfter(a[k - 1], html[k])
      BY <2>3, <2>4, <3>1
    <3>4. QED BY <3>2, <3>3
  <2>6. Rec(M)
    <3> HIDE DEF Rec
    <3>1. QED BY <2>5
  <2> HIDE DEF M
  <2>7. M[0] = 0 /\ \A k \in 1 .. Len(html) : M[k] = Ansi!DepthAfter(M[k - 1], html[k])
    <3>1. \A k \in 1 .. Len(html) : k \in 0 .. Len(html) /\ k # 0
      BY <2>2
    <3>2. 0 \in 0 .. Len(html)
      BY <2>2
    <3>3. QED BY <2>6, <3>1, <3>2
  <2>8. M = [k \in 0 .. Len(html) |-> M[k]]
    <3> DEFINE X == [k \in 0 .. Len(html) |-> IF k = 0 THEN 0 ELSE Ansi!DepthAfter(M[k - 1], html[k])]
    <3>1. M = X
      BY <2>6
    <3>2. X = [k \in 0 .. Len(html) |-> X[k]]
      OBVIOUS
    <3> HIDE DEF X
    <3>3. QED BY <3>1, <3>2
  <2> HIDE DEF Rec
  <2> DEFINE H == {k \in 0 .. Len(html) : M[k] = a[k]}
  <2>9. 0 .. Len(html) \subseteq H
    <3>1. 0 \in H
      BY <2>2, <2>3, <2>7
    <3>2. ASSUME NEW k \in 1 .. Len(html), k - 1 \in H PROVE k \in H
      <4>1. k \in 0 .. Len(html)
        BY <2>2
      <4>2. QED BY <2>4, <2>7, <3>2, <4>1
    <3> HIDE DEF H
    <3>3. QED BY <2>2, <3>1, <3>2, Along
  <2>10. M[Len(html)] = a[Len(html)]
    <3>1. Len(html) \in 0 .. Len(html)
      BY <2>2
    <3>2. QED BY <2>9, <3>1
  <2>11. a[Len(html)] = DepthOf(0, html)
    <3>1. a = [k \in 0 .. Len(html) |-> a[k]]
      BY <2>3
    <3>2. Run(Deeper, 0, html, a)
      BY <2>3, <3>1 DEF Run
    <3>3. QED BY <1>9, <2>2, <3>2, DeeperStep, RunIs DEF DepthOf
  <2>12. QED BY <1>9, <2>1, <2>10, <2>11
<1>11. QED BY <1>8, <1>10

\* The page the web UI shows of an output has the text the terminal was left with, and
\* closes every element it opens (strip.go, ansihtml.go), for an output of any length.
THEOREM PageShowsTextHolds == SpecReaders => []PageShowsText
<1>1. ReaderTypes => PageShowsText
  <2>1. SUFFICES ASSUME ReaderTypes, which = "ansi" PROVE Ansi!SameText(s) /\ Ansi!WellFormed(s)
    BY DEF PageShowsText
  <2>2. s \in Seq(Ansi!Bytes)
    BY <2>1 DEF ReaderTypes, TokensOf
  <2>3. QED BY <2>2, PageRight
<1>2. QED BY <1>1, ReaderTypesHold, PTL

-----------------------------------------------------------------------------
(***************************************************************************)
(* The readers of quoted and escaped command lines.                        *)
(***************************************************************************)

\* The readers of Unquote, of which how names one.
ReadStart == [i |-> 1, out |-> <<>>, mode |-> "bare"]
StepOf(how, b, p) == CASE how = "shell" -> Unquote!UnquoteStep(b, p)
                       [] how = "vsc" -> Unquote!VscStep(b, p)
                       [] how = "percent" -> Unquote!PercentStep(b, p)
ReadOf(how, b) == CASE how = "shell" -> Unquote!ShellUnquote(b)
                    [] how = "vsc" -> Unquote!VscUnescape(b)
                    [] how = "percent" -> Unquote!PercentDecode(b)
ReadGoes(how, b, p) == IF p.i > Len(b) THEN p ELSE StepOf(how, b, p)

ReadWalk(how, b, a) == a[0] = ReadStart /\ \A k \in 1 .. Len(b) : a[k] = ReadGoes(how, b, a[k - 1])

LEMMA ReadWalks ==
  ASSUME NEW S, NEW b \in Seq(S), NEW how \in {"shell", "vsc", "percent"}
  PROVE  \E a : ReadWalk(how, b, a) /\ ReadOf(how, b) = a[Len(b)].out
<1> DEFINE n == Len(b)
           Upto(m, a) == /\ a = [k \in 0 .. m |-> a[k]] /\ a[0] = ReadStart
                         /\ \A k \in 1 .. m : a[k] = ReadGoes(how, b, a[k - 1])
           G == {m \in Nat : \E a : Upto(m, a)}
           Rec(M) == M = [k \in 0 .. n |->
             IF k = 0 THEN ReadStart ELSE LET p == M[k - 1] IN IF p.i > n THEN p ELSE StepOf(how, b, p)]
           M == CHOOSE M : Rec(M)
<1>1. n \in Nat
  OBVIOUS
<1>2. 0 \in G
  <2> DEFINE a == [k \in 0 .. 0 |-> ReadStart]
  <2>1. Upto(0, a)
    OBVIOUS
  <2>2. QED BY <2>1
<1>3. ASSUME NEW m \in 1 .. n, m - 1 \in G PROVE m \in G
  <2>1. PICK a : Upto(m - 1, a)
    BY <1>3
  <2> DEFINE x == ReadGoes(how, b, a[m - 1])
             c == [k \in 0 .. m |-> IF k = m THEN x ELSE a[k]]
  <2>2. m \in Nat /\ m # 0 /\ 0 \in 0 .. m /\ m \in 0 .. m
    BY <1>1
  <2> HIDE DEF x
  <2>3. c[0] = ReadStart /\ c[m] = x /\ \A k \in 0 .. m : k # m => c[k] = a[k]
    BY <2>1, <2>2
  <2>4. c = [k \in 0 .. m |-> c[k]]
    OBVIOUS
  <2> HIDE DEF c
  <2>5. \A k \in 1 .. m : c[k] = ReadGoes(how, b, c[k - 1])
    <3>1. TAKE k \in 1 .. m
    <3>2. k - 1 \in 0 .. m /\ k - 1 # m /\ k \in 0 .. m
      BY <2>2
    <3>3. c[k - 1] = a[k - 1]
      BY <2>3, <3>2
    <3>4. CASE k = m
      BY <2>3, <3>3, <3>4 DEF x
    <3>5. CASE k # m
      <4>1. k \in 1 .. m - 1
        BY <2>2, <3>5
      <4>2. a[k] = ReadGoes(how, b, a[k - 1])
        BY <2>1, <4>1
      <4>3. QED BY <2>3, <3>2, <3>3, <3>5, <4>2
    <3>6. QED BY <3>4, <3>5
  <2>6. Upto(m, c)
    BY <2>3, <2>4, <2>5
  <2>7. QED BY <2>2, <2>6
<1>4. n \in G
  <2> HIDE DEF G
  <2>1. 0 .. n \subseteq G
    BY <1>1, <1>2, <1>3, Along
  <2>2. n \in 0 .. n
    BY <1>1
  <2>3. QED BY <2>1, <2>2
<1>5. PICK a : Upto(n, a)
  BY <1>4
<1>6. Rec(a)
  <2>1. \A k \in 0 .. n : k = 0 \/ k \in 1 .. n
    BY <1>1
  <2>2. \A k \in 0 .. n :
          a[k] = IF k = 0 THEN ReadStart ELSE LET p == a[k - 1] IN IF p.i > n THEN p ELSE StepOf(how, b, p)
    BY <1>5, <2>1 DEF ReadGoes
  <2>3. QED BY <1>5, <2>2
<1>7. Rec(M)
  <2> HIDE DEF Rec
  <2>1. QED BY <1>6
<1>8. ReadOf(how, b) = M[n].out
  <2>1. CASE how = "shell"
    BY <2>1 DEF ReadOf, Unquote!ShellUnquote, Unquote!ReadBy, StepOf, ReadStart
  <2>2. CASE how = "vsc"
    BY <2>2 DEF ReadOf, Unquote!VscUnescape, Unquote!ReadBy, StepOf, ReadStart
  <2>3. CASE how = "percent"
    BY <2>3 DEF ReadOf, Unquote!PercentDecode, Unquote!ReadBy, StepOf, ReadStart
  <2>4. QED BY <2>1, <2>2, <2>3
<1> HIDE DEF M
<1>9. M[0] = ReadStart /\ \A k \in 1 .. n : M[k] = ReadGoes(how, b, M[k - 1])
  <2>1. \A k \in 1 .. n : k \in 0 .. n /\ k # 0
    BY <1>1
  <2>2. 0 \in 0 .. n
    BY <1>1
  <2>3. QED BY <1>7, <2>1, <2>2 DEF ReadGoes
<1>10. QED BY <1>8, <1>9 DEF ReadWalk

\* The reader comes to the state p.
Comes(how, b, p) ==
  \A a : ReadWalk(how, b, a) => \E n \in 0 .. Len(b) : n < p.i /\ a[n] = p

LEMMA ComesFirst ==
  ASSUME NEW S, NEW b \in Seq(S), NEW how
  PROVE  Comes(how, b, ReadStart)
<1>1. 0 \in 0 .. Len(b) /\ 0 < ReadStart.i
  BY DEF ReadStart
<1>2. QED BY <1>1 DEF Comes, ReadWalk

LEMMA ComesNext ==
  ASSUME NEW S, NEW b \in Seq(S), NEW how, NEW p, NEW q, Comes(how, b, p),
         p.i \in Nat, p.i <= Len(b), StepOf(how, b, p) = q, q.i \in Nat, q.i > p.i
  PROVE  Comes(how, b, q)
<1>1. SUFFICES ASSUME NEW a, ReadWalk(how, b, a)
               PROVE  \E n \in 0 .. Len(b) : n < q.i /\ a[n] = q
  BY DEF Comes
<1>2. PICK n \in 0 .. Len(b) : n < p.i /\ a[n] = p
  BY <1>1 DEF Comes
<1>3. n + 1 \in 1 .. Len(b) /\ n + 1 \in 0 .. Len(b) /\ (n + 1) - 1 = n /\ n + 1 < q.i
  BY <1>2
<1>4. a[n + 1] = ReadGoes(how, b, a[(n + 1) - 1])
  BY <1>1, <1>3 DEF ReadWalk
<1>5. ~(p.i > Len(b))
  OBVIOUS
<1>6. a[n + 1] = q
  BY <1>2, <1>3, <1>4, <1>5 DEF ReadGoes
<1>7. QED BY <1>3, <1>6

LEMMA ComesLast ==
  ASSUME NEW S, NEW b \in Seq(S), NEW how \in {"shell", "vsc", "percent"}, NEW p,
         Comes(how, b, p), p.i = Len(b) + 1
  PROVE  ReadOf(how, b) = p.out
<1>1. PICK a : ReadWalk(how, b, a) /\ ReadOf(how, b) = a[Len(b)].out
  BY ReadWalks
<1>2. PICK n \in 0 .. Len(b) : n < p.i /\ a[n] = p
  BY <1>1 DEF Comes
<1> DEFINE m == Len(b) - n
           G == {k \in Nat : k <= m => a[n + k] = p}
<1>3. m \in Nat /\ Len(b) \in Nat /\ n \in Nat
  OBVIOUS
<1>4. 0 \in G
  BY <1>2, <1>3
<1>5. ASSUME NEW k \in 1 .. m, k - 1 \in G PROVE k \in G
  <2>1. k \in Nat /\ k - 1 <= m /\ n + k \in 1 .. Len(b) /\ (n + k) - 1 = n + (k - 1)
    BY <1>3
  <2>2. a[n + k] = ReadGoes(how, b, a[(n + k) - 1])
    BY <1>1, <2>1 DEF ReadWalk
  <2>3. a[n + (k - 1)] = p
    BY <1>5, <2>1
  <2>4. p.i > Len(b)
    BY <1>3
  <2>5. a[n + k] = p
    BY <2>1, <2>2, <2>3, <2>4 DEF ReadGoes
  <2>6. QED BY <2>1, <2>5
<1>6. m \in G
  <2> HIDE DEF G, m
  <2>1. 0 .. m \subseteq G
    BY <1>3, <1>4, <1>5, Along
  <2>2. m \in 0 .. m
    BY <1>3
  <2>3. QED BY <2>1, <2>2
<1>7. a[Len(b)] = p
  BY <1>3, <1>6
<1>8. QED BY <1>1, <1>7

\* In b the bytes u stand at i.
Stands(b, i, u) == i + Len(u) <= Len(b) + 1 /\ \A k \in 1 .. Len(u) : b[i + k - 1] = u[k]
ReadSt(i, o, mode) == [i |-> i, out |-> o, mode |-> mode]

\* What the first k of w become takes so many bytes.
Offset(g, w, k) == Len(Spread(g, SubSeq(w, 1, k)))

LEMMA OffsetIs ==
  ASSUME NEW S, NEW T, NEW g, IsSpread(g, S, T), NEW w \in Seq(T)
  PROVE  /\ Offset(g, w, 0) = 0 /\ Offset(g, w, Len(w)) = Len(Spread(g, w))
         /\ \A k \in 0 .. Len(w) : Offset(g, w, k) \in Nat
         /\ \A k \in 1 .. Len(w) :
              /\ Offset(g, w, k) = Offset(g, w, k - 1) + Len(g[w[k]])
              /\ Offset(g, w, k) <= Len(Spread(g, w))
              /\ \A j \in 1 .. Len(g[w[k]]) : Spread(g, w)[Offset(g, w, k - 1) + j] = g[w[k]][j]
<1> DEFINE h(k) == SubSeq(w, 1, k)
<1>1. \A k \in 0 .. Len(w) : h(k) \in Seq(T)
  OBVIOUS
<1>2. h(Len(w)) = w
  OBVIOUS
<1>3. h(0) = <<>>
  OBVIOUS
<1>4. /\ Spread(g, <<>>) = <<>>
      /\ \A q \in Seq(T) : Spread(g, q) \in Seq(S)
      /\ \A q \in Seq(T), x \in T : Spread(g, Append(q, x)) = Spread(g, q) \o g[x]
  BY SpreadSteps
<1>5. \A k \in 1 .. Len(w) : h(k) = Append(h(k - 1), w[k]) /\ w[k] \in T /\ k - 1 \in 0 .. Len(w)
  <2>1. TAKE k \in 1 .. Len(w)
  <2>2. SubSeq(w, 1, k) = Append(SubSeq(w, 1, k - 1), w[k]) /\ w[k] \in T
    BY SubSeqAppends
  <2>3. QED BY <2>2
<1>6. ASSUME NEW k \in 1 .. Len(w)
      PROVE  /\ Offset(g, w, k) = Offset(g, w, k - 1) + Len(g[w[k]])
             /\ Offset(g, w, k) <= Len(Spread(g, w))
             /\ \A j \in 1 .. Len(g[w[k]]) : Spread(g, w)[Offset(g, w, k - 1) + j] = g[w[k]][j]
  <2> DEFINE a == Spread(g, h(k - 1))  c == g[w[k]]
             r == SubSeq(w, k + 1, Len(w))  d == Spread(g, r)
  <2>1. r \in Seq(T) /\ w = h(k) \o r
    <3>1. r \in Seq(T) /\ h(k) \in Seq(T)
      OBVIOUS
    <3>2. Len(h(k)) = k /\ Len(r) = Len(w) - k
      OBVIOUS
    <3> DEFINE v == h(k) \o r
    <3>3. v \in Seq(T) /\ Len(v) = Len(w)
      BY <3>1, <3>2
    <3>4. \A j \in 1 .. Len(w) : v[j] = w[j]
      <4>1. TAKE j \in 1 .. Len(w)
      <4>2. CASE j <= k
        BY <3>1, <3>2, <4>2
      <4>3. CASE j > k
        BY <3>1, <3>2, <4>3
      <4>4. QED BY <4>2, <4>3
    <3>5. w = v
      <4> HIDE DEF v
      <4>1. QED BY <3>3, <3>4, SameSeq
    <3>6. QED BY <3>1, <3>5
  <2>2. Spread(g, h(k)) = a \o c
    BY <1>1, <1>4, <1>5
  <2>3. Spread(g, w) = (a \o c) \o d
    <3>1. h(k) \in Seq(T)
      BY <1>1
    <3> HIDE DEF r, h
    <3>2. Spread(g, h(k) \o r) = Spread(g, h(k)) \o Spread(g, r)
      BY <2>1, <3>1, SpreadConcat
    <3>3. QED BY <2>1, <2>2, <3>2 DEF h
  <2>4. a \in Seq(S) /\ c \in Seq(S) /\ d \in Seq(S)
    BY <1>1, <1>4, <1>5, <2>1 DEF IsSpread
  <2>5. Offset(g, w, k) = Len(a \o c) /\ Offset(g, w, k - 1) = Len(a)
    BY <2>2 DEF Offset
  <2> HIDE DEF a, c, d
  <2>6. /\ Len(a \o c) = Len(a) + Len(c) /\ Len(a \o c) <= Len((a \o c) \o d)
        /\ \A j \in 1 .. Len(c) : ((a \o c) \o d)[Len(a) + j] = c[j]
    BY <2>4
  <2>7. QED BY <2>3, <2>5, <2>6 DEF c
<1>7. \A k \in 0 .. Len(w) : Offset(g, w, k) \in Nat
  <2>1. \A q \in Seq(S) : Len(q) \in Nat
    OBVIOUS
  <2>2. QED BY <1>1, <1>4, <2>1 DEF Offset
<1>8. Offset(g, w, 0) = 0
  <2>1. Len(<<>>) = 0
    OBVIOUS
  <2>2. Offset(g, w, 0) = Len(Spread(g, h(0)))
    BY DEF Offset
  <2> HIDE DEF h
  <2>3. QED BY <1>3, <1>4, <2>1, <2>2, Zenon
<1>9. Offset(g, w, Len(w)) = Len(Spread(g, w))
  BY <1>2 DEF Offset
<1>10. QED BY <1>6, <1>7, <1>8, <1>9

\* When each character is read back wherever it stands, so is the text.
ReadsEach(how, b, mode, g, T) ==
  \A i \in Nat, o \in Seq(T), c \in T :
    i > 0 /\ Stands(b, i, g[c]) /\ Comes(how, b, ReadSt(i, o, mode))
      => Comes(how, b, ReadSt(i + Len(g[c]), Append(o, c), mode))

LEMMA EachRead ==
  ASSUME NEW S, NEW T, NEW g, IsSpread(g, S, T), NEW w \in Seq(T), NEW b, NEW how, NEW mode,
         NEW i \in Nat, i > 0, Stands(b, i, Spread(g, w)), Comes(how, b, ReadSt(i, <<>>, mode)),
         ReadsEach(how, b, mode, g, T), Len(b) \in Nat
  PROVE  Comes(how, b, ReadSt(i + Len(Spread(g, w)), w, mode))
<1> DEFINE n == Len(w)
           off(k) == Offset(g, w, k)
           G == {k \in Nat : Comes(how, b, ReadSt(i + off(k), SubSeq(w, 1, k), mode))}
<1>1. n \in Nat /\ SubSeq(w, 1, n) = w
  OBVIOUS
<1>1a. SubSeq(w, 1, 0) = <<>>
  OBVIOUS
<1>2. /\ off(0) = 0 /\ off(n) = Len(Spread(g, w))
      /\ \A k \in 0 .. n : off(k) \in Nat
      /\ \A k \in 1 .. n : off(k) = off(k - 1) + Len(g[w[k]]) /\ off(k) <= Len(Spread(g, w))
      /\ \A k \in 1 .. n : \A j \in 1 .. Len(g[w[k]]) : Spread(g, w)[off(k - 1) + j] = g[w[k]][j]
  BY OffsetIs
<1> HIDE DEF off
<1>3. 0 \in G
  <2>1. i + 0 = i
    OBVIOUS
  <2>2. QED BY <1>1a, <1>2, <2>1
<1>4. ASSUME NEW k \in 1 .. n, k - 1 \in G PROVE k \in G
  <2> DEFINE o == SubSeq(w, 1, k - 1)  c == w[k]  p == i + off(k - 1)
  <2>1. o \in Seq(T) /\ c \in T /\ SubSeq(w, 1, k) = Append(o, c)
    BY SubSeqAppends
  <2>2. k - 1 \in 0 .. n /\ k \in 0 .. n
    BY <1>1
  <2>3. off(k - 1) \in Nat /\ off(k) \in Nat /\ Len(g[c]) \in Nat
    <3>1. g[c] \in Seq(S)
      BY <2>1 DEF IsSpread
    <3>2. Len(g[c]) \in Nat
      BY <3>1
    <3>3. QED BY <1>2, <2>2, <3>2
  <2>4. p \in Nat /\ p > 0
    BY <2>3
  <2>5. Stands(b, p, g[c])
    <3> DEFINE z == Spread(g, w)
    <3>1. z \in Seq(S)
      BY SpreadSteps
    <3>2. /\ Len(z) \in Nat /\ i + Len(z) <= Len(b) + 1
          /\ \A j \in 1 .. Len(z) : b[i + j - 1] = z[j]
      BY <3>1 DEF Stands
    <3>3. /\ off(k) = off(k - 1) + Len(g[c]) /\ off(k) <= Len(z)
          /\ \A j \in 1 .. Len(g[c]) : z[off(k - 1) + j] = g[c][j]
      BY <1>2
    <3> HIDE DEF z, c
    <3>4. p + Len(g[c]) <= Len(b) + 1
      BY <2>3, <3>2, <3>3
    <3>5. ASSUME NEW j \in 1 .. Len(g[c]) PROVE b[p + j - 1] = g[c][j]
      <4> DEFINE x == off(k - 1)  l == Len(g[c])  m == Len(z)
      <4>0. x \in Nat /\ l \in Nat /\ m \in Nat /\ off(k) = x + l /\ off(k) <= m /\ j \in 1 .. l /\ p = i + x
        BY <2>3, <3>2, <3>3
      <4> HIDE DEF x, l, m, p
      <4>1. x + j \in 1 .. m /\ i + (x + j) - 1 = p + j - 1
        BY <4>0
      <4> USE DEF x, l, m
      <4>2. b[i + (off(k - 1) + j) - 1] = z[off(k - 1) + j]
        BY <3>2, <4>1
      <4>3. QED BY <3>3, <4>1, <4>2
    <3>6. QED BY <3>4, <3>5 DEF Stands
  <2>6. Comes(how, b, ReadSt(p, o, mode))
    BY <1>4
  <2> HIDE DEF p, o, c
  <2>7. Comes(how, b, ReadSt(p + Len(g[c]), Append(o, c), mode))
    BY <2>1, <2>4, <2>5, <2>6 DEF ReadsEach
  <2>8. p + Len(g[c]) = i + off(k)
    BY <1>2, <2>3 DEF p, c
  <2>9. Comes(how, b, ReadSt(i + off(k), SubSeq(w, 1, k), mode))
    BY <2>1, <2>7, <2>8
  <2>10. k \in Nat
    OBVIOUS
  <2>11. QED BY <2>9, <2>10
<1>5. n \in G
  <2> HIDE DEF G, n
  <2>1. 0 .. n \subseteq G
    BY <1>1, <1>3, <1>4, Along
  <2>2. n \in 0 .. n
    BY <1>1
  <2>3. QED BY <2>1, <2>2
<1>6. QED BY <1>1, <1>2, <1>5

ShellStep(b, i, o, mode) == Unquote!UnquoteStep(b, ReadSt(i, o, mode))

LEMMA BareSteps ==
  ASSUME NEW b, NEW i, NEW o
  PROVE  /\ b[i] \notin {"\\", "$", "'", "\""} =>
              ShellStep(b, i, o, "bare") = ReadSt(i + 1, o \o <<b[i]>>, "bare")
         /\ b[i] = "\\" /\ i < Len(b) =>
              ShellStep(b, i, o, "bare") = ReadSt(i + 2, o \o <<b[i + 1]>>, "bare")
<1> DEFINE p == ReadSt(i, o, "bare")
<1>1. p.i = i /\ p.out = o /\ p.mode = "bare"
  BY DEF ReadSt
<1> HIDE DEF p
<1>2. ASSUME b[i] \notin {"\\", "$", "'", "\""}
      PROVE  Unquote!UnquoteStep(b, p) = ReadSt(i + 1, o \o <<b[i]>>, "bare")
  BY <1>1, <1>2 DEF Unquote!UnquoteStep, Unquote!Took, Unquote!DQ, ReadSt
<1>3. ASSUME b[i] = "\\", i < Len(b)
      PROVE  Unquote!UnquoteStep(b, p) = ReadSt(i + 2, o \o <<b[i + 1]>>, "bare")
  BY <1>1, <1>3 DEF Unquote!UnquoteStep, Unquote!Took, Unquote!DQ, ReadSt
<1>4. QED BY <1>2, <1>3 DEF ShellStep, p

LEMMA BareDollar ==
  ASSUME NEW b, NEW i, NEW o, b[i] = "$", i < Len(b), b[i + 1] = "'"
  PROVE  ShellStep(b, i, o, "bare") = ReadSt(i + 2, o \o <<>>, "ansi")
<1> DEFINE p == ReadSt(i, o, "bare")
<1>1. p.i = i /\ p.out = o /\ p.mode = "bare"
  BY DEF ReadSt
<1> HIDE DEF p
<1>2. Unquote!UnquoteStep(b, p) = ReadSt(i + 2, o \o <<>>, "ansi")
  BY <1>1 DEF Unquote!UnquoteStep, Unquote!Took, Unquote!DQ, ReadSt
<1>3. QED BY <1>2 DEF ShellStep, p

LEMMA BareQuote ==
  ASSUME NEW b, NEW i, NEW o, b[i] = "'"
  PROVE  ShellStep(b, i, o, "bare") = ReadSt(i + 1, o \o <<>>, "single")
<1> DEFINE p == ReadSt(i, o, "bare")
<1>1. p.i = i /\ p.out = o /\ p.mode = "bare"
  BY DEF ReadSt
<1> HIDE DEF p
<1>2. Unquote!UnquoteStep(b, p) = ReadSt(i + 1, o \o <<>>, "single")
  BY <1>1 DEF Unquote!UnquoteStep, Unquote!Took, Unquote!DQ, ReadSt
<1>3. QED BY <1>2 DEF ShellStep, p

LEMMA SingleSteps ==
  ASSUME NEW b, NEW i, NEW o
  PROVE  /\ b[i] # "'" => ShellStep(b, i, o, "single") = ReadSt(i + 1, o \o <<b[i]>>, "single")
         /\ b[i] = "'" => ShellStep(b, i, o, "single") = ReadSt(i + 1, o \o <<>>, "bare")
<1> DEFINE p == ReadSt(i, o, "single")
<1>1. p.i = i /\ p.out = o /\ p.mode = "single"
  BY DEF ReadSt
<1> HIDE DEF p
<1>2. ASSUME b[i] # "'"
      PROVE  Unquote!UnquoteStep(b, p) = ReadSt(i + 1, o \o <<b[i]>>, "single")
  BY <1>1, <1>2 DEF Unquote!UnquoteStep, Unquote!Took, Unquote!DQ, ReadSt
<1>3. ASSUME b[i] = "'"
      PROVE  Unquote!UnquoteStep(b, p) = ReadSt(i + 1, o \o <<>>, "bare")
  BY <1>1, <1>3 DEF Unquote!UnquoteStep, Unquote!Took, Unquote!DQ, ReadSt
<1>4. QED BY <1>2, <1>3 DEF ShellStep, p

\* What AnsiQuoted writes stands for its character.
LEMMA AnsiCIs ==
  ASSUME NEW b, NEW i \in Nat, Len(b) \in Nat
  PROVE  /\ b[i + 1] \in {"\\", "'"} => Unquote!AnsiC(b, i) = [dec |-> <<b[i + 1]>>, len |-> 2]
         /\ b[i + 1] = "n" => Unquote!AnsiC(b, i) = [dec |-> <<"\n">>, len |-> 2]
         /\ i + 3 <= Len(b) /\ b[i + 1] = "0" /\ b[i + 2] = "0" /\ b[i + 3] = "1"
              => Unquote!AnsiC(b, i) = [dec |-> <<"SOH">>, len |-> 4]
<1>1. ASSUME b[i + 1] \in {"\\", "'"}
      PROVE  Unquote!AnsiC(b, i) = [dec |-> <<b[i + 1]>>, len |-> 2]
  BY <1>1 DEF Unquote!AnsiC, Unquote!DQ, Unquote!Digits
<1>2. ASSUME b[i + 1] = "n" PROVE Unquote!AnsiC(b, i) = [dec |-> <<"\n">>, len |-> 2]
  BY <1>2 DEF Unquote!AnsiC, Unquote!DQ, Unquote!NL, Unquote!Digits
<1>3. ASSUME i + 3 <= Len(b), b[i + 1] = "0", b[i + 2] = "0", b[i + 3] = "1"
      PROVE  Unquote!AnsiC(b, i) = [dec |-> <<"SOH">>, len |-> 4]
  <2> DEFINE O == Unquote!Octal(b, i)
             n == CHOOSE n \in O : \A m \in O : m <= n
  <2>1. 3 \in O
    <3>1. 3 \in 1 .. Len(b) - i
      BY <1>3
    <3>2. \A k \in 1 .. 3 : b[i + k] \in {"0", "1"}
      <4>1. TAKE k \in 1 .. 3
      <4>2. k = 1 \/ k = 2 \/ k = 3
        OBVIOUS
      <4>3. QED BY <1>3, <4>2
    <3>3. QED BY <3>1, <3>2 DEF Unquote!Octal, Unquote!Digits
  <2>2. \A m \in O : m <= 3 /\ m \in Int
    BY DEF Unquote!Octal
  <2> HIDE DEF O
  <2>3. n = 3
    <3>1. n \in O /\ \A m \in O : m <= n
      BY <2>1, <2>2
    <3> HIDE DEF n
    <3>2. n <= 3 /\ 3 <= n /\ n \in Int
      BY <2>1, <2>2, <3>1
    <3>3. QED BY <3>2
  <2>4. SubSeq(b, i + 1, i + 3) = <<"0", "0", "1">>
    <3> DEFINE u == SubSeq(b, i + 1, i + 3)  v == <<"0", "0", "1">>
    <3>1. u = [k \in 1 .. 3 |-> b[i + k]]
      <4>1. (i + 3) - (i + 1) + 1 = 3
        OBVIOUS
      <4>2. QED BY <4>1
    <3>2. v = [k \in 1 .. 3 |-> v[k]]
      OBVIOUS
    <3>3. \A k \in 1 .. 3 : b[i + k] = v[k]
      <4>1. TAKE k \in 1 .. 3
      <4>2. k = 1 \/ k = 2 \/ k = 3
        OBVIOUS
      <4>3. QED BY <1>3, <4>2
    <3> HIDE DEF u, v
    <3>4. QED BY <3>1, <3>2, <3>3 DEF u, v
  <2>5. Unquote!AnsiC(b, i) = [dec |-> IF SubSeq(b, i + 1, i + n) = <<"0", "0", "1">>
                                       THEN <<"SOH">> ELSE <<"?">>, len |-> n + 1]
    BY <1>3 DEF Unquote!AnsiC, Unquote!DQ, Unquote!SOH, Unquote!Digits, O, n
  <2> HIDE DEF n
  <2>6. QED BY <2>3, <2>4, <2>5
<1>4. QED BY <1>1, <1>2, <1>3

LEMMA AnsiByte ==
  ASSUME NEW b, NEW i, NEW o, b[i] \notin {"\\", "'"}
  PROVE  ShellStep(b, i, o, "ansi") = ReadSt(i + 1, o \o <<b[i]>>, "ansi")
<1> DEFINE p == ReadSt(i, o, "ansi")
<1>1. p.i = i /\ p.out = o /\ p.mode = "ansi"
  BY DEF ReadSt
<1> HIDE DEF p
<1>2. Unquote!UnquoteStep(b, p) = ReadSt(i + 1, o \o <<b[i]>>, "ansi")
  BY <1>1 DEF Unquote!UnquoteStep, Unquote!Took, Unquote!DQ, ReadSt
<1>3. QED BY <1>2 DEF ShellStep, p

LEMMA AnsiEnd ==
  ASSUME NEW b, NEW i, NEW o, b[i] = "'"
  PROVE  ShellStep(b, i, o, "ansi") = ReadSt(i + 1, o \o <<>>, "bare")
<1> DEFINE p == ReadSt(i, o, "ansi")
<1>1. p.i = i /\ p.out = o /\ p.mode = "ansi"
  BY DEF ReadSt
<1> HIDE DEF p
<1>2. Unquote!UnquoteStep(b, p) = ReadSt(i + 1, o \o <<>>, "bare")
  BY <1>1 DEF Unquote!UnquoteStep, Unquote!Took, Unquote!DQ, ReadSt
<1>3. QED BY <1>2 DEF ShellStep, p

LEMMA AnsiEscape ==
  ASSUME NEW b, NEW i \in Nat, NEW o, Len(b) \in Nat, b[i] = "\\", i < Len(b),
         NEW c, NEW n, Unquote!AnsiC(b, i) = [dec |-> <<c>>, len |-> n]
  PROVE  ShellStep(b, i, o, "ansi") = ReadSt(i + n, o \o <<c>>, "ansi")
<1> DEFINE p == ReadSt(i, o, "ansi")  e == Unquote!AnsiC(b, i)
<1>1. p.i = i /\ p.out = o /\ p.mode = "ansi"
  BY DEF ReadSt
<1> HIDE DEF p
<1>2. Unquote!UnquoteStep(b, p) = ReadSt(i + e.len, o \o e.dec, "ansi")
  BY <1>1 DEF Unquote!UnquoteStep, Unquote!Took, Unquote!DQ, ReadSt
<1>3. e.len = n /\ e.dec = <<c>>
  OBVIOUS
<1> HIDE DEF e
<1>4. QED BY <1>2, <1>3 DEF ShellStep, p

-----------------------------------------------------------------------------
(***************************************************************************)
(* What quotes a character, and that it is read back.                      *)
(***************************************************************************)

LEMMA UnquoteFlatten == \A q : Unquote!FlattenSeq(q) = FlattenSeq(q)
BY DEF Unquote!FlattenSeq, FlattenSeq

LEMMA ShellComes ==
  ASSUME NEW S, NEW b \in Seq(S), NEW i \in Nat, NEW o, NEW m, NEW j \in Nat, NEW o2, NEW m2,
         Comes("shell", b, ReadSt(i, o, m)), i <= Len(b),
         ShellStep(b, i, o, m) = ReadSt(j, o2, m2), j > i
  PROVE  Comes("shell", b, ReadSt(j, o2, m2))
<1> DEFINE p == ReadSt(i, o, m)  q == ReadSt(j, o2, m2)
<1>1. p.i = i /\ q.i = j
  BY DEF ReadSt
<1>2. StepOf("shell", b, p) = q
  BY DEF StepOf, ShellStep
<1> HIDE DEF p, q
<1>3. QED BY <1>1, <1>2, ComesNext DEF p, q

LEMMA StandsOf ==
  ASSUME NEW b, NEW i \in Nat, Len(b) \in Nat
  PROVE  /\ \A x : Stands(b, i, <<x>>) => i <= Len(b) /\ b[i] = x
         /\ \A x, y : Stands(b, i, <<x, y>>) => i + 1 <= Len(b) /\ b[i] = x /\ b[i + 1] = y
         /\ \A x, y, z : Stands(b, i, <<x, y, z>>) =>
              i + 2 <= Len(b) /\ b[i] = x /\ b[i + 1] = y /\ b[i + 2] = z
         /\ \A x, y, z, u : Stands(b, i, <<x, y, z, u>>) =>
              i + 3 <= Len(b) /\ b[i] = x /\ b[i + 1] = y /\ b[i + 2] = z /\ b[i + 3] = u
<1>1. ASSUME NEW x, Stands(b, i, <<x>>) PROVE i <= Len(b) /\ b[i] = x
  <2>1. 1 \in 1 .. 1 /\ i + 1 - 1 = i
    OBVIOUS
  <2>2. QED BY <1>1, <2>1 DEF Stands
<1>2. ASSUME NEW x, NEW y, Stands(b, i, <<x, y>>)
      PROVE  i + 1 <= Len(b) /\ b[i] = x /\ b[i + 1] = y
  <2>1. 1 \in 1 .. 2 /\ 2 \in 1 .. 2 /\ i + 1 - 1 = i /\ i + 2 - 1 = i + 1
    OBVIOUS
  <2>2. QED BY <1>2, <2>1 DEF Stands
<1>3. ASSUME NEW x, NEW y, NEW z, Stands(b, i, <<x, y, z>>)
      PROVE  i + 2 <= Len(b) /\ b[i] = x /\ b[i + 1] = y /\ b[i + 2] = z
  <2>1. /\ 1 \in 1 .. 3 /\ 2 \in 1 .. 3 /\ 3 \in 1 .. 3
        /\ i + 1 - 1 = i /\ i + 2 - 1 = i + 1 /\ i + 3 - 1 = i + 2
    OBVIOUS
  <2>2. QED BY <1>3, <2>1 DEF Stands
<1>4. ASSUME NEW x, NEW y, NEW z, NEW u, Stands(b, i, <<x, y, z, u>>)
      PROVE  i + 3 <= Len(b) /\ b[i] = x /\ b[i + 1] = y /\ b[i + 2] = z /\ b[i + 3] = u
  <2>1. /\ 1 \in 1 .. 4 /\ 2 \in 1 .. 4 /\ 3 \in 1 .. 4 /\ 4 \in 1 .. 4
        /\ i + 1 - 1 = i /\ i + 2 - 1 = i + 1 /\ i + 3 - 1 = i + 2 /\ i + 4 - 1 = i + 3
    OBVIOUS
  <2>2. QED BY <1>4, <2>1 DEF Stands
<1>5. QED BY <1>1, <1>2, <1>3, <1>4

LEMMA AppendIs ==
  ASSUME NEW T, NEW o \in Seq(T)
  PROVE  (\A x \in T : o \o <<x>> = Append(o, x)) /\ o \o <<>> = o
OBVIOUS

Quoted == Unquote!Quotable \cup {"0"}
BackslashedAt == [c \in Unquote!Quotable |-> Unquote!Backslashed(c)]
AnsiQuotedAt  == [c \in Unquote!Quotable |-> Unquote!AnsiQuoted(c)]
ZshQuotedAt   == [c \in Unquote!Quotable |-> Unquote!ZshQuoted(c)]
SingleAt      == [c \in Unquote!Quotable |-> Unquote!SingleQuoted(c)]

LEMMA QuotedTokens ==
  \A c \in Unquote!Quotable :
    c \in {"k", "n", "1", " ", "'", "\"", "\\", "$", "\n", "SOH"}
BY DEF Unquote!Quotable, Unquote!DQ, Unquote!NL, Unquote!SOH

LEMMA BackslashedRead ==
  ASSUME NEW S, NEW b \in Seq(S)
  PROVE  ReadsEach("shell", b, "bare", BackslashedAt, Unquote!Quotable)
<1> DEFINE T == Unquote!Quotable
<1>1. SUFFICES ASSUME NEW i \in Nat, NEW o \in Seq(T), NEW c \in T, i > 0,
                      Stands(b, i, Unquote!Backslashed(c)), Comes("shell", b, ReadSt(i, o, "bare"))
               PROVE  Comes("shell", b, ReadSt(i + Len(Unquote!Backslashed(c)), Append(o, c), "bare"))
  BY DEF ReadsEach, BackslashedAt
<1>2. c \in {"k", "n", "1", " ", "'", "\"", "\\", "$", "\n", "SOH"}
  BY QuotedTokens
<1>3. Len(b) \in Nat
  OBVIOUS
<1>4. Append(o, c) = o \o <<c>>
  <2> HIDE DEF T
  <2>1. QED BY AppendIs
<1> HIDE DEF T
<1>5. CASE Unquote!Special(c)
  <2>1. Unquote!Backslashed(c) = <<"\\", c>>
    BY <1>5 DEF Unquote!Backslashed
  <2>2. Stands(b, i, <<"\\", c>>)
    BY <1>1, <2>1
  <2>3. i + 1 <= Len(b) /\ b[i] = "\\" /\ b[i + 1] = c
    BY <1>3, <2>2, StandsOf
  <2>4. i < Len(b) /\ i <= Len(b) /\ i + 2 \in Nat /\ i + 2 > i
    BY <1>3, <2>3
  <2>5. ShellStep(b, i, o, "bare") = ReadSt(i + 2, o \o <<c>>, "bare")
    BY <2>3, <2>4, BareSteps
  <2>6. Comes("shell", b, ReadSt(i + 2, o \o <<c>>, "bare"))
    BY <1>1, <2>4, <2>5, ShellComes
  <2>7. Len(Unquote!Backslashed(c)) = 2
    BY <2>1
  <2>8. QED BY <1>4, <2>6, <2>7
<1>6. CASE ~Unquote!Special(c)
  <2>0. c \notin {"\\", "$", "'", "\""}
    BY <1>6 DEF Unquote!Special, Unquote!DQ
  <2>1. Unquote!Backslashed(c) = <<c>>
    BY <1>6 DEF Unquote!Backslashed
  <2>2. Stands(b, i, <<c>>)
    BY <1>1, <2>1
  <2>3. i <= Len(b) /\ b[i] = c
    BY <1>3, <2>2, StandsOf
  <2>4. i + 1 \in Nat /\ i + 1 > i
    OBVIOUS
  <2>5. ShellStep(b, i, o, "bare") = ReadSt(i + 1, o \o <<c>>, "bare")
    BY <2>0, <2>3, BareSteps
  <2>6. Comes("shell", b, ReadSt(i + 1, o \o <<c>>, "bare"))
    BY <1>1, <2>3, <2>4, <2>5, ShellComes
  <2>7. Len(Unquote!Backslashed(c)) = 1
    BY <2>1
  <2>8. QED BY <1>4, <2>6, <2>7
<1>7. QED BY <1>5, <1>6

LEMMA AnsiQuotedRead ==
  ASSUME NEW S, NEW b \in Seq(S)
  PROVE  ReadsEach("shell", b, "ansi", AnsiQuotedAt, Unquote!Quotable)
<1> DEFINE T == Unquote!Quotable
<1>1. SUFFICES ASSUME NEW i \in Nat, NEW o \in Seq(T), NEW c \in T, i > 0,
                      Stands(b, i, Unquote!AnsiQuoted(c)), Comes("shell", b, ReadSt(i, o, "ansi"))
               PROVE  Comes("shell", b, ReadSt(i + Len(Unquote!AnsiQuoted(c)), Append(o, c), "ansi"))
  BY DEF ReadsEach, AnsiQuotedAt
<1>2. c \in {"k", "n", "1", " ", "'", "\"", "\\", "$", "\n", "SOH"}
  BY QuotedTokens
<1>3. Len(b) \in Nat
  OBVIOUS
<1>4. Append(o, c) = o \o <<c>>
  <2> HIDE DEF T
  <2>1. QED BY AppendIs
<1> HIDE DEF T
<1>5. CASE c \in {"\\", "'"}
  <2>1. Unquote!AnsiQuoted(c) = <<"\\", c>>
    BY <1>5 DEF Unquote!AnsiQuoted, Unquote!NL, Unquote!SOH
  <2>2. Stands(b, i, <<"\\", c>>)
    BY <1>1, <2>1
  <2>3. i + 1 <= Len(b) /\ b[i] = "\\" /\ b[i + 1] = c
    BY <1>3, <2>2, StandsOf
  <2>4. i < Len(b) /\ i <= Len(b) /\ i + 2 \in Nat /\ i + 2 > i
    BY <1>3, <2>3
  <2>5. ShellStep(b, i, o, "ansi") = ReadSt(i + 2, o \o <<c>>, "ansi")
    <3>1. Unquote!AnsiC(b, i) = [dec |-> <<c>>, len |-> 2]
      BY <1>3, <1>5, <2>3, AnsiCIs
    <3>2. QED BY <1>3, <2>3, <2>4, <3>1, AnsiEscape
  <2>6. Comes("shell", b, ReadSt(i + 2, o \o <<c>>, "ansi"))
    BY <1>1, <2>4, <2>5, ShellComes
  <2>7. Len(Unquote!AnsiQuoted(c)) = 2
    BY <2>1
  <2>8. QED BY <1>4, <2>6, <2>7
<1>6. CASE c = "\n"
  <2>1. Unquote!AnsiQuoted(c) = <<"\\", "n">>
    BY <1>6 DEF Unquote!AnsiQuoted, Unquote!NL, Unquote!SOH
  <2>2. Stands(b, i, <<"\\", "n">>)
    BY <1>1, <2>1
  <2>3. i + 1 <= Len(b) /\ b[i] = "\\" /\ b[i + 1] = "n"
    BY <1>3, <2>2, StandsOf
  <2>4. i < Len(b) /\ i <= Len(b) /\ i + 2 \in Nat /\ i + 2 > i
    BY <1>3, <2>3
  <2>5. ShellStep(b, i, o, "ansi") = ReadSt(i + 2, o \o <<c>>, "ansi")
    <3>1. Unquote!AnsiC(b, i) = [dec |-> <<c>>, len |-> 2]
      BY <1>3, <1>6, <2>3, AnsiCIs
    <3>2. QED BY <1>3, <2>3, <2>4, <3>1, AnsiEscape
  <2>6. Comes("shell", b, ReadSt(i + 2, o \o <<c>>, "ansi"))
    BY <1>1, <2>4, <2>5, ShellComes
  <2>7. Len(Unquote!AnsiQuoted(c)) = 2
    BY <2>1
  <2>8. QED BY <1>4, <2>6, <2>7
<1>7. CASE c = "SOH"
  <2>1. Unquote!AnsiQuoted(c) = <<"\\", "0", "0", "1">>
    BY <1>7 DEF Unquote!AnsiQuoted, Unquote!NL, Unquote!SOH
  <2>2. Stands(b, i, <<"\\", "0", "0", "1">>)
    BY <1>1, <2>1
  <2>3. i + 3 <= Len(b) /\ b[i] = "\\" /\ b[i + 1] = "0" /\ b[i + 2] = "0" /\ b[i + 3] = "1"
    BY <1>3, <2>2, StandsOf
  <2>4. i < Len(b) /\ i <= Len(b) /\ i + 4 \in Nat /\ i + 4 > i
    BY <1>3, <2>3
  <2>5. ShellStep(b, i, o, "ansi") = ReadSt(i + 4, o \o <<c>>, "ansi")
    <3>1. Unquote!AnsiC(b, i) = [dec |-> <<c>>, len |-> 4]
      BY <1>3, <1>7, <2>3, AnsiCIs
    <3>2. QED BY <1>3, <2>3, <2>4, <3>1, AnsiEscape
  <2>6. Comes("shell", b, ReadSt(i + 4, o \o <<c>>, "ansi"))
    BY <1>1, <2>4, <2>5, ShellComes
  <2>7. Len(Unquote!AnsiQuoted(c)) = 4
    BY <2>1
  <2>8. QED BY <1>4, <2>6, <2>7
<1>8. CASE c \notin {"\\", "'", "\n", "SOH"}
  <2>1. Unquote!AnsiQuoted(c) = <<c>>
    BY <1>8 DEF Unquote!AnsiQuoted, Unquote!NL, Unquote!SOH
  <2>2. Stands(b, i, <<c>>)
    BY <1>1, <2>1
  <2>3. i <= Len(b) /\ b[i] = c
    BY <1>3, <2>2, StandsOf
  <2>4. i + 1 \in Nat /\ i + 1 > i
    OBVIOUS
  <2>5. ShellStep(b, i, o, "ansi") = ReadSt(i + 1, o \o <<c>>, "ansi")
    BY <1>8, <2>3, AnsiByte
  <2>6. Comes("shell", b, ReadSt(i + 1, o \o <<c>>, "ansi"))
    BY <1>1, <2>3, <2>4, <2>5, ShellComes
  <2>7. Len(Unquote!AnsiQuoted(c)) = 1
    BY <2>1
  <2>8. QED BY <1>4, <2>6, <2>7
<1>9. QED BY <1>5, <1>6, <1>7, <1>8

LEMMA StandsParts ==
  ASSUME NEW S, NEW b, NEW i \in Nat, Len(b) \in Nat, NEW u \in Seq(S), NEW v \in Seq(S),
         Stands(b, i, u \o v)
  PROVE  Stands(b, i, u) /\ Stands(b, i + Len(u), v)
<1> DEFINE m == Len(u)  n == Len(v)  w == u \o v
<1>1. /\ m \in Nat /\ n \in Nat /\ Len(w) = m + n
      /\ \A k \in 1 .. m : w[k] = u[k]
      /\ \A k \in 1 .. n : w[m + k] = v[k]
  OBVIOUS
<1>2. i + Len(w) <= Len(b) + 1 /\ \A k \in 1 .. Len(w) : b[i + k - 1] = w[k]
  BY DEF Stands
<1> HIDE DEF w, m, n
<1>3. \A k \in 1 .. m : b[i + k - 1] = u[k]
  <2>1. TAKE k \in 1 .. m
  <2>2. k \in 1 .. Len(w)
    BY <1>1
  <2>3. QED BY <1>1, <1>2, <2>2
<1>4. \A k \in 1 .. n : b[(i + m) + k - 1] = v[k]
  <2>1. TAKE k \in 1 .. n
  <2>2. m + k \in 1 .. Len(w) /\ (i + m) + k - 1 = i + (m + k) - 1
    BY <1>1
  <2>3. QED BY <1>1, <1>2, <2>2
<1>5. i + m <= Len(b) + 1 /\ (i + m) + n <= Len(b) + 1
  BY <1>1, <1>2
<1>6. QED BY <1>3, <1>4, <1>5 DEF Stands, m, n

\* What is read between $' and ' is read as in ansi mode.
LEMMA AnsiString ==
  ASSUME NEW S, NEW b \in Seq(S), NEW i \in Nat, i > 0, NEW T, NEW o \in Seq(T), NEW o2 \in Seq(T),
         NEW Q, NEW d \in Seq(Q), d = <<"$", "'">>, NEW e \in Seq(Q), e = <<"'">>, NEW a \in Seq(Q),
         Stands(b, i, (d \o a) \o e), Comes("shell", b, ReadSt(i, o, "bare")),
         Stands(b, i + 2, a) /\ Comes("shell", b, ReadSt(i + 2, o, "ansi"))
           => Comes("shell", b, ReadSt((i + 2) + Len(a), o2, "ansi"))
  PROVE  Comes("shell", b, ReadSt(i + Len((d \o a) \o e), o2, "bare"))
<1>1. Len(b) \in Nat /\ Len(a) \in Nat
  OBVIOUS
<1>2. Len(d) = 2
  OBVIOUS
<1>3. Len(e) = 1
  OBVIOUS
<1> DEFINE j == (i + 2) + Len(a)
<1>4. Stands(b, i, d) /\ Stands(b, i + 2, a) /\ Stands(b, j, e)
  <2> DEFINE u == d \o a
  <2>1. u \in Seq(Q) /\ Len(u) = Len(d) + Len(a)
    OBVIOUS
  <2> HIDE DEF u
  <2>2. Stands(b, i, u) /\ Stands(b, i + Len(u), e)
    <3>1. Stands(b, i, u \o e)
      BY DEF u
    <3>2. QED BY <1>1, <2>1, <3>1, StandsParts
  <2>3. Stands(b, i, d) /\ Stands(b, i + Len(d), a)
    BY <1>1, <2>2, StandsParts DEF u
  <2>4. i + Len(u) = j
    BY <1>1, <1>2, <2>1
  <2>5. QED BY <1>2, <2>2, <2>3, <2>4
<1>5. i + 1 <= Len(b) /\ b[i] = "$" /\ b[i + 1] = "'"
  <2>1. Stands(b, i, <<"$", "'">>)
    BY <1>4
  <2>2. QED BY <1>1, <2>1, StandsOf
<1>6. o \o <<>> = o /\ o2 \o <<>> = o2
  BY AppendIs
<1>7. Comes("shell", b, ReadSt(i + 2, o, "ansi"))
  <2>1. i < Len(b) /\ i <= Len(b) /\ i + 2 \in Nat /\ i + 2 > i
    BY <1>1, <1>5
  <2>2. ShellStep(b, i, o, "bare") = ReadSt(i + 2, o \o <<>>, "ansi")
    BY <1>5, <2>1, BareDollar
  <2>3. ShellStep(b, i, o, "bare") = ReadSt(i + 2, o, "ansi")
    BY <1>6, <2>2, Zenon
  <2>4. QED BY <2>1, <2>3, ShellComes
<1>8. Comes("shell", b, ReadSt(j, o2, "ansi"))
  BY <1>4, <1>7
<1>9. j <= Len(b) /\ b[j] = "'" /\ j \in Nat
  <2>1. j \in Nat
    BY <1>1
  <2> HIDE DEF j
  <2>2. Stands(b, j, <<"'">>)
    BY <1>4
  <2>3. QED BY <1>1, <2>1, <2>2, StandsOf
<1> HIDE DEF j
<1>10. Comes("shell", b, ReadSt(j + 1, o2, "bare"))
  <2>1. j + 1 \in Nat /\ j + 1 > j
    BY <1>9
  <2>2. ShellStep(b, j, o2, "ansi") = ReadSt(j + 1, o2 \o <<>>, "bare")
    BY <1>9, AnsiEnd
  <2>3. ShellStep(b, j, o2, "ansi") = ReadSt(j + 1, o2, "bare")
    BY <1>6, <2>2, Zenon
  <2>4. QED BY <1>8, <1>9, <2>1, <2>3, ShellComes
<1>11. i + Len((d \o a) \o e) = j + 1
  <2>1. Len((d \o a) \o e) = Len(d) + Len(a) + Len(e)
    OBVIOUS
  <2>2. QED BY <1>1, <1>2, <1>3, <2>1 DEF j
<1>12. QED BY <1>10, <1>11

\* What is read between single quotes is read as in single mode.
LEMMA SingleString ==
  ASSUME NEW S, NEW b \in Seq(S), NEW i \in Nat, i > 0, NEW T, NEW o \in Seq(T), NEW o2 \in Seq(T),
         NEW Q, NEW e \in Seq(Q), e = <<"'">>, NEW a \in Seq(Q),
         Stands(b, i, (e \o a) \o e), Comes("shell", b, ReadSt(i, o, "bare")),
         Stands(b, i + 1, a) /\ Comes("shell", b, ReadSt(i + 1, o, "single"))
           => Comes("shell", b, ReadSt((i + 1) + Len(a), o2, "single"))
  PROVE  Comes("shell", b, ReadSt(i + Len((e \o a) \o e), o2, "bare"))
<1>1. Len(b) \in Nat /\ Len(a) \in Nat
  OBVIOUS
<1>3. Len(e) = 1
  OBVIOUS
<1> DEFINE j == (i + 1) + Len(a)
<1>4. Stands(b, i, e) /\ Stands(b, i + 1, a) /\ Stands(b, j, e)
  <2> DEFINE u == e \o a
  <2>1. u \in Seq(Q) /\ Len(u) = Len(e) + Len(a)
    OBVIOUS
  <2> HIDE DEF u
  <2>2. Stands(b, i, u) /\ Stands(b, i + Len(u), e)
    <3>1. Stands(b, i, u \o e)
      BY DEF u
    <3>2. QED BY <1>1, <2>1, <3>1, StandsParts
  <2>3. Stands(b, i, e) /\ Stands(b, i + Len(e), a)
    BY <1>1, <2>2, StandsParts DEF u
  <2>4. i + Len(u) = j
    BY <1>1, <1>3, <2>1
  <2>5. QED BY <1>3, <2>2, <2>3, <2>4
<1>5. i <= Len(b) /\ b[i] = "'"
  <2>1. Stands(b, i, <<"'">>)
    BY <1>4
  <2>2. QED BY <1>1, <2>1, StandsOf
<1>6. o \o <<>> = o /\ o2 \o <<>> = o2
  BY AppendIs
<1>7. Comes("shell", b, ReadSt(i + 1, o, "single"))
  <2>1. i + 1 \in Nat /\ i + 1 > i
    OBVIOUS
  <2>2. ShellStep(b, i, o, "bare") = ReadSt(i + 1, o \o <<>>, "single")
    BY <1>5, BareQuote
  <2>3. ShellStep(b, i, o, "bare") = ReadSt(i + 1, o, "single")
    BY <1>6, <2>2, Zenon
  <2>4. QED BY <1>5, <2>1, <2>3, ShellComes
<1>8. Comes("shell", b, ReadSt(j, o2, "single"))
  BY <1>4, <1>7
<1>9. j <= Len(b) /\ b[j] = "'" /\ j \in Nat
  <2>1. j \in Nat
    BY <1>1
  <2> HIDE DEF j
  <2>2. Stands(b, j, <<"'">>)
    BY <1>4
  <2>3. QED BY <1>1, <2>1, <2>2, StandsOf
<1> HIDE DEF j
<1>10. Comes("shell", b, ReadSt(j + 1, o2, "bare"))
  <2>1. j + 1 \in Nat /\ j + 1 > j
    BY <1>9
  <2>2. ShellStep(b, j, o2, "single") = ReadSt(j + 1, o2 \o <<>>, "bare")
    BY <1>9, SingleSteps
  <2>3. ShellStep(b, j, o2, "single") = ReadSt(j + 1, o2, "bare")
    BY <1>6, <2>2, Zenon
  <2>4. QED BY <1>8, <1>9, <2>1, <2>3, ShellComes
<1>11. i + Len((e \o a) \o e) = j + 1
  <2>1. Len((e \o a) \o e) = Len(e) + Len(a) + Len(e)
    OBVIOUS
  <2>2. QED BY <1>1, <1>3, <2>1 DEF j
<1>12. QED BY <1>10, <1>11

LEMMA QuotedTyped ==
  /\ IsSpread(BackslashedAt, Quoted, Unquote!Quotable)
  /\ IsSpread(AnsiQuotedAt, Quoted, Unquote!Quotable)
  /\ IsSpread(ZshQuotedAt, Quoted, Unquote!Quotable)
  /\ IsSpread(SingleAt, Quoted, Unquote!Quotable)
<1> DEFINE T == Unquote!Quotable  Q == Quoted
<1>1. "\\" \in Q /\ "n" \in Q /\ "0" \in Q /\ "1" \in Q /\ "$" \in Q /\ "'" \in Q /\ \A c \in T : c \in Q
  BY DEF Quoted, Unquote!Quotable
<1> HIDE DEF T, Q
<1>2. \A c \in T : Unquote!Backslashed(c) \in Seq(Q)
  <2>1. TAKE c \in T
  <2>2. <<"\\", c>> \in Seq(Q) /\ <<c>> \in Seq(Q)
    BY <1>1
  <2>3. QED BY <2>2 DEF Unquote!Backslashed
<1>3. \A c \in T : Unquote!AnsiQuoted(c) \in Seq(Q)
  <2>1. TAKE c \in T
  <2>2. /\ <<"\\", c>> \in Seq(Q) /\ <<c>> \in Seq(Q)
        /\ <<"\\", "n">> \in Seq(Q) /\ <<"\\", "0", "0", "1">> \in Seq(Q)
    BY <1>1
  <2>3. \/ Unquote!AnsiQuoted(c) = <<"\\", c>> \/ Unquote!AnsiQuoted(c) = <<c>>
        \/ Unquote!AnsiQuoted(c) = <<"\\", "n">> \/ Unquote!AnsiQuoted(c) = <<"\\", "0", "0", "1">>
    BY DEF Unquote!AnsiQuoted, Unquote!NL, Unquote!SOH
  <2>4. QED BY <2>2, <2>3, Zenon
<1>4. \A c \in T : Unquote!ZshQuoted(c) \in Seq(Q)
  <2>1. TAKE c \in T
  <2> DEFINE a == Unquote!AnsiQuoted(c)  d == <<"$", "'">>  e == <<"'">>
  <2>2. a \in Seq(Q) /\ Unquote!Backslashed(c) \in Seq(Q)
    BY <1>2, <1>3
  <2>3. d \in Seq(Q) /\ e \in Seq(Q)
    BY <1>1
  <2>4. Unquote!ZshQuoted(c) = d \o a \o e \/ Unquote!ZshQuoted(c) = Unquote!Backslashed(c)
    BY DEF Unquote!ZshQuoted
  <2> HIDE DEF a, d, e
  <2>5. d \o a \o e \in Seq(Q)
    BY <2>2, <2>3
  <2>6. QED BY <2>2, <2>4, <2>5
<1>5. \A c \in T : Unquote!SingleQuoted(c) \in Seq(Q)
  <2>1. TAKE c \in T
  <2>2. <<c>> \in Seq(Q) /\ <<"'", "\\", "'", "'">> \in Seq(Q)
    BY <1>1
  <2>3. QED BY <2>2 DEF Unquote!SingleQuoted
<1>6. QED BY <1>2, <1>3, <1>4, <1>5
      DEF IsSpread, BackslashedAt, AnsiQuotedAt, ZshQuotedAt, SingleAt, T, Q

LEMMA ZshQuotedRead ==
  ASSUME NEW S, NEW b \in Seq(S)
  PROVE  ReadsEach("shell", b, "bare", ZshQuotedAt, Unquote!Quotable)
<1> DEFINE T == Unquote!Quotable
<1>1. SUFFICES ASSUME NEW i \in Nat, NEW o \in Seq(T), NEW c \in T, i > 0,
                      Stands(b, i, Unquote!ZshQuoted(c)), Comes("shell", b, ReadSt(i, o, "bare"))
               PROVE  Comes("shell", b, ReadSt(i + Len(Unquote!ZshQuoted(c)), Append(o, c), "bare"))
  BY DEF ReadsEach, ZshQuotedAt
<1>2. CASE c \in {Unquote!NL, Unquote!SOH}
  <2> DEFINE a == Unquote!AnsiQuoted(c)  d == <<"$", "'">>  e == <<"'">>  Q == Quoted
             o2 == Append(o, c)
  <2>1. a \in Seq(Q)
    BY QuotedTyped DEF IsSpread, AnsiQuotedAt
  <2>2. d \in Seq(Q) /\ e \in Seq(Q)
    <3>1. "$" \in Q /\ "'" \in Q
      BY DEF Quoted, Unquote!Quotable
    <3> HIDE DEF Q
    <3>2. QED BY <3>1
  <2>3. Unquote!ZshQuoted(c) = (d \o a) \o e
    BY <1>2 DEF Unquote!ZshQuoted
  <2>4. o2 \in Seq(T)
    <3> HIDE DEF T
    <3>1. QED OBVIOUS
  <2>5. ASSUME Stands(b, i + 2, a), Comes("shell", b, ReadSt(i + 2, o, "ansi"))
        PROVE  Comes("shell", b, ReadSt((i + 2) + Len(a), o2, "ansi"))
    <3>1. i + 2 \in Nat /\ i + 2 > 0 /\ a = AnsiQuotedAt[c]
      BY DEF AnsiQuotedAt
    <3> HIDE DEF a, o2
    <3>2. ReadsEach("shell", b, "ansi", AnsiQuotedAt, T)
      BY AnsiQuotedRead
    <3>3. QED BY <2>5, <3>1, <3>2 DEF ReadsEach, o2
  <2>6. d = <<"$", "'">> /\ e = <<"'">>
    OBVIOUS
  <2>7. Stands(b, i, (d \o a) \o e)
    BY <1>1, <2>3
  <2> HIDE DEF a, d, e, Q, o2, T
  <2>8. Comes("shell", b, ReadSt(i + Len((d \o a) \o e), o2, "bare"))
    BY <1>1, <2>1, <2>2, <2>4, <2>5, <2>6, <2>7, AnsiString
  <2>9. QED BY <2>3, <2>8 DEF o2
<1>3. CASE c \notin {Unquote!NL, Unquote!SOH}
  <2>1. Unquote!ZshQuoted(c) = Unquote!Backslashed(c) /\ Unquote!Backslashed(c) = BackslashedAt[c]
    BY <1>3 DEF Unquote!ZshQuoted, BackslashedAt
  <2>2. ReadsEach("shell", b, "bare", BackslashedAt, T)
    BY BackslashedRead
  <2>3. QED BY <1>1, <2>1, <2>2 DEF ReadsEach
<1>4. QED BY <1>2, <1>3

LEMMA SingleRead ==
  ASSUME NEW S, NEW b \in Seq(S)
  PROVE  ReadsEach("shell", b, "single", SingleAt, Unquote!Quotable)
<1> DEFINE T == Unquote!Quotable
<1>1. SUFFICES ASSUME NEW i \in Nat, NEW o \in Seq(T), NEW c \in T, i > 0,
                      Stands(b, i, Unquote!SingleQuoted(c)), Comes("shell", b, ReadSt(i, o, "single"))
               PROVE  Comes("shell", b, ReadSt(i + Len(Unquote!SingleQuoted(c)), Append(o, c), "single"))
  BY DEF ReadsEach, SingleAt
<1>3. Len(b) \in Nat
  OBVIOUS
<1> DEFINE o2 == Append(o, c)
<1>4. o2 = o \o <<c>> /\ o2 \in Seq(T) /\ o \o <<>> = o
  <2> HIDE DEF T
  <2>1. QED BY AppendIs
<1>5. o2 \o <<>> = o2
  <2> HIDE DEF T, o2
  <2>1. QED BY <1>4, AppendIs
<1> HIDE DEF T, o2
<1>6. CASE c = "'"
  <2>1. Unquote!SingleQuoted(c) = <<"'", "\\", "'", "'">>
    BY <1>6 DEF Unquote!SingleQuoted
  <2>2. Stands(b, i, <<"'", "\\", "'", "'">>)
    BY <1>1, <2>1
  <2>3. i + 3 <= Len(b) /\ b[i] = "'" /\ b[i + 1] = "\\" /\ b[i + 2] = "'" /\ b[i + 3] = "'"
    BY <1>3, <2>2, StandsOf
  <2> DEFINE j == i + 1  k == i + 3  l == i + 4
  <2>4. /\ i <= Len(b) /\ j \in Nat /\ j > i /\ j <= Len(b) /\ j < Len(b) /\ k \in Nat /\ k > j
        /\ k <= Len(b) /\ l \in Nat /\ l > k /\ j + 2 = k /\ k + 1 = l /\ j + 1 = i + 2
    BY <1>3, <2>3
  <2>5. b[j] = "\\" /\ b[j + 1] = c /\ b[k] = "'"
    BY <1>6, <2>3, <2>4
  <2>6. ShellStep(b, i, o, "single") = ReadSt(i + 1, o \o <<>>, "bare")
    BY <2>3, SingleSteps
  <2>7. ShellStep(b, i, o, "single") = ReadSt(j, o, "bare")
    BY <1>4, <2>6, Zenon
  <2> HIDE DEF j, k, l
  <2>8. Comes("shell", b, ReadSt(j, o, "bare"))
    BY <1>1, <2>4, <2>7, ShellComes
  <2>9. ShellStep(b, j, o, "bare") = ReadSt(j + 2, o \o <<b[j + 1]>>, "bare")
    BY <2>4, <2>5, BareSteps
  <2>10. ShellStep(b, j, o, "bare") = ReadSt(k, o2, "bare")
    BY <1>4, <2>4, <2>5, <2>9, Zenon
  <2>11. Comes("shell", b, ReadSt(k, o2, "bare"))
    BY <2>4, <2>8, <2>10, ShellComes
  <2>12. ShellStep(b, k, o2, "bare") = ReadSt(k + 1, o2 \o <<>>, "single")
    BY <2>5, BareQuote
  <2>13. ShellStep(b, k, o2, "bare") = ReadSt(l, o2, "single")
    BY <1>5, <2>4, <2>12, Zenon
  <2>14. Comes("shell", b, ReadSt(l, o2, "single"))
    BY <2>4, <2>11, <2>13, ShellComes
  <2>15. i + Len(Unquote!SingleQuoted(c)) = l
    BY <2>1 DEF l
  <2>16. QED BY <2>14, <2>15 DEF o2
<1>7. CASE c # "'"
  <2>1. Unquote!SingleQuoted(c) = <<c>>
    BY <1>7 DEF Unquote!SingleQuoted
  <2>2. Stands(b, i, <<c>>)
    BY <1>1, <2>1
  <2>3. i <= Len(b) /\ b[i] = c
    BY <1>3, <2>2, StandsOf
  <2>4. i + 1 \in Nat /\ i + 1 > i
    OBVIOUS
  <2>5. ShellStep(b, i, o, "single") = ReadSt(i + 1, o \o <<b[i]>>, "single")
    BY <1>7, <2>3, SingleSteps
  <2>6. ShellStep(b, i, o, "single") = ReadSt(i + 1, o2, "single")
    BY <1>4, <2>3, <2>5, Zenon
  <2>7. Comes("shell", b, ReadSt(i + 1, o2, "single"))
    BY <1>1, <2>3, <2>4, <2>6, ShellComes
  <2>8. Len(Unquote!SingleQuoted(c)) = 1
    BY <2>1
  <2>9. QED BY <2>7, <2>8 DEF o2
<1>8. QED BY <1>6, <1>7

LEMMA MapSeqIs ==
  ASSUME NEW w
  PROVE  /\ w \in Seq(Unquote!Quotable) =>
              /\ Unquote!MapSeq(w, Unquote!Backslashed) = Spread(BackslashedAt, w)
              /\ Unquote!MapSeq(w, Unquote!AnsiQuoted) = Spread(AnsiQuotedAt, w)
              /\ Unquote!MapSeq(w, Unquote!ZshQuoted) = Spread(ZshQuotedAt, w)
              /\ Unquote!MapSeq(w, Unquote!SingleQuoted) = Spread(SingleAt, w)
<1>1. SUFFICES ASSUME w \in Seq(Unquote!Quotable)
               PROVE  /\ Unquote!MapSeq(w, Unquote!Backslashed) = Spread(BackslashedAt, w)
                      /\ Unquote!MapSeq(w, Unquote!AnsiQuoted) = Spread(AnsiQuotedAt, w)
                      /\ Unquote!MapSeq(w, Unquote!ZshQuoted) = Spread(ZshQuotedAt, w)
                      /\ Unquote!MapSeq(w, Unquote!SingleQuoted) = Spread(SingleAt, w)
  OBVIOUS
<1> DEFINE T == Unquote!Quotable
<1>2. \A k \in DOMAIN w : w[k] \in T
  <2> HIDE DEF T
  <2>1. w \in Seq(T)
    BY <1>1 DEF T
  <2>2. QED BY <2>1
<1>3. [k \in DOMAIN w |-> Unquote!Backslashed(w[k])] = [k \in DOMAIN w |-> BackslashedAt[w[k]]]
  BY <1>2 DEF BackslashedAt
<1>4. [k \in DOMAIN w |-> Unquote!AnsiQuoted(w[k])] = [k \in DOMAIN w |-> AnsiQuotedAt[w[k]]]
  BY <1>2 DEF AnsiQuotedAt
<1>5. [k \in DOMAIN w |-> Unquote!ZshQuoted(w[k])] = [k \in DOMAIN w |-> ZshQuotedAt[w[k]]]
  BY <1>2 DEF ZshQuotedAt
<1>6. [k \in DOMAIN w |-> Unquote!SingleQuoted(w[k])] = [k \in DOMAIN w |-> SingleAt[w[k]]]
  BY <1>2 DEF SingleAt
<1>7. Unquote!MapSeq(w, Unquote!Backslashed) = Spread(BackslashedAt, w)
  BY <1>3, UnquoteFlatten, Zenon DEF Unquote!MapSeq, Spread
<1>8. Unquote!MapSeq(w, Unquote!AnsiQuoted) = Spread(AnsiQuotedAt, w)
  BY <1>4, UnquoteFlatten, Zenon DEF Unquote!MapSeq, Spread
<1>9. Unquote!MapSeq(w, Unquote!ZshQuoted) = Spread(ZshQuotedAt, w)
  BY <1>5, UnquoteFlatten, Zenon DEF Unquote!MapSeq, Spread
<1>10. Unquote!MapSeq(w, Unquote!SingleQuoted) = Spread(SingleAt, w)
  BY <1>6, UnquoteFlatten, Zenon DEF Unquote!MapSeq, Spread
<1>11. QED BY <1>7, <1>8, <1>9, <1>10

\* A string stands in itself.
LEMMA StandsAll ==
  ASSUME NEW S, NEW b \in Seq(S)
  PROVE  Stands(b, 1, b)
<1>1. Len(b) \in Nat /\ \A k \in 1 .. Len(b) : 1 + k - 1 = k
  OBVIOUS
<1>2. QED BY <1>1 DEF Stands

LEMMA AllRead ==
  ASSUME NEW S, NEW b \in Seq(S), NEW how \in {"shell", "vsc", "percent"}, NEW w, NEW m,
         Comes(how, b, ReadSt(1 + Len(b), w, m))
  PROVE  ReadOf(how, b) = w
<1> DEFINE p == ReadSt(1 + Len(b), w, m)
<1>1. p.i = Len(b) + 1 /\ p.out = w
  BY DEF ReadSt
<1> HIDE DEF p
<1>2. QED BY <1>1, ComesLast DEF p

\* Each character is read back in bare mode: so is the whole.
LEMMA SpreadRead ==
  ASSUME NEW S, NEW T, NEW g, IsSpread(g, S, T), NEW w \in Seq(T), NEW how \in {"shell", "vsc", "percent"},
         \A b \in Seq(S) : ReadsEach(how, b, "bare", g, T)
  PROVE  ReadOf(how, Spread(g, w)) = w
<1> DEFINE b == Spread(g, w)
<1>1. b \in Seq(S)
  BY SpreadSteps
<1>2. Len(b) \in Nat /\ ReadsEach(how, b, "bare", g, T) /\ 1 \in Nat /\ 1 > 0
  BY <1>1
<1>3. Comes(how, b, ReadSt(1, <<>>, "bare"))
  <2>1. ReadStart = ReadSt(1, <<>>, "bare")
    BY DEF ReadStart, ReadSt
  <2> HIDE DEF b
  <2>2. Comes(how, b, ReadStart)
    BY <1>1, ComesFirst
  <2>3. QED BY <2>1, <2>2
<1>4. Stands(b, 1, Spread(g, w))
  BY <1>1, StandsAll
<1>5. Comes(how, b, ReadSt(1 + Len(Spread(g, w)), w, "bare"))
  <2> HIDE DEF b
  <2>1. QED BY <1>2, <1>3, <1>4, EachRead
<1>6. QED BY <1>1, <1>5, AllRead

LEMMA ShellIs == \A b : Unquote!ShellUnquote(b) = ReadOf("shell", b)
BY DEF ReadOf

LEMMA ZshBack ==
  ASSUME NEW w \in Seq(Unquote!Quotable)
  PROVE  Unquote!ShellUnquote(Unquote!ZshQ(w)) = w
<1>1. Unquote!ZshQ(w) = Spread(ZshQuotedAt, w)
  BY MapSeqIs DEF Unquote!ZshQ
<1>2. \A b \in Seq(Quoted) : ReadsEach("shell", b, "bare", ZshQuotedAt, Unquote!Quotable)
  BY ZshQuotedRead
<1>3. IsSpread(ZshQuotedAt, Quoted, Unquote!Quotable)
  BY QuotedTyped
<1> DEFINE T == Unquote!Quotable  Q == Quoted  g == ZshQuotedAt
<1>4. w \in Seq(T) /\ IsSpread(g, Q, T) /\ \A b \in Seq(Q) : ReadsEach("shell", b, "bare", g, T)
  BY <1>2, <1>3
<1> HIDE DEF T, Q, g
<1>5. ReadOf("shell", Spread(g, w)) = w
  BY <1>4, SpreadRead
<1>6. QED BY <1>1, <1>5, ShellIs DEF g

LEMMA BashBack ==
  ASSUME NEW w \in Seq(Unquote!Quotable)
  PROVE  Unquote!ShellUnquote(Unquote!BashQ(w)) = w
<1> DEFINE T == Unquote!Quotable  Q == Quoted
<1>1. CASE ~\E k \in DOMAIN w : w[k] \in {Unquote!NL, Unquote!SOH}
  <2>1. Unquote!BashQ(w) = Spread(BackslashedAt, w)
    BY <1>1, MapSeqIs DEF Unquote!BashQ
  <2>2. \A b \in Seq(Q) : ReadsEach("shell", b, "bare", BackslashedAt, T)
    BY BackslashedRead
  <2>3. IsSpread(BackslashedAt, Q, T)
    BY QuotedTyped
  <2> DEFINE g == BackslashedAt
  <2>4. w \in Seq(T) /\ IsSpread(g, Q, T) /\ \A b \in Seq(Q) : ReadsEach("shell", b, "bare", g, T)
    BY <2>2, <2>3
  <2> HIDE DEF T, Q, g
  <2>5. ReadOf("shell", Spread(g, w)) = w
    BY <2>4, SpreadRead
  <2>6. QED BY <2>1, <2>5, ShellIs DEF g
<1>2. CASE \E k \in DOMAIN w : w[k] \in {Unquote!NL, Unquote!SOH}
  <2> DEFINE a == Spread(AnsiQuotedAt, w)  d == <<"$", "'">>  e == <<"'">>  o == <<>>
             b == (d \o a) \o e  g == AnsiQuotedAt
  <2>1. Unquote!BashQ(w) = b
    BY <1>2, MapSeqIs DEF Unquote!BashQ
  <2>2. IsSpread(g, Q, T) /\ w \in Seq(T)
    BY QuotedTyped
  <2>3. d = <<"$", "'">> /\ e = <<"'">> /\ o = <<>>
    OBVIOUS
  <2>4. d \in Seq(Q) /\ e \in Seq(Q)
    <3>1. "$" \in Q /\ "'" \in Q
      BY DEF Quoted, Unquote!Quotable
    <3> HIDE DEF Q
    <3>2. QED BY <3>1
  <2>5. o \in Seq(T)
    OBVIOUS
  <2>6. a \in Seq(Q)
    BY <2>2, SpreadSteps
  <2> HIDE DEF T, Q, a, d, e, o
  <2>7. b \in Seq(Q)
    BY <2>4, <2>6
  <2>8. Stands(b, 1, b)
    BY <2>7, StandsAll
  <2>9. Comes("shell", b, ReadSt(1, o, "bare"))
    <3>1. ReadStart = ReadSt(1, o, "bare")
      BY <2>3 DEF ReadStart, ReadSt
    <3> HIDE DEF b
    <3>2. Comes("shell", b, ReadStart)
      BY <2>7, ComesFirst
    <3>3. QED BY <3>1, <3>2
  <2>10. ASSUME Stands(b, 1 + 2, a), Comes("shell", b, ReadSt(1 + 2, o, "ansi"))
         PROVE  Comes("shell", b, ReadSt((1 + 2) + Len(a), w, "ansi"))
    <3> HIDE DEF b
    <3>1. ReadsEach("shell", b, "ansi", g, T)
      BY <2>7, AnsiQuotedRead DEF T
    <3>2. Len(b) \in Nat /\ 1 + 2 \in Nat /\ 1 + 2 > 0
      BY <2>7
    <3>3. Stands(b, 1 + 2, Spread(g, w)) /\ Comes("shell", b, ReadSt(1 + 2, <<>>, "ansi"))
      BY <2>3, <2>10 DEF a
    <3> DEFINE i == 1 + 2
    <3>4. i \in Nat /\ i > 0 /\ Stands(b, i, Spread(g, w)) /\ Comes("shell", b, ReadSt(i, <<>>, "ansi"))
      BY <3>2, <3>3
    <3> HIDE DEF i, g
    <3>5. Comes("shell", b, ReadSt(i + Len(Spread(g, w)), w, "ansi"))
      BY <2>2, <3>1, <3>2, <3>4, EachRead
    <3>6. QED BY <3>5 DEF i, a, g
  <2> HIDE DEF b
  <2>11. Comes("shell", b, ReadSt(1 + Len(b), w, "bare"))
    <3>1. Stands(b, 1, (d \o a) \o e)
      BY <2>8 DEF b
    <3>2. 1 \in Nat /\ 1 > 0
      OBVIOUS
    <3>3. Comes("shell", b, ReadSt(1 + Len((d \o a) \o e), w, "bare"))
      BY <2>2, <2>3, <2>4, <2>5, <2>6, <2>7, <2>9, <2>10, <3>1, <3>2, AnsiString
    <3>4. QED BY <3>3 DEF b
  <2>12. ReadOf("shell", b) = w
    BY <2>7, <2>11, AllRead
  <2>13. QED BY <2>1, <2>12, ShellIs
<1>3. QED BY <1>1, <1>2

\* A word with nothing to quote is itself, backslashed or not.
PlainTokens == {c \in Unquote!Quotable : ~Unquote!Special(c)}

LEMMA PlainIs ==
  ASSUME NEW w \in Seq(PlainTokens)
  PROVE  Spread(BackslashedAt, w) = w
<1> DEFINE P == PlainTokens  T == Unquote!Quotable  Q == Quoted  g == BackslashedAt
           G == {q \in Seq(P) : Spread(g, q) = q}
<1>1. \A c \in P : c \in T /\ g[c] = <<c>>
  BY DEF PlainTokens, BackslashedAt, Unquote!Backslashed
<1>2. IsSpread(g, Q, T)
  BY QuotedTyped
<1> HIDE DEF P, T, Q, g
<1>3. /\ Spread(g, <<>>) = <<>>
      /\ \A q \in Seq(T), x \in T : Spread(g, Append(q, x)) = Spread(g, q) \o g[x]
  BY <1>2, SpreadSteps
<1>4. \A q \in Seq(P) : q \in Seq(T)
  BY <1>1
<1>5. \A q \in Seq(P), x \in P : Append(q, x) \in Seq(P) /\ q \o <<x>> = Append(q, x)
  OBVIOUS
<1>6. <<>> \in G
  BY <1>3
<1>7. ASSUME NEW q \in Seq(P), NEW x \in P, q \in G PROVE Append(q, x) \in G
  <2>1. Spread(g, Append(q, x)) = Spread(g, q) \o g[x]
    BY <1>1, <1>3, <1>4
  <2>2. Spread(g, Append(q, x)) = q \o <<x>>
    BY <1>1, <1>7, <2>1
  <2>3. QED BY <1>5, <2>2
<1>8. Seq(P) \subseteq G
  <2> HIDE DEF G
  <2>1. QED BY <1>6, <1>7, SeqInduct
<1>9. w \in Seq(P)
  BY DEF P
<1>10. QED BY <1>8, <1>9 DEF g

LEMMA TwoOf ==
  ASSUME NEW x
  PROVE  <<x>> \o <<x>> = <<x, x>>
<1> DEFINE U == {x}  u == <<x>>  v == <<x, x>>
<1>1. u \in Seq(U) /\ Len(u) = 1 /\ u[1] = x
  OBVIOUS
<1>2. v \in Seq(U) /\ Len(v) = 2 /\ v[1] = x /\ v[2] = x
  OBVIOUS
<1> HIDE DEF u, v, U
<1>3. u \o u \in Seq(U) /\ Len(u \o u) = 2 /\ (u \o u)[1] = u[1] /\ (u \o u)[2] = u[1]
  <2>1. ASSUME NEW p \in Seq(U), NEW q \in Seq(U), Len(p) = 1, Len(q) = 1
        PROVE  p \o q \in Seq(U) /\ Len(p \o q) = 2 /\ (p \o q)[1] = p[1] /\ (p \o q)[2] = q[1]
    <3>1. p \o q \in Seq(U) /\ Len(p \o q) = 2
      BY <2>1
    <3>2. (p \o q)[1] = p[1]
      BY <2>1
    <3>3. (p \o q)[2] = q[1]
      <4>1. \A k \in 1 .. Len(q) : (p \o q)[Len(p) + k] = q[k]
        OBVIOUS
      <4>2. 1 \in 1 .. Len(q) /\ Len(p) + 1 = 2
        BY <2>1
      <4>3. QED BY <4>1, <4>2
    <3>4. QED BY <3>1, <3>2, <3>3
  <2>2. QED BY <1>1, <2>1
<1>4. \A k \in 1 .. 2 : (u \o u)[k] = v[k]
  <2>1. TAKE k \in 1 .. 2
  <2>2. k = 1 \/ k = 2
    OBVIOUS
  <2>3. QED BY <1>1, <1>2, <1>3, <2>2
<1>5. u \o u = v
  BY <1>2, <1>3, <1>4, SameSeq
<1>6. QED BY <1>5 DEF u, v

LEMMA ExecBack ==
  ASSUME NEW w \in Seq(Unquote!Quotable)
  PROVE  Unquote!ShellUnquote(Unquote!ExecQuote(w)) = w
<1> DEFINE T == Unquote!Quotable  Q == Quoted
           Needs == \E k \in DOMAIN w : w[k] \in {" ", Unquote!NL, Unquote!DQ, "'", "\\", "$", ";"}
           e == <<"'">>  o == <<>>  g == SingleAt
<1>1. ASSUME NEW a, a = Spread(SingleAt, w) PROVE Unquote!ShellUnquote((e \o a) \o e) = w
  <2> DEFINE b == (e \o a) \o e
  <2>2. IsSpread(g, Q, T) /\ w \in Seq(T)
    BY QuotedTyped
  <2>3. e = <<"'">> /\ o = <<>>
    OBVIOUS
  <2>4. e \in Seq(Q)
    <3>1. "'" \in Q
      BY DEF Quoted, Unquote!Quotable
    <3> HIDE DEF Q
    <3>2. QED BY <3>1
  <2>5. o \in Seq(T)
    OBVIOUS
  <2>6. a \in Seq(Q)
    BY <1>1, <2>2, SpreadSteps
  <2> HIDE DEF T, Q, e, o
  <2>7. b \in Seq(Q)
    BY <2>4, <2>6
  <2>8. Stands(b, 1, b)
    BY <2>7, StandsAll
  <2>9. Comes("shell", b, ReadSt(1, o, "bare"))
    <3>1. ReadStart = ReadSt(1, o, "bare")
      BY <2>3 DEF ReadStart, ReadSt
    <3> HIDE DEF b
    <3>2. Comes("shell", b, ReadStart)
      BY <2>7, ComesFirst
    <3>3. QED BY <3>1, <3>2
  <2>10. ASSUME Stands(b, 1 + 1, a), Comes("shell", b, ReadSt(1 + 1, o, "single"))
         PROVE  Comes("shell", b, ReadSt((1 + 1) + Len(a), w, "single"))
    <3> HIDE DEF b
    <3>1. ReadsEach("shell", b, "single", g, T)
      BY <2>7, SingleRead DEF T
    <3>2. Len(b) \in Nat /\ 1 + 1 \in Nat /\ 1 + 1 > 0
      BY <2>7
    <3>3. Stands(b, 1 + 1, Spread(g, w)) /\ Comes("shell", b, ReadSt(1 + 1, <<>>, "single"))
      BY <1>1, <2>3, <2>10
    <3> DEFINE i == 1 + 1
    <3>4. i \in Nat /\ i > 0 /\ Stands(b, i, Spread(g, w)) /\ Comes("shell", b, ReadSt(i, <<>>, "single"))
      BY <3>2, <3>3
    <3> HIDE DEF i, g
    <3>5. Comes("shell", b, ReadSt(i + Len(Spread(g, w)), w, "single"))
      BY <2>2, <3>1, <3>2, <3>4, EachRead
    <3>6. QED BY <1>1, <3>5 DEF i, g
  <2> HIDE DEF b
  <2>11. Comes("shell", b, ReadSt(1 + Len(b), w, "bare"))
    <3>1. Stands(b, 1, (e \o a) \o e)
      BY <2>8 DEF b
    <3>2. 1 \in Nat /\ 1 > 0
      OBVIOUS
    <3>3. Comes("shell", b, ReadSt(1 + Len((e \o a) \o e), w, "bare"))
      BY <2>2, <2>3, <2>4, <2>5, <2>6, <2>7, <2>9, <2>10, <3>1, <3>2, SingleString
    <3>4. QED BY <3>3 DEF b
  <2>12. ReadOf("shell", b) = w
    BY <2>7, <2>11, AllRead
  <2>13. QED BY <2>12, ShellIs DEF b
<1>2. CASE w = <<>>
  <2> DEFINE a == Spread(SingleAt, w)
  <2>1. a = <<>>
    <3>1. IsSpread(g, Q, T)
      BY QuotedTyped
    <3>2. QED BY <1>2, <3>1, SpreadSteps
  <2>2. Unquote!ShellUnquote((e \o a) \o e) = w
    BY <1>1
  <2>3. (e \o a) \o e = <<"'", "'">>
    <3>1. \A U : \A q \in Seq(U) : q \o <<>> = q
      OBVIOUS
    <3>1a. \A x : <<x>> \in Seq({x})
      OBVIOUS
    <3>1b. \A x : <<x>> \o <<>> = <<x>>
      BY <3>1, <3>1a
    <3>1c. \A x : <<x>> \o <<x>> = <<x, x>>
      BY TwoOf
    <3>2. (e \o <<>>) \o e = <<"'", "'">>
      BY <3>1b, <3>1c, Zenon
    <3> HIDE DEF a, e
    <3>3. QED BY <2>1, <3>2, Zenon
  <2>4. Unquote!ExecQuote(w) = <<"'", "'">>
    BY <1>2 DEF Unquote!ExecQuote
  <2>5. QED BY <2>2, <2>3, <2>4
<1>3. CASE w # <<>> /\ Needs
  <2>1. Unquote!ExecQuote(w) = (e \o Spread(SingleAt, w)) \o e
    BY <1>3, MapSeqIs DEF Unquote!ExecQuote
  <2>2. QED BY <1>1, <2>1
<1>4. CASE w # <<>> /\ ~Needs
  <2>1. Unquote!ExecQuote(w) = w
    BY <1>4 DEF Unquote!ExecQuote
  <2>2. w \in Seq(PlainTokens)
    <3>1. \A k \in DOMAIN w : w[k] \in T
      <4> HIDE DEF T
      <4>1. w \in Seq(T)
        BY DEF T
      <4>2. QED BY <4>1
    <3>2. \A k \in DOMAIN w : w[k] \in PlainTokens
      BY <1>4, <3>1 DEF PlainTokens, Unquote!Special, Unquote!DQ
    <3> DEFINE P == PlainTokens
    <3> HIDE DEF P
    <3>3. \A k \in 1 .. Len(w) : w[k] \in P
      BY <3>2 DEF P
    <3>4. w \in Seq(P)
      <4> HIDE DEF T
      <4>1. w \in Seq(T)
        BY DEF T
      <4>2. QED BY <3>3, <4>1
    <3>5. QED BY <3>4 DEF P
  <2>3. Spread(BackslashedAt, w) = w
    BY <2>2, PlainIs
  <2>4. ReadOf("shell", Spread(BackslashedAt, w)) = w
    <3> DEFINE h == BackslashedAt
    <3>1. \A b \in Seq(Q) : ReadsEach("shell", b, "bare", h, T)
      BY BackslashedRead
    <3>2. IsSpread(h, Q, T) /\ w \in Seq(T)
      BY QuotedTyped
    <3> HIDE DEF T, Q, h
    <3>3. ReadOf("shell", Spread(h, w)) = w
      BY <3>1, <3>2, SpreadRead
    <3>4. QED BY <3>3 DEF h
  <2>5. QED BY <2>1, <2>3, <2>4, ShellIs
<1>5. QED BY <1>2, <1>3, <1>4

LEMMA AllQuotedBack ==
  ASSUME NEW w \in Seq(Unquote!Quotable)
  PROVE  Unquote!QuotedBack(w)
BY BashBack, ZshBack, ExecBack DEF Unquote!QuotedBack

-----------------------------------------------------------------------------
(***************************************************************************)
(* Bytes written as hexadecimal pairs.                                     *)
(***************************************************************************)

HexPairs == 1 .. 5

LEMMA HexOfIs ==
  /\ DOMAIN Unquote!HexOf = HexPairs
  /\ Unquote!HexOf[1].hex = <<"3", "b">> /\ Unquote!HexOf[1].byte = ";"
  /\ Unquote!HexOf[2].hex = <<"0", "a">> /\ Unquote!HexOf[2].byte = "\n"
  /\ Unquote!HexOf[3].hex = <<"0", "1">> /\ Unquote!HexOf[3].byte = "SOH"
  /\ Unquote!HexOf[4].hex = <<"2", "0">> /\ Unquote!HexOf[4].byte = " "
  /\ Unquote!HexOf[5].hex = <<"2", "5">> /\ Unquote!HexOf[5].byte = "%"
<1> DEFINE a == [hex |-> <<"3", "b">>, byte |-> ";"]
           b == [hex |-> <<"0", "a">>, byte |-> "\n"]
           c == [hex |-> <<"0", "1">>, byte |-> "SOH"]
           d == [hex |-> <<"2", "0">>, byte |-> " "]
           e == [hex |-> <<"2", "5">>, byte |-> "%"]
<1>1. Unquote!HexOf = <<a, b, c, d, e>>
  BY DEF Unquote!HexOf, Unquote!NL, Unquote!SOH
<1>2. a.hex = <<"3", "b">> /\ a.byte = ";"
  OBVIOUS
<1>3. b.hex = <<"0", "a">> /\ b.byte = "\n"
  OBVIOUS
<1>4. c.hex = <<"0", "1">> /\ c.byte = "SOH"
  OBVIOUS
<1>5. d.hex = <<"2", "0">> /\ d.byte = " "
  OBVIOUS
<1>6. e.hex = <<"2", "5">> /\ e.byte = "%"
  OBVIOUS
<1> DEFINE h == <<a, b, c, d, e>>
<1> HIDE DEF a, b, c, d, e
<1>7. DOMAIN h = HexPairs /\ h[1] = a /\ h[2] = b /\ h[3] = c /\ h[4] = d /\ h[5] = e
  BY DEF HexPairs
<1> HIDE DEF h
<1>8. Unquote!HexOf = h
  BY <1>1 DEF h
<1>9. QED BY <1>2, <1>3, <1>4, <1>5, <1>6, <1>7, <1>8, Zenon

LEMMA FivePairs == \A k \in HexPairs : k = 1 \/ k = 2 \/ k = 3 \/ k = 4 \/ k = 5
BY DEF HexPairs

LEMMA HexUnique ==
  ASSUME NEW j \in HexPairs, NEW k \in HexPairs
  PROVE  /\ Unquote!HexOf[j].byte = Unquote!HexOf[k].byte => j = k
         /\ Unquote!HexOf[j].hex = Unquote!HexOf[k].hex => j = k
<1> DEFINE B(n) == Unquote!HexOf[n].byte
           H(n) == Unquote!HexOf[n].hex[1]
           L(n) == Unquote!HexOf[n].hex[2]
<1>1. B(1) = ";" /\ B(2) = "\n" /\ B(3) = "SOH" /\ B(4) = " " /\ B(5) = "%"
  BY HexOfIs
<1>2. /\ H(1) = "3" /\ H(2) = "0" /\ H(3) = "0" /\ H(4) = "2" /\ H(5) = "2"
      /\ L(1) = "b" /\ L(2) = "a" /\ L(3) = "1" /\ L(4) = "0" /\ L(5) = "5"
  <2>1. H(1) = "3" /\ L(1) = "b"
    <3>1. Unquote!HexOf[1].hex = <<"3", "b">>
      BY HexOfIs
    <3>2. QED BY <3>1
  <2>2. H(2) = "0" /\ L(2) = "a"
    <3>1. Unquote!HexOf[2].hex = <<"0", "a">>
      BY HexOfIs
    <3>2. QED BY <3>1
  <2>3. H(3) = "0" /\ L(3) = "1"
    <3>1. Unquote!HexOf[3].hex = <<"0", "1">>
      BY HexOfIs
    <3>2. QED BY <3>1
  <2>4. H(4) = "2" /\ L(4) = "0"
    <3>1. Unquote!HexOf[4].hex = <<"2", "0">>
      BY HexOfIs
    <3>2. QED BY <3>1
  <2>5. H(5) = "2" /\ L(5) = "5"
    <3>1. Unquote!HexOf[5].hex = <<"2", "5">>
      BY HexOfIs
    <3>2. QED BY <3>1
  <2> HIDE DEF H, L
  <2>6. QED BY <2>1, <2>2, <2>3, <2>4, <2>5
<1>3. (Unquote!HexOf[j].hex = Unquote!HexOf[k].hex) => H(j) = H(k) /\ L(j) = L(k)
  OBVIOUS
<1> HIDE DEF B, H, L
<1>4. B(j) = B(k) => j = k
  <2>1. CASE j = 1
    BY <1>1, <2>1, FivePairs
  <2>2. CASE j = 2
    BY <1>1, <2>2, FivePairs
  <2>3. CASE j = 3
    BY <1>1, <2>3, FivePairs
  <2>4. CASE j = 4
    BY <1>1, <2>4, FivePairs
  <2>5. CASE j = 5
    BY <1>1, <2>5, FivePairs
  <2>6. QED BY <2>1, <2>2, <2>3, <2>4, <2>5, FivePairs
<1>5. H(j) = H(k) /\ L(j) = L(k) => j = k
  BY <1>2, FivePairs
<1>6. QED BY <1>3, <1>4, <1>5 DEF B

LEMMA HexBack ==
  ASSUME NEW k \in HexPairs
  PROVE  /\ Unquote!HexFor(Unquote!HexOf[k].byte) = k
         /\ \A b, i : i < Len(b) /\ Unquote!HexOf[k].hex = <<b[i], b[i + 1]>> =>
              Unquote!IsHex(b, i) /\ Unquote!ByteAt(b, i) = Unquote!HexOf[k].byte
<1>1. DOMAIN Unquote!HexOf = HexPairs
  BY HexOfIs
<1>2. Unquote!HexFor(Unquote!HexOf[k].byte) = k
  BY <1>1, HexUnique DEF Unquote!HexFor
<1>3. ASSUME NEW b, NEW i, i < Len(b), Unquote!HexOf[k].hex = <<b[i], b[i + 1]>>
      PROVE  Unquote!IsHex(b, i) /\ Unquote!ByteAt(b, i) = Unquote!HexOf[k].byte
  <2>1. Unquote!IsHex(b, i)
    BY <1>1, <1>3 DEF Unquote!IsHex
  <2> DEFINE n == CHOOSE n \in DOMAIN Unquote!HexOf : Unquote!HexOf[n].hex = <<b[i], b[i + 1]>>
  <2>2. n \in HexPairs /\ Unquote!HexOf[n].hex = <<b[i], b[i + 1]>>
    BY <1>1, <1>3
  <2>3. Unquote!ByteAt(b, i) = Unquote!HexOf[n].byte
    BY DEF Unquote!ByteAt
  <2> HIDE DEF n
  <2>4. n = k
    BY <1>3, <2>2, HexUnique
  <2>5. QED BY <2>1, <2>3, <2>4
<1>4. QED BY <1>2, <1>3

\* The pair that stands for a byte.
HexPair(c) == Unquote!HexOf[Unquote!HexFor(c)].hex

\* Those of the tokens that are written as a pair.
Hexed == {";", "\n", "%"}

LEMMA PairOf ==
  /\ HexPair(";") = <<"3", "b">> /\ HexPair("\n") = <<"0", "a">> /\ HexPair("%") = <<"2", "5">>
  /\ \A c \in Hexed : \E k \in HexPairs : Unquote!HexFor(c) = k /\ Unquote!HexOf[k].byte = c
<1>1. 1 \in HexPairs /\ 2 \in HexPairs /\ 5 \in HexPairs
  BY DEF HexPairs
<1>2. Unquote!HexFor(";") = 1 /\ Unquote!HexFor("\n") = 2 /\ Unquote!HexFor("%") = 5
  BY <1>1, HexBack, HexOfIs
<1>3. HexPair(";") = <<"3", "b">> /\ HexPair("\n") = <<"0", "a">> /\ HexPair("%") = <<"2", "5">>
  BY <1>2, HexOfIs DEF HexPair
<1>4. ASSUME NEW c \in Hexed
      PROVE  \E k \in HexPairs : Unquote!HexFor(c) = k /\ Unquote!HexOf[k].byte = c
  BY <1>1, <1>2, HexOfIs DEF Hexed
<1>5. QED BY <1>3, <1>4

\* The pair of c stands at i.
Paired(c, b, i) == HexPair(c) = <<b[i], b[i + 1]>>

LEMMA ByteOf ==
  ASSUME NEW c \in Hexed, NEW b, NEW i \in Nat, Len(b) \in Nat, i < Len(b), Paired(c, b, i)
  PROVE  Unquote!IsHex(b, i) /\ Unquote!ByteAt(b, i) = c
<1>1. PICK k \in HexPairs : Unquote!HexFor(c) = k /\ Unquote!HexOf[k].byte = c
  BY PairOf
<1>2. HexPair(c) = Unquote!HexOf[k].hex
  BY <1>1 DEF HexPair
<1>3. \A bb, ii : ii < Len(bb) /\ Unquote!HexOf[k].hex = <<bb[ii], bb[ii + 1]>> =>
            Unquote!IsHex(bb, ii) /\ Unquote!ByteAt(bb, ii) = Unquote!HexOf[k].byte
  BY HexBack
<1>4. QED BY <1>1, <1>2, <1>3, Zenon DEF Paired

LEMMA JoinOf ==
  ASSUME NEW x, NEW y, NEW z, NEW u
  PROVE  /\ <<x, y>> \o <<z, u>> = <<x, y, z, u>>
         /\ <<x>> \o <<z, u>> = <<x, z, u>>
<1> DEFINE U == {x, y, z, u}  p == <<x, y>>  q == <<z, u>>  r == <<x, y, z, u>>
           p1 == <<x>>  r1 == <<x, z, u>>
<1>1. p \in Seq(U) /\ Len(p) = 2 /\ p[1] = x /\ p[2] = y
  OBVIOUS
<1>2. q \in Seq(U) /\ Len(q) = 2 /\ q[1] = z /\ q[2] = u
  OBVIOUS
<1>3. r \in Seq(U) /\ Len(r) = 4 /\ r[1] = x /\ r[2] = y /\ r[3] = z /\ r[4] = u
  OBVIOUS
<1>4. p1 \in Seq(U) /\ Len(p1) = 1 /\ p1[1] = x
  OBVIOUS
<1>5. r1 \in Seq(U) /\ Len(r1) = 3 /\ r1[1] = x /\ r1[2] = z /\ r1[3] = u
  OBVIOUS
<1> HIDE DEF U, p, q, r, p1, r1
<1>6. \A a, b \in Seq(U) : /\ a \o b \in Seq(U) /\ Len(a \o b) = Len(a) + Len(b)
                           /\ \A k \in 1 .. Len(a) : (a \o b)[k] = a[k]
                           /\ \A k \in 1 .. Len(b) : (a \o b)[Len(a) + k] = b[k]
  OBVIOUS
<1>7. p \o q = r
  <2> DEFINE v == p \o q
  <2>0. /\ v \in Seq(U) /\ Len(v) = Len(p) + Len(q)
        /\ \A k \in 1 .. Len(p) : v[k] = p[k]
        /\ \A k \in 1 .. Len(q) : v[Len(p) + k] = q[k]
    BY <1>1, <1>2, <1>6, Zenon
  <2> HIDE DEF v
  <2>1. /\ v \in Seq(U) /\ Len(v) = 2 + 2
        /\ \A k \in 1 .. 2 : v[k] = p[k]
        /\ \A k \in 1 .. 2 : v[2 + k] = q[k]
    BY <1>1, <1>2, <2>0, Zenon
  <2>2. 1 \in 1 .. 2 /\ 2 \in 1 .. 2 /\ 2 + 1 = 3 /\ 2 + 2 = 4
    OBVIOUS
  <2>3. v[1] = x /\ v[2] = y /\ v[3] = z /\ v[4] = u
    BY <1>1, <1>2, <2>1, <2>2
  <2>4. \A k \in 1 .. 4 : v[k] = r[k]
    <3>1. TAKE k \in 1 .. 4
    <3>2. k = 1 \/ k = 2 \/ k = 3 \/ k = 4
      OBVIOUS
    <3>3. QED BY <1>3, <2>3, <3>2
  <2>5. v = r
    BY <1>3, <2>1, <2>2, <2>4, SameSeq
  <2>6. QED BY <2>5 DEF v
<1>8. p1 \o q = r1
  <2> DEFINE v == p1 \o q
  <2>0. /\ v \in Seq(U) /\ Len(v) = Len(p1) + Len(q)
        /\ \A k \in 1 .. Len(p1) : v[k] = p1[k]
        /\ \A k \in 1 .. Len(q) : v[Len(p1) + k] = q[k]
    BY <1>2, <1>4, <1>6, Zenon
  <2> HIDE DEF v
  <2>1. /\ v \in Seq(U) /\ Len(v) = 1 + 2
        /\ \A k \in 1 .. 1 : v[k] = p1[k]
        /\ \A k \in 1 .. 2 : v[1 + k] = q[k]
    BY <1>2, <1>4, <2>0, Zenon
  <2>2. 1 \in 1 .. 1 /\ 1 \in 1 .. 2 /\ 2 \in 1 .. 2 /\ 1 + 1 = 2 /\ 1 + 2 = 3
    OBVIOUS
  <2>3. v[1] = x /\ v[2] = z /\ v[3] = u
    BY <1>2, <1>4, <2>1, <2>2
  <2>4. \A k \in 1 .. 3 : v[k] = r1[k]
    <3>1. TAKE k \in 1 .. 3
    <3>2. k = 1 \/ k = 2 \/ k = 3
      OBVIOUS
    <3>3. QED BY <1>5, <2>3, <3>2
  <2>5. v = r1
    BY <1>5, <2>1, <2>2, <2>4, SameSeq
  <2>6. QED BY <2>5 DEF v
<1>9. QED BY <1>7, <1>8 DEF p, q, r, p1, r1

EscapedTokens == Unquote!Escapable \cup {"0", "a"}
NoSemicolon   == EscapedTokens \ {";"}
VscAt == [c \in Unquote!Escapable |-> Unquote!VscEscaped(c)]
UrlAt == [c \in Unquote!Escapable |-> Unquote!UrlEncoded(c)]

LEMMA EscapedTyped ==
  IsSpread(VscAt, NoSemicolon, Unquote!Escapable) /\ IsSpread(UrlAt, NoSemicolon, Unquote!Escapable)
<1> DEFINE T == Unquote!Escapable  Q == NoSemicolon
<1>1. /\ "\\" \in Q /\ "x" \in Q /\ "%" \in Q /\ "3" \in Q /\ "b" \in Q
      /\ "0" \in Q /\ "a" \in Q /\ "2" \in Q /\ "5" \in Q /\ \A c \in T : c # ";" => c \in Q
  BY DEF NoSemicolon, EscapedTokens, Unquote!Escapable
<1>2. \A c \in T : c = ";" \/ c = "\n" \/ c \in T \ {";", "\n", "SOH"}
  BY DEF Unquote!Escapable, Unquote!NL
<1> HIDE DEF Q
<1>2a. \A x, y \in Q : <<x, y>> \in Seq(Q) /\ <<x>> \in Seq(Q)
  OBVIOUS
<1>3. HexPair(";") \in Seq(Q) /\ HexPair("\n") \in Seq(Q) /\ HexPair("%") \in Seq(Q)
  <2>1. <<"3", "b">> \in Seq(Q) /\ <<"0", "a">> \in Seq(Q) /\ <<"2", "5">> \in Seq(Q)
    BY <1>1, <1>2a, Zenon
  <2>2. QED BY <2>1, PairOf, Zenon
<1>4. <<"\\", "x">> \in Seq(Q) /\ <<"%">> \in Seq(Q) /\ <<"\\", "\\">> \in Seq(Q)
  BY <1>1, <1>2a, Zenon
<1>5. \A p, q \in Seq(Q) : p \o q \in Seq(Q)
  OBVIOUS
<1>6. \A c \in T : Unquote!VscEscaped(c) \in Seq(Q)
  <2>1. TAKE c \in T
  <2>2. CASE c = ";" \/ c = "\n"
    <3>1. Unquote!VscEscaped(c) = <<"\\", "x">> \o HexPair(c)
      BY <2>2 DEF Unquote!VscEscaped, Unquote!NL, Unquote!SOH, HexPair
    <3>2. HexPair(c) \in Seq(Q)
      BY <1>3, <2>2
    <3>3. QED BY <1>4, <1>5, <3>1, <3>2, Zenon
  <2>3. CASE c \in T \ {";", "\n", "SOH"}
    <3>1. Unquote!VscEscaped(c) = <<"\\", "\\">> \/ Unquote!VscEscaped(c) = <<c>>
      BY <2>3 DEF Unquote!VscEscaped, Unquote!NL, Unquote!SOH
    <3>2. c \in Q
      BY <1>1, <2>3
    <3>3. <<c>> \in Seq(Q)
      BY <3>2
    <3>4. QED BY <1>4, <3>1, <3>3, Zenon
  <2>4. QED BY <1>2, <2>2, <2>3
<1>7. \A c \in T : c \in {";", "\n", "%"} \/ c \in T \ {";", "\n", "%", " ", "SOH"}
  BY DEF Unquote!Escapable, Unquote!NL
<1>8. \A c \in T : Unquote!UrlEncoded(c) \in Seq(Q)
  <2>1. TAKE c \in T
  <2>2. CASE c \in {";", "\n", "%"}
    <3>1. Unquote!UrlEncoded(c) = <<"%">> \o HexPair(c)
      BY <2>2 DEF Unquote!UrlEncoded, Unquote!NL, Unquote!SOH, HexPair
    <3>2. HexPair(c) \in Seq(Q)
      BY <1>3, <2>2
    <3>3. QED BY <1>4, <1>5, <3>1, <3>2, Zenon
  <2>3. CASE c \in T \ {";", "\n", "%", " ", "SOH"}
    <3>1. Unquote!UrlEncoded(c) = <<c>>
      BY <2>3 DEF Unquote!UrlEncoded, Unquote!NL, Unquote!SOH
    <3>2. c \in Q
      BY <1>1, <2>3
    <3>3. QED BY <3>1, <3>2
  <2>4. QED BY <1>7, <2>2, <2>3
<1>9. QED BY <1>6, <1>8 DEF IsSpread, VscAt, UrlAt, Q

LEMMA VscDoubled ==
  ASSUME NEW b, NEW i, NEW o, b[i] = "\\", i < Len(b), b[i + 1] = "\\"
  PROVE  StepOf("vsc", b, ReadSt(i, o, "bare")) = ReadSt(i + 2, o \o <<b[i]>>, "bare")
<1> DEFINE p == ReadSt(i, o, "bare")
<1>1. p.i = i /\ p.out = o /\ p.mode = "bare"
  BY DEF ReadSt
<1> HIDE DEF p
<1>2. Unquote!IsDoubled(b, p.i)
  BY <1>1 DEF Unquote!IsDoubled
<1>3. Unquote!VscStep(b, p) = ReadSt(i + 2, o \o <<b[i]>>, "bare")
  BY <1>1, <1>2 DEF Unquote!VscStep, Unquote!Took, ReadSt
<1>4. QED BY <1>3 DEF StepOf, p

LEMMA RoomFor ==
  ASSUME NEW n \in Nat, NEW i \in Nat
  PROVE  /\ i + 3 <= n => i < n /\ i + 2 < n
         /\ i + 2 <= n => i + 1 < n
         /\ i + 1 \in Nat /\ i + 2 \in Nat
OBVIOUS

LEMMA VscHex ==
  ASSUME NEW b, NEW i \in Nat, NEW o, NEW c \in Hexed, b[i] = "\\", b[i + 1] = "x",
         i + 3 <= Len(b), Len(b) \in Nat, Paired(c, b, i + 2)
  PROVE  StepOf("vsc", b, ReadSt(i, o, "bare")) = ReadSt(i + 4, o \o <<c>>, "bare")
<1> DEFINE p == ReadSt(i, o, "bare")
<1>1. p.i = i /\ p.out = o /\ p.mode = "bare"
  BY DEF ReadSt
<1> HIDE DEF p
<1>2. i < Len(b) /\ i + 2 < Len(b) /\ i + 2 \in Nat
  BY RoomFor, Zenon
<1>3. Unquote!IsHex(b, i + 2) /\ Unquote!ByteAt(b, i + 2) = c
  <2> DEFINE j == i + 2
  <2>1. j \in Nat /\ j < Len(b) /\ Paired(c, b, j)
    BY <1>2, Zenon
  <2> HIDE DEF j
  <2>2. Unquote!IsHex(b, j) /\ Unquote!ByteAt(b, j) = c
    BY <2>1, ByteOf
  <2>3. QED BY <2>2 DEF j
<1>4. Unquote!IsHexEscape(b, p.i) /\ ~Unquote!IsDoubled(b, p.i)
  BY <1>1, <1>2, <1>3 DEF Unquote!IsDoubled, Unquote!IsHexEscape
<1>5. Unquote!VscStep(b, p) = Unquote!Took(p, 4, <<c>>, p.mode)
  BY <1>1, <1>3, <1>4, Zenon DEF Unquote!VscStep
<1>6. Unquote!Took(p, 4, <<c>>, p.mode) = ReadSt(i + 4, o \o <<c>>, "bare")
  BY <1>1 DEF Unquote!Took, ReadSt
<1>7. QED BY <1>5, <1>6 DEF StepOf, p

LEMMA VscPlain ==
  ASSUME NEW b, NEW i, NEW o, b[i] # "\\"
  PROVE  StepOf("vsc", b, ReadSt(i, o, "bare")) = ReadSt(i + 1, o \o <<b[i]>>, "bare")
<1> DEFINE p == ReadSt(i, o, "bare")
<1>1. p.i = i /\ p.out = o /\ p.mode = "bare"
  BY DEF ReadSt
<1> HIDE DEF p
<1>2. ~Unquote!IsHexEscape(b, p.i) /\ ~Unquote!IsDoubled(b, p.i)
  BY <1>1 DEF Unquote!IsDoubled, Unquote!IsHexEscape
<1>3. Unquote!VscStep(b, p) = ReadSt(i + 1, o \o <<b[i]>>, "bare")
  BY <1>1, <1>2 DEF Unquote!VscStep, Unquote!Raw, Unquote!Took, ReadSt
<1>4. QED BY <1>3 DEF StepOf, p

LEMMA PercentHex ==
  ASSUME NEW b, NEW i \in Nat, NEW o, NEW c \in Hexed, b[i] = "%",
         i + 2 <= Len(b), Len(b) \in Nat, Paired(c, b, i + 1)
  PROVE  StepOf("percent", b, ReadSt(i, o, "bare")) = ReadSt(i + 3, o \o <<c>>, "bare")
<1> DEFINE p == ReadSt(i, o, "bare")
<1>1. p.i = i /\ p.out = o /\ p.mode = "bare"
  BY DEF ReadSt
<1> HIDE DEF p
<1>2. i + 1 < Len(b) /\ i + 1 \in Nat
  BY RoomFor, Zenon
<1>3. Unquote!IsHex(b, i + 1) /\ Unquote!ByteAt(b, i + 1) = c
  <2> DEFINE j == i + 1
  <2>1. j \in Nat /\ j < Len(b) /\ Paired(c, b, j)
    BY <1>2, Zenon
  <2> HIDE DEF j
  <2>2. Unquote!IsHex(b, j) /\ Unquote!ByteAt(b, j) = c
    BY <2>1, ByteOf
  <2>3. QED BY <2>2 DEF j
<1>4. Unquote!PercentStep(b, p) = Unquote!Took(p, 3, <<c>>, p.mode)
  BY <1>1, <1>3, Zenon DEF Unquote!PercentStep
<1>5. Unquote!Took(p, 3, <<c>>, p.mode) = ReadSt(i + 3, o \o <<c>>, "bare")
  BY <1>1 DEF Unquote!Took, ReadSt
<1>6. QED BY <1>4, <1>5 DEF StepOf, p

LEMMA PercentPlain ==
  ASSUME NEW b, NEW i, NEW o, b[i] # "%"
  PROVE  StepOf("percent", b, ReadSt(i, o, "bare")) = ReadSt(i + 1, o \o <<b[i]>>, "bare")
<1> DEFINE p == ReadSt(i, o, "bare")
<1>1. p.i = i /\ p.out = o /\ p.mode = "bare"
  BY DEF ReadSt
<1> HIDE DEF p
<1>2. Unquote!PercentStep(b, p) = ReadSt(i + 1, o \o <<b[i]>>, "bare")
  BY <1>1 DEF Unquote!PercentStep, Unquote!Raw, Unquote!Took, ReadSt
<1>3. QED BY <1>2 DEF StepOf, p

LEMMA SumsOf ==
  ASSUME NEW i \in Nat
  PROVE  (i + 1) + 1 = i + 2 /\ (i + 2) + 1 = i + 3
OBVIOUS

LEMMA JoinTo ==
  ASSUME NEW h, NEW z, NEW u, h = <<z, u>>
  PROVE  /\ \A x, y : <<x, y>> \o h = <<x, y, z, u>> /\ Len(<<x, y>> \o h) = 4
         /\ \A x : <<x>> \o h = <<x, z, u>> /\ Len(<<x>> \o h) = 3
<1>1. ASSUME NEW x, NEW y
      PROVE  <<x, y>> \o h = <<x, y, z, u>> /\ <<x>> \o h = <<x, z, u>>
  BY JoinOf
<1>2. \A x, y : Len(<<x, y, z, u>>) = 4 /\ Len(<<x, z, u>>) = 3
  OBVIOUS
<1>3. QED BY <1>1, <1>2, Zenon

LEMMA PairIs ==
  ASSUME NEW c \in Hexed
  PROVE  \E z, u : HexPair(c) = <<z, u>>
<1>1. c = ";" \/ c = "\n" \/ c = "%"
  BY DEF Hexed
<1>2. CASE c = ";"
  BY <1>2, PairOf, Zenon
<1>3. CASE c = "\n"
  BY <1>3, PairOf, Zenon
<1>4. CASE c = "%"
  BY <1>4, PairOf, Zenon
<1>5. QED BY <1>1, <1>2, <1>3, <1>4, Zenon

\* The escape before the pair, and the pair.
LEMMA OneStands ==
  ASSUME NEW b, NEW i \in Nat, Len(b) \in Nat, NEW c \in Hexed, NEW x,
         Stands(b, i, <<x>> \o HexPair(c))
  PROVE  i + 2 <= Len(b) /\ b[i] = x /\ Paired(c, b, i + 1) /\ Len(<<x>> \o HexPair(c)) = 3
<1>1. PICK z, u : HexPair(c) = <<z, u>>
  BY PairIs
<1>2. <<x>> \o HexPair(c) = <<x, z, u>> /\ Len(<<x>> \o HexPair(c)) = 3
  BY <1>1, JoinTo
<1>3. (i + 1) + 1 = i + 2
  BY SumsOf, Zenon
<1>4. i + 2 <= Len(b) /\ b[i] = x /\ b[i + 1] = z /\ b[i + 2] = u
  <2>1. Stands(b, i, <<x, z, u>>)
    BY <1>2, Zenon
  <2>2. QED BY <2>1, StandsOf, Zenon
<1>5. QED BY <1>1, <1>2, <1>3, <1>4, Zenon DEF Paired

LEMMA TwoStand ==
  ASSUME NEW b, NEW i \in Nat, Len(b) \in Nat, NEW c \in Hexed, NEW x, NEW y,
         Stands(b, i, <<x, y>> \o HexPair(c))
  PROVE  /\ i + 3 <= Len(b) /\ b[i] = x /\ b[i + 1] = y /\ Paired(c, b, i + 2)
         /\ Len(<<x, y>> \o HexPair(c)) = 4
<1>1. PICK z, u : HexPair(c) = <<z, u>>
  BY PairIs
<1>2. <<x, y>> \o HexPair(c) = <<x, y, z, u>> /\ Len(<<x, y>> \o HexPair(c)) = 4
  BY <1>1, JoinTo
<1>3. (i + 2) + 1 = i + 3
  BY SumsOf, Zenon
<1>4. i + 3 <= Len(b) /\ b[i] = x /\ b[i + 1] = y /\ b[i + 2] = z /\ b[i + 3] = u
  <2>1. Stands(b, i, <<x, y, z, u>>)
    BY <1>2, Zenon
  <2>2. QED BY <2>1, StandsOf, Zenon
<1>5. QED BY <1>1, <1>2, <1>3, <1>4, Zenon DEF Paired

LEMMA ReaderComes ==
  ASSUME NEW S, NEW b \in Seq(S), NEW how, NEW i \in Nat, NEW o, NEW j \in Nat, NEW o2,
         Comes(how, b, ReadSt(i, o, "bare")), i <= Len(b),
         StepOf(how, b, ReadSt(i, o, "bare")) = ReadSt(j, o2, "bare"), j > i
  PROVE  Comes(how, b, ReadSt(j, o2, "bare"))
<1> DEFINE p == ReadSt(i, o, "bare")  q == ReadSt(j, o2, "bare")
<1>1. p.i = i /\ q.i = j
  BY DEF ReadSt
<1> HIDE DEF p, q
<1>2. QED BY <1>1, ComesNext DEF p, q

\* Moving on by a few bytes.
LEMMA OnBy ==
  ASSUME NEW i \in Nat, NEW n \in Nat
  PROVE  /\ i + 1 \in Nat /\ i + 2 \in Nat /\ i + 3 \in Nat /\ i + 4 \in Nat
         /\ i + 1 > i /\ i + 2 > i /\ i + 3 > i /\ i + 4 > i
         /\ i + 1 <= n => i <= n /\ i < n
         /\ i + 2 <= n => i <= n
         /\ i + 3 <= n => i <= n
OBVIOUS

LEMMA VscRead ==
  ASSUME NEW S, NEW b \in Seq(S)
  PROVE  ReadsEach("vsc", b, "bare", VscAt, Unquote!Escapable)
<1> DEFINE T == Unquote!Escapable
<1>1. SUFFICES ASSUME NEW i \in Nat, NEW o \in Seq(T), NEW c \in T, i > 0,
                      Stands(b, i, Unquote!VscEscaped(c)), Comes("vsc", b, ReadSt(i, o, "bare"))
               PROVE  Comes("vsc", b, ReadSt(i + Len(Unquote!VscEscaped(c)), Append(o, c), "bare"))
  BY DEF ReadsEach, VscAt
<1>2. c = "\\" \/ c \in {";", "\n"} \/ c \notin {"\\", ";", "\n", "SOH"}
  BY DEF Unquote!Escapable, Unquote!NL
<1>3. Len(b) \in Nat
  OBVIOUS
<1>4. Append(o, c) = o \o <<c>>
  <2> HIDE DEF T
  <2>1. QED BY AppendIs
<1> HIDE DEF T
<1>5. CASE c = "\\"
  <2>1. Unquote!VscEscaped(c) = <<c, c>>
    <3>1. Unquote!VscEscaped(c) = <<"\\", "\\">>
      BY <1>5 DEF Unquote!VscEscaped, Unquote!NL, Unquote!SOH
    <3>2. QED BY <1>5, <3>1, Zenon
  <2>2. Stands(b, i, <<c, c>>)
    BY <1>1, <2>1
  <2>3. i + 1 <= Len(b) /\ b[i] = c /\ b[i + 1] = c
    BY <1>3, <2>2, StandsOf, Zenon
  <2>4. i < Len(b) /\ i <= Len(b) /\ i + 2 \in Nat /\ i + 2 > i
    BY <1>3, <2>3, OnBy, Zenon
  <2>5. StepOf("vsc", b, ReadSt(i, o, "bare")) = ReadSt(i + 2, o \o <<b[i]>>, "bare")
    BY <1>5, <2>3, <2>4, VscDoubled, Zenon
  <2>6. Comes("vsc", b, ReadSt(i + 2, o \o <<b[i]>>, "bare"))
    BY <1>1, <2>4, <2>5, ReaderComes
  <2>7. Len(Unquote!VscEscaped(c)) = 2
    BY <2>1
  <2>8. QED BY <1>4, <2>3, <2>6, <2>7, Zenon
<1>6. CASE c \in {";", "\n"}
  <2>1. Unquote!VscEscaped(c) = <<"\\", "x">> \o HexPair(c)
    BY <1>6 DEF Unquote!VscEscaped, Unquote!NL, HexPair
  <2>2. Stands(b, i, <<"\\", "x">> \o HexPair(c))
    BY <1>1, <2>1, Zenon
  <2>3. c \in Hexed
    BY <1>6 DEF Hexed
  <2>4. /\ i + 3 <= Len(b) /\ b[i] = "\\" /\ b[i + 1] = "x" /\ Paired(c, b, i + 2)
        /\ Len(<<"\\", "x">> \o HexPair(c)) = 4
    <3> DEFINE e == "\\"  f == "x"
    <3>1. Stands(b, i, <<e, f>> \o HexPair(c))
      BY <2>2
    <3> HIDE DEF e, f
    <3>2. /\ i + 3 <= Len(b) /\ b[i] = e /\ b[i + 1] = f /\ Paired(c, b, i + 2)
          /\ Len(<<e, f>> \o HexPair(c)) = 4
      BY <1>3, <2>3, <3>1, TwoStand
    <3>3. QED BY <3>2, Zenon DEF e, f
  <2>5. i <= Len(b) /\ i + 4 \in Nat /\ i + 4 > i
    BY <1>3, <2>4, OnBy, Zenon
  <2>6. StepOf("vsc", b, ReadSt(i, o, "bare")) = ReadSt(i + 4, o \o <<c>>, "bare")
    <3>1. b[i] = "\\" /\ b[i + 1] = "x" /\ i + 3 <= Len(b) /\ Paired(c, b, i + 2)
      BY <2>4, Zenon
    <3>2. QED BY <1>3, <2>3, <3>1, VscHex
  <2>7. Comes("vsc", b, ReadSt(i + 4, o \o <<c>>, "bare"))
    BY <1>1, <2>5, <2>6, ReaderComes
  <2>8. QED BY <1>4, <2>1, <2>4, <2>7, Zenon
<1>7. CASE c \notin {"\\", ";", "\n", "SOH"}
  <2>1. Unquote!VscEscaped(c) = <<c>>
    BY <1>7 DEF Unquote!VscEscaped, Unquote!NL, Unquote!SOH
  <2>2. Stands(b, i, <<c>>)
    BY <1>1, <2>1
  <2>3. i <= Len(b) /\ b[i] = c
    BY <1>3, <2>2, StandsOf, Zenon
  <2>4. i + 1 \in Nat /\ i + 1 > i
    BY <1>3, OnBy, Zenon
  <2>5. b[i] # "\\"
    BY <1>7, <2>3
  <2>6. StepOf("vsc", b, ReadSt(i, o, "bare")) = ReadSt(i + 1, o \o <<b[i]>>, "bare")
    BY <2>5, VscPlain
  <2>7. Comes("vsc", b, ReadSt(i + 1, o \o <<b[i]>>, "bare"))
    BY <1>1, <2>3, <2>4, <2>6, ReaderComes
  <2>8. Len(Unquote!VscEscaped(c)) = 1
    BY <2>1
  <2>9. QED BY <1>4, <2>3, <2>7, <2>8, Zenon
<1>8. QED BY <1>2, <1>5, <1>6, <1>7

LEMMA UrlRead ==
  ASSUME NEW S, NEW b \in Seq(S)
  PROVE  ReadsEach("percent", b, "bare", UrlAt, Unquote!Escapable)
<1> DEFINE T == Unquote!Escapable
<1>1. SUFFICES ASSUME NEW i \in Nat, NEW o \in Seq(T), NEW c \in T, i > 0,
                      Stands(b, i, Unquote!UrlEncoded(c)), Comes("percent", b, ReadSt(i, o, "bare"))
               PROVE  Comes("percent", b, ReadSt(i + Len(Unquote!UrlEncoded(c)), Append(o, c), "bare"))
  BY DEF ReadsEach, UrlAt
<1>2. c \in Hexed \/ c \notin {"%", " ", ";", "\n", "SOH"}
  BY DEF Unquote!Escapable, Unquote!NL, Hexed
<1>3. Len(b) \in Nat
  OBVIOUS
<1>4. Append(o, c) = o \o <<c>>
  <2> HIDE DEF T
  <2>1. QED BY AppendIs
<1> HIDE DEF T
<1>5. CASE c \in Hexed
  <2>1. Unquote!UrlEncoded(c) = <<"%">> \o HexPair(c)
    BY <1>5 DEF Unquote!UrlEncoded, Unquote!NL, HexPair, Hexed
  <2>2. Stands(b, i, <<"%">> \o HexPair(c))
    BY <1>1, <2>1, Zenon
  <2>3. i + 2 <= Len(b) /\ b[i] = "%" /\ Paired(c, b, i + 1) /\ Len(<<"%">> \o HexPair(c)) = 3
    <3> DEFINE e == "%"
    <3>1. Stands(b, i, <<e>> \o HexPair(c))
      BY <2>2
    <3> HIDE DEF e
    <3>2. i + 2 <= Len(b) /\ b[i] = e /\ Paired(c, b, i + 1) /\ Len(<<e>> \o HexPair(c)) = 3
      BY <1>3, <1>5, <3>1, OneStands
    <3>3. QED BY <3>2, Zenon DEF e
  <2>4. i <= Len(b) /\ i + 3 \in Nat /\ i + 3 > i
    BY <1>3, <2>3, OnBy, Zenon
  <2>5. StepOf("percent", b, ReadSt(i, o, "bare")) = ReadSt(i + 3, o \o <<c>>, "bare")
    <3>1. c \in Hexed
      BY <1>5
    <3>2. b[i] = "%" /\ i + 2 <= Len(b) /\ Paired(c, b, i + 1)
      BY <2>3, Zenon
    <3>3. QED BY <1>3, <3>1, <3>2, PercentHex
  <2>6. Comes("percent", b, ReadSt(i + 3, o \o <<c>>, "bare"))
    BY <1>1, <2>4, <2>5, ReaderComes
  <2>7. QED BY <1>4, <2>1, <2>3, <2>6, Zenon
<1>6. CASE c \notin {"%", " ", ";", "\n", "SOH"}
  <2>1. Unquote!UrlEncoded(c) = <<c>>
    BY <1>6 DEF Unquote!UrlEncoded, Unquote!NL, Unquote!SOH
  <2>2. Stands(b, i, <<c>>)
    BY <1>1, <2>1
  <2>3. i <= Len(b) /\ b[i] = c
    BY <1>3, <2>2, StandsOf, Zenon
  <2>4. i + 1 \in Nat /\ i + 1 > i
    BY <1>3, OnBy, Zenon
  <2>5. b[i] # "%"
    BY <1>6, <2>3
  <2>6. StepOf("percent", b, ReadSt(i, o, "bare")) = ReadSt(i + 1, o \o <<b[i]>>, "bare")
    BY <2>5, PercentPlain
  <2>7. Comes("percent", b, ReadSt(i + 1, o \o <<b[i]>>, "bare"))
    BY <1>1, <2>3, <2>4, <2>6, ReaderComes
  <2>8. Len(Unquote!UrlEncoded(c)) = 1
    BY <2>1
  <2>9. QED BY <1>4, <2>3, <2>7, <2>8, Zenon
<1>7. QED BY <1>2, <1>5, <1>6

LEMMA VscIs ==
  ASSUME NEW w \in Seq(Unquote!Escapable)
  PROVE  Unquote!VscEscape(w) = Spread(VscAt, w)
<1> DEFINE T == Unquote!Escapable
<1>1. \A k \in DOMAIN w : w[k] \in T
  <2> HIDE DEF T
  <2>1. w \in Seq(T)
    BY DEF T
  <2>2. QED BY <2>1
<1>2. [k \in DOMAIN w |-> Unquote!VscEscaped(w[k])] = [k \in DOMAIN w |-> VscAt[w[k]]]
  BY <1>1 DEF VscAt
<1>3. QED BY <1>2, UnquoteFlatten, Zenon DEF Unquote!VscEscape, Unquote!MapSeq, Spread

LEMMA UrlIs ==
  ASSUME NEW w \in Seq(Unquote!Escapable)
  PROVE  Unquote!UrlEncode(w) = Spread(UrlAt, w)
<1> DEFINE T == Unquote!Escapable
<1>1. \A k \in DOMAIN w : w[k] \in T
  <2> HIDE DEF T
  <2>1. w \in Seq(T)
    BY DEF T
  <2>2. QED BY <2>1
<1>2. [k \in DOMAIN w |-> Unquote!UrlEncoded(w[k])] = [k \in DOMAIN w |-> UrlAt[w[k]]]
  BY <1>1 DEF UrlAt
<1>3. QED BY <1>2, UnquoteFlatten, Zenon DEF Unquote!UrlEncode, Unquote!MapSeq, Spread

LEMMA EscapedReadIs ==
  ASSUME NEW b
  PROVE  Unquote!VscUnescape(b) = ReadOf("vsc", b) /\ Unquote!PercentDecode(b) = ReadOf("percent", b)
BY DEF Unquote!VscUnescape, Unquote!PercentDecode, Unquote!ReadBy, ReadOf, ReadGoes, ReadStart, StepOf

LEMMA NoneIn ==
  ASSUME NEW S, NEW x, x \notin S, NEW p \in Seq(S)
  PROVE  x \notin Unquote!ToSet(p)
<1>1. Unquote!ToSet(p) = {p[k] : k \in DOMAIN p}
  BY DEF Unquote!ToSet
<1>2. \A k \in DOMAIN p : p[k] \in S
  OBVIOUS
<1>3. QED BY <1>1, <1>2

LEMMA AllEscapedBack ==
  ASSUME NEW w \in Seq(Unquote!Escapable)
  PROVE  Unquote!EscapedBack(w)
<1> DEFINE T == Unquote!Escapable  Q == NoSemicolon
<1>1. ReadOf("vsc", Spread(VscAt, w)) = w /\ Spread(VscAt, w) \in Seq(Q)
  <2> DEFINE h == VscAt
  <2>1. \A b \in Seq(Q) : ReadsEach("vsc", b, "bare", h, T)
    BY VscRead
  <2>2. IsSpread(h, Q, T) /\ w \in Seq(T)
    BY EscapedTyped
  <2> HIDE DEF T, Q, h
  <2>3. ReadOf("vsc", Spread(h, w)) = w
    BY <2>1, <2>2, SpreadRead
  <2>4. Spread(h, w) \in Seq(Q)
    BY <2>2, SpreadSteps
  <2>5. QED BY <2>3, <2>4 DEF h
<1>2. ReadOf("percent", Spread(UrlAt, w)) = w /\ Spread(UrlAt, w) \in Seq(Q)
  <2> DEFINE h == UrlAt
  <2>1. \A b \in Seq(Q) : ReadsEach("percent", b, "bare", h, T)
    BY UrlRead
  <2>2. IsSpread(h, Q, T) /\ w \in Seq(T)
    BY EscapedTyped
  <2> HIDE DEF T, Q, h
  <2>3. ReadOf("percent", Spread(h, w)) = w
    BY <2>1, <2>2, SpreadRead
  <2>4. Spread(h, w) \in Seq(Q)
    BY <2>2, SpreadSteps
  <2>5. QED BY <2>3, <2>4 DEF h
<1>3. ";" \notin Unquote!ToSet(Spread(VscAt, w)) /\ ";" \notin Unquote!ToSet(Spread(UrlAt, w))
  <2> DEFINE x == ";"
  <2>1. x \notin Q
    BY DEF NoSemicolon
  <2> HIDE DEF x, Q
  <2>2. x \notin Unquote!ToSet(Spread(VscAt, w)) /\ x \notin Unquote!ToSet(Spread(UrlAt, w))
    BY <1>1, <1>2, <2>1, NoneIn
  <2>3. QED BY <2>2, Zenon DEF x
<1>4. Unquote!VscEscape(w) = Spread(VscAt, w)
  BY VscIs
<1>4a. Unquote!UrlEncode(w) = Spread(UrlAt, w)
  BY UrlIs
<1>5. Unquote!VscUnescape(Unquote!VscEscape(w)) = w
  BY <1>1, <1>4, EscapedReadIs
<1>6. Unquote!PercentDecode(Unquote!UrlEncode(w)) = w
  BY <1>2, <1>4a, EscapedReadIs
<1>7. ";" \notin Unquote!ToSet(Unquote!VscEscape(w)) \cup Unquote!ToSet(Unquote!UrlEncode(w))
  BY <1>3, <1>4, <1>4a
<1>8. QED BY <1>5, <1>6, <1>7 DEF Unquote!EscapedBack

\* A quoted or escaped command line of any length is read back as it was: bash's and
\* zsh's %q and exec's own by shellUnquote, VS Code's by vscUnescape and fish's by
\* percentDecode (unquote.go, parser.go, exec.go); no escaped one has a semicolon left.
THEOREM ToldBackHolds == SpecReaders => []ToldBack
<1>1. ReaderTypes => ToldBack
  <2>1. SUFFICES ASSUME ReaderTypes
                 PROVE  /\ which = "quoted"  => Unquote!QuotedBack(s)
                        /\ which = "escaped" => Unquote!EscapedBack(s)
    BY DEF ToldBack
  <2>2. which = "quoted" => s \in Seq(Unquote!Quotable)
    BY <2>1 DEF ReaderTypes, TokensOf
  <2>3. which = "escaped" => s \in Seq(Unquote!Escapable)
    BY <2>1 DEF ReaderTypes, TokensOf
  <2>4. QED BY <2>2, <2>3, AllQuotedBack, AllEscapedBack
<1>2. QED BY <1>1, ReaderTypesHold, PTL

-----------------------------------------------------------------------------
(***************************************************************************)
(* The import of a history file.                                           *)
(***************************************************************************)

Ents(C) == [cmd : C, at : Nat]

\* The earlier entries of the same second, and what an entry is stored as.
EarlierAt(q, i) == {j \in 1 .. i - 1 : q[j].at = q[i].at}
NumberOf(q, i) == IF q[i].at = 0 THEN <<0, q[i].cmd>> ELSE <<q[i].at, Cardinality(EarlierAt(q, i))>>
RowOf(q, i) == [seq |-> NumberOf(q, i), cmd |-> q[i].cmd, at |-> q[i].at]

\* How many entries were trimmed.
Gone == Len(typed) - Len(kept)

HistTypes ==
  /\ now \in Nat \ {0}
  /\ typed \in Seq(Ents(HistFile!Commands[format])) /\ Len(typed) <= MaxEntries
  /\ \A i \in 1 .. Len(typed) : typed[i].at <= now

\* The file holds the newest entries; those it held once are of seconds that are
\* over and of which it holds none.
Trimmed ==
  /\ kept \in Seq(Nat) /\ Len(kept) <= Len(typed)
  /\ \A i \in 1 .. Len(kept) : kept[i] = Gone + i
  /\ \A i \in 1 .. Gone : typed[i].at # 0 =>
       /\ typed[i].at < now
       /\ \A j \in Gone + 1 .. Len(typed) : typed[j].at # typed[i].at

\* Rows are of entries, and after an import there is one of each in the file.
Sourced == \A r \in stored : \E i \in 1 .. Len(typed) : r = RowOf(typed, i)
Covered == fresh => \A i \in Gone + 1 .. Len(typed) : RowOf(typed, i) \in stored

HistInv == HistTypes /\ Trimmed /\ Sourced /\ Covered

LEMMA TypedIs ==
  ASSUME HistTypes, NEW i \in 1 .. Len(typed)
  PROVE  typed[i] \in Ents(HistFile!Commands[format]) /\ typed[i].at \in Nat
<1>1. typed[i] \in Ents(HistFile!Commands[format])
  BY DEF HistTypes
<1>2. QED BY <1>1 DEF Ents

LEMMA EarlierCount ==
  ASSUME NEW C, NEW q \in Seq(Ents(C)), NEW i \in 1 .. Len(q)
  PROVE  /\ IsFiniteSet(EarlierAt(q, i)) /\ Cardinality(EarlierAt(q, i)) \in Nat
         /\ Cardinality(EarlierAt(q, i)) <= i - 1
<1>1. i \in Nat /\ i - 1 \in Nat
  OBVIOUS
<1>2. IsFiniteSet(1 .. i - 1) /\ Cardinality(1 .. i - 1) = i - 1
  BY <1>1, FS_Interval
<1>3. EarlierAt(q, i) \in SUBSET (1 .. i - 1)
  BY DEF EarlierAt
<1>4. QED BY <1>2, <1>3, FS_Subset, FS_CardinalityType

\* The number tells the entry, unless its time is not known, and then its text.
LEMMA SeqTells ==
  ASSUME NEW C, NEW q \in Seq(Ents(C)), NEW i \in 1 .. Len(q), NEW j \in 1 .. Len(q),
         NumberOf(q, i) = NumberOf(q, j)
  PROVE  /\ RowOf(q, i) = RowOf(q, j)
         /\ q[i].at # 0 => i = j
<1>1. q[i].at = q[j].at
  BY DEF NumberOf
<1>2. CASE q[i].at = 0
  BY <1>1, <1>2 DEF NumberOf, RowOf
<1>3. CASE q[i].at # 0
  <2>1. Cardinality(EarlierAt(q, i)) = Cardinality(EarlierAt(q, j))
    BY <1>1, <1>3 DEF NumberOf
  <2>2. ASSUME NEW k \in 1 .. Len(q), NEW m \in 1 .. Len(q), k < m, q[k].at = q[m].at
        PROVE  Cardinality(EarlierAt(q, k)) # Cardinality(EarlierAt(q, m))
    <3>1. EarlierAt(q, k) \in SUBSET EarlierAt(q, m) /\ k \in EarlierAt(q, m) /\ k \notin EarlierAt(q, k)
      BY <2>2 DEF EarlierAt
    <3>2. IsFiniteSet(EarlierAt(q, m))
      BY EarlierCount
    <3>3. QED BY <3>1, <3>2, FS_Subset
  <2>3. i = j
    BY <1>1, <2>1, <2>2
  <2>4. QED BY <2>3
<1>4. QED BY <1>2, <1>3

\* What was typed later changes no number.
LEMMA RowStays ==
  ASSUME NEW C, NEW q \in Seq(Ents(C)), NEW e \in Ents(C), NEW i \in 1 .. Len(q)
  PROVE  RowOf(Append(q, e), i) = RowOf(q, i)
<1> DEFINE p == Append(q, e)
<1>1. \A k \in 1 .. Len(q) : p[k] = q[k]
  OBVIOUS
<1> HIDE DEF p
<1>2. p[i] = q[i] /\ \A k \in 1 .. i - 1 : p[k] = q[k]
  BY <1>1
<1>3. EarlierAt(p, i) = EarlierAt(q, i)
  BY <1>2 DEF EarlierAt
<1>4. QED BY <1>2, <1>3 DEF RowOf, NumberOf, p

\* The number an import gives the entry at i of the file is that of the entry typed.
LEMMA NumberedAlike ==
  ASSUME HistTypes, Trimmed, MaxEntries \in 0 .. 1000, NEW i \in 1 .. Len(kept),
         NEW es, es = [k \in DOMAIN kept |-> typed[kept[k]]]
  PROVE  /\ HistFile!SeqFor(es, i) = NumberOf(typed, Gone + i)
         /\ es[i] = typed[Gone + i]
<1> DEFINE C == HistFile!Commands[format]  n == Len(kept)  g == Gone  w == g + i
<1>1. /\ n \in Nat /\ g \in Nat /\ Len(typed) = g + n /\ typed \in Seq(Ents(C))
      /\ DOMAIN kept = 1 .. n /\ w \in 1 .. Len(typed) /\ Len(typed) <= 1000
      /\ w \in Gone + 1 .. Len(typed) /\ w - 1 \in 0 .. 999
  <2>1. /\ typed \in Seq(Ents(C)) /\ kept \in Seq(Nat) /\ n <= Len(typed) /\ g = Len(typed) - n
        /\ Len(typed) <= MaxEntries /\ MaxEntries \in 0 .. 1000 /\ i \in 1 .. n
    BY DEF HistTypes, Trimmed, Gone
  <2>2. n \in Nat /\ Len(typed) \in Nat /\ DOMAIN kept = 1 .. n /\ w = g + i /\ g = Gone
    BY <2>1
  <2> DEFINE l == Len(typed)
  <2> HIDE DEF n, g, w, C, l
  <2>2a. l <= MaxEntries /\ l \in Nat
    BY <2>1, <2>2 DEF l
  <2>2b. l <= 1000
    <3>1. \A x \in Nat, m \in 0 .. 1000 : x <= m => x <= 1000
      OBVIOUS
    <3>2. MaxEntries \in 0 .. 1000
      OBVIOUS
    <3>3. QED BY <2>2a, <3>1, <3>2
  <2>3. l \in Nat /\ n <= l /\ g = l - n /\ l <= 1000 /\ i \in 1 .. n
    BY <2>1, <2>2a, <2>2b DEF l
  <2>4. g \in Nat /\ l = g + n /\ w \in 1 .. l /\ w \in g + 1 .. l /\ w - 1 \in 0 .. 999
    BY <2>2, <2>3
  <2>5. QED BY <2>1, <2>2, <2>3, <2>4 DEF l
<1>2. \A k \in 1 .. n : es[k] = typed[g + k]
  BY <1>1 DEF Trimmed
<1>3. es[i] = typed[w]
  BY <1>2
<1> DEFINE S == {j \in 1 .. i - 1 : es[j].at = es[i].at}
           T == EarlierAt(typed, w)
<1>4. CASE typed[w].at # 0
  <2>1. IsFiniteSet(T) /\ Cardinality(T) \in Nat /\ Cardinality(T) <= 999
    <3>1. IsFiniteSet(T) /\ Cardinality(T) \in Nat /\ Cardinality(T) <= w - 1
      BY <1>1, EarlierCount
    <3> HIDE DEF T, w
    <3>2. QED BY <1>1, <3>1
  <2>2. \A j \in T : j \in g + 1 .. w - 1
    <3>1. \A j \in 1 .. g : typed[w].at # typed[j].at
      <4>1. \A j \in 1 .. Gone : typed[j].at # 0 => \A k \in Gone + 1 .. Len(typed) : typed[k].at # typed[j].at
        BY DEF Trimmed
      <4> HIDE DEF w
      <4>2. QED BY <1>1, <1>4, <4>1
    <3>2. QED BY <1>1, <3>1 DEF EarlierAt
  <2>3. \A j \in 1 .. i - 1 : es[j] = typed[g + j] /\ g + j \in 1 .. w - 1
    BY <1>1, <1>2
  <2> DEFINE f == [j \in S |-> g + j]
  <2>4. f \in Injection(S, T)
    <3>1. \A j \in S : g + j \in T
      <4>1. SUFFICES ASSUME NEW j \in S PROVE g + j \in T
        OBVIOUS
      <4>2. j \in 1 .. i - 1 /\ es[j].at = es[i].at
        OBVIOUS
      <4>3. es[j] = typed[g + j] /\ g + j \in 1 .. w - 1
        BY <2>3, <4>2
      <4>4. typed[g + j].at = typed[w].at
        BY <1>3, <4>2, <4>3
      <4> HIDE DEF g, w, S
      <4>5. QED BY <4>3, <4>4 DEF EarlierAt
    <3>2. \A j, k \in S : g + j = g + k => j = k
      BY <1>1
    <3> HIDE DEF S, T, g
    <3>3. f \in [S -> T]
      BY <3>1
    <3>4. QED BY <3>2, <3>3 DEF Injection, IsInjective
  <2>5. f \in Surjection(S, T)
    <3>1. \A j \in T : j - g \in S /\ g + (j - g) = j
      <4>1. SUFFICES ASSUME NEW j \in T PROVE j - g \in S /\ g + (j - g) = j
        OBVIOUS
      <4>2. j \in g + 1 .. w - 1 /\ typed[j].at = typed[w].at
        BY <2>2 DEF EarlierAt
      <4>3. j - g \in 1 .. i - 1 /\ g + (j - g) = j
        BY <1>1, <4>2
      <4>4. es[j - g] = typed[g + (j - g)]
        BY <2>3, <4>3
      <4>5. QED BY <1>3, <4>2, <4>3, <4>4
    <3>2. f \in [S -> T]
      BY <2>4 DEF Injection
    <3> HIDE DEF S, T, g
    <3>3. \A j \in T : \E k \in S : f[k] = j
      BY <3>1
    <3> HIDE DEF f
    <3>4. QED BY <3>2, <3>3 DEF Surjection
  <2>6. Cardinality(S) = Cardinality(T)
    <3> HIDE DEF S, T, f
    <3>1. QED BY <2>1, <2>4, <2>5, FS_Injection
  <2>7. HistFile!SeqFor(es, i) = <<es[i].at, IF Cardinality(S) > 999 THEN 999 ELSE Cardinality(S)>>
    <3>1. HistFile!Cardinality(S) = Cardinality(S)
      BY DEF HistFile!Cardinality, Cardinality
    <3>2. es[i].at # 0
      BY <1>3, <1>4
    <3>3. HistFile!SeqFor(es, i) = <<es[i].at, IF HistFile!Cardinality(S) > 999 THEN 999 ELSE HistFile!Cardinality(S)>>
      BY <3>2, Zenon DEF HistFile!SeqFor, HistFile!Unknown
    <3> HIDE DEF S
    <3>4. QED BY <3>1, <3>3
  <2> HIDE DEF S, T
  <2>8. HistFile!SeqFor(es, i) = <<typed[w].at, Cardinality(T)>>
    BY <1>3, <2>1, <2>6, <2>7
  <2>9. QED BY <1>3, <1>4, <2>8 DEF NumberOf, T
<1>5. CASE typed[w].at = 0
  BY <1>3, <1>5 DEF HistFile!SeqFor, HistFile!Unknown, NumberOf
<1>6. QED BY <1>3, <1>4, <1>5

\* An import adds the rows of the entries it takes, and of no others.
LEMMA ImportAdds ==
  ASSUME HistInv, MaxEntries \in 0 .. 1000, HistFile!ParsedBack, HistFile!Import
  PROVE  \E from \in 1 .. Len(kept) + 1 :
           /\ stored' = stored \cup {RowOf(typed, Gone + j) : j \in from .. Len(kept)}
           /\ fresh' => fresh \/ from = 1
<1> DEFINE C == HistFile!Commands[format]  es == HistFile!Parse(file)  n == Len(es)
           row(i) == RowOf(typed, Gone + i)
<1>1. /\ n = Len(kept) /\ n \in Nat /\ Gone \in Nat /\ Len(typed) = Gone + n /\ typed \in Seq(Ents(C))
      /\ \A i \in 1 .. n : Gone + i \in 1 .. Len(typed)
      /\ es = [k \in DOMAIN kept |-> typed[kept[k]]]
  <2> DEFINE l == Len(kept)  f == [k \in 1 .. l |-> typed[kept[k]]]
  <2>1. /\ l \in Nat /\ Gone \in Nat /\ Len(typed) = Gone + l /\ typed \in Seq(Ents(C))
        /\ DOMAIN kept = 1 .. l /\ \A i \in 1 .. l : Gone + i \in 1 .. Len(typed)
    BY DEF HistInv, HistTypes, Trimmed, Gone
  <2>2. es = [k \in DOMAIN kept |-> typed[kept[k]]]
    BY DEF HistFile!ParsedBack
  <2>3. \A k \in 1 .. l : typed[kept[k]] \in Ents(C)
    BY <2>1 DEF HistInv, Trimmed
  <2>4. f \in [1 .. l -> Ents(C)]
    BY <2>3
  <2>5. es = f
    BY <2>1, <2>2
  <2> HIDE DEF f, es
  <2>6. es \in Seq(Ents(C)) /\ DOMAIN es = 1 .. l
    BY <2>1, <2>4, <2>5, SeqDef
  <2>7. Len(es) = l
    BY <2>1, <2>6
  <2>8. QED BY <2>1, <2>2, <2>7
<1>4. \A i \in 1 .. n : /\ HistFile!SeqFor(es, i) = row(i).seq
                        /\ [seq |-> HistFile!SeqFor(es, i), cmd |-> es[i].cmd, at |-> es[i].at] = row(i)
  <2>1. TAKE i \in 1 .. n
  <2>2. HistFile!SeqFor(es, i) = NumberOf(typed, Gone + i) /\ es[i] = typed[Gone + i]
    BY <1>1, NumberedAlike DEF HistInv
  <2>3. QED BY <2>2 DEF RowOf
<1>5. PICK cap \in {0, 1} :
        LET from == IF cap > 0 /\ n > cap THEN n - cap + 1 ELSE 1
            A(b) == b = [i \in from - 1 .. n |->
                           IF i = from - 1 THEN stored
                           ELSE IF \E r \in b[i - 1] : r.seq = HistFile!SeqFor(es, i) THEN b[i - 1]
                           ELSE b[i - 1] \cup {[seq |-> HistFile!SeqFor(es, i),
                                                cmd |-> es[i].cmd, at |-> es[i].at]}]
        IN  stored' = (CHOOSE b : A(b))[n] /\ fresh' = (cap = 0 \/ fresh)
  BY Zenon DEF HistFile!Import
<1> DEFINE from == IF cap > 0 /\ n > cap THEN n - cap + 1 ELSE 1
           Then(b, i) == IF \E r \in b[i - 1] : r.seq = HistFile!SeqFor(es, i) THEN b[i - 1]
                         ELSE b[i - 1] \cup {[seq |-> HistFile!SeqFor(es, i),
                                              cmd |-> es[i].cmd, at |-> es[i].at]}
           A(b) == b = [i \in from - 1 .. n |-> IF i = from - 1 THEN stored ELSE Then(b, i)]
<1>6. stored' = (CHOOSE b : A(b))[n] /\ fresh' = (cap = 0 \/ fresh)
  BY <1>5
<1>7. n \in Nat /\ from \in 1 .. n + 1 /\ (cap = 0 => from = 1)
  BY <1>1
<1> DEFINE a == [i \in from - 1 .. n |-> stored \cup {row(j) : j \in from .. i}]
<1>8. ASSUME NEW b, NEW i \in from .. n, b[i - 1] = a[i - 1] PROVE Then(b, i) = a[i]
  <2>1. i \in 1 .. n /\ i - 1 \in from - 1 .. n /\ i \in from - 1 .. n
    BY <1>1, <1>7
  <2>2. a[i] = a[i - 1] \cup {row(i)}
    <3>1. from .. i = from .. (i - 1) \cup {i}
      BY <1>1, <1>7
    <3> DEFINE S(k) == {row(j) : j \in from .. k}
    <3>2. S(i) = S(i - 1) \cup {row(i)}
      BY <3>1
    <3>3. a[i] = stored \cup S(i) /\ a[i - 1] = stored \cup S(i - 1)
      BY <2>1
    <3> HIDE DEF S, a
    <3>4. QED BY <3>2, <3>3
  <2>3. \A r \in a[i - 1] : \E k \in 1 .. Len(typed) : r = RowOf(typed, k)
    <3>1. a[i - 1] = stored \cup {row(j) : j \in from .. (i - 1)}
      BY <2>1
    <3>2. \A j \in from .. (i - 1) : Gone + j \in 1 .. Len(typed)
      BY <1>1, <1>7, <2>1
    <3>3. \A r \in stored : \E k \in 1 .. Len(typed) : r = RowOf(typed, k)
      BY DEF HistInv, Sourced
    <3> HIDE DEF a
    <3>4. QED BY <3>1, <3>2, <3>3
  <2>4. \A r \in a[i - 1] : r.seq = row(i).seq => r = row(i)
    <3>1. SUFFICES ASSUME NEW r \in a[i - 1], r.seq = row(i).seq PROVE r = row(i)
      OBVIOUS
    <3>2. PICK k \in 1 .. Len(typed) : r = RowOf(typed, k)
      BY <2>3
    <3>3. NumberOf(typed, k) = NumberOf(typed, Gone + i) /\ Gone + i \in 1 .. Len(typed)
      BY <1>1, <2>1, <3>1, <3>2 DEF RowOf
    <3>4. QED BY <1>1, <3>2, <3>3, SeqTells
  <2>5. Then(b, i) = IF \E r \in a[i - 1] : r.seq = row(i).seq THEN a[i - 1]
                     ELSE a[i - 1] \cup {row(i)}
    <3>1. HistFile!SeqFor(es, i) = row(i).seq
      BY <1>4, <2>1
    <3>2. [seq |-> HistFile!SeqFor(es, i), cmd |-> es[i].cmd, at |-> es[i].at] = row(i)
      BY <1>4, <2>1
    <3> HIDE DEF a, row
    <3>3. QED BY <1>8, <3>1, <3>2, Zenon
  <2> HIDE DEF Then, a, row
  <2>6. QED BY <2>2, <2>4, <2>5
<1>9. A(a)
  <2> DEFINE c == [i \in from - 1 .. n |-> IF i = from - 1 THEN stored ELSE Then(a, i)]
  <2>1. \A i \in from - 1 .. n : i # from - 1 => i \in from .. n
    BY <1>1, <1>7
  <2>2. a[from - 1] = stored
    <3>1. from .. from - 1 = {} /\ from - 1 \in from - 1 .. n
      BY <1>1, <1>7
    <3>2. QED BY <3>1
  <2>3. \A i \in from - 1 .. n : a[i] = IF i = from - 1 THEN stored ELSE Then(a, i)
    <3> HIDE DEF a, Then, from
    <3>1. QED BY <1>8, <2>1, <2>2
  <2>4. a = [i \in from - 1 .. n |-> a[i]]
    OBVIOUS
  <2> HIDE DEF a, Then, from
  <2>5. QED BY <2>3, <2>4
<1>10. ASSUME NEW b, A(b) PROVE b[n] = a[n]
  <2> DEFINE m == n - from + 1
             G == {k \in 0 .. m : b[from - 1 + k] = a[from - 1 + k]}
  <2>1. m \in Nat /\ from - 1 + m = n /\ \A k \in 0 .. m : from - 1 + k \in from - 1 .. n
    <3> HIDE DEF from, n
    <3>1. QED BY <1>1, <1>7
  <2>2. \A i \in from - 1 .. n : b[i] = IF i = from - 1 THEN stored ELSE Then(b, i)
    <3> HIDE DEF Then, from
    <3>1. QED BY <1>10
  <2>3. \A i \in from - 1 .. n : a[i] = IF i = from - 1 THEN stored ELSE Then(a, i)
    <3> HIDE DEF Then, from, a
    <3>1. QED BY <1>9
  <2>4. 0 \in G
    <3>1. from - 1 \in from - 1 .. n /\ from - 1 + 0 = from - 1 /\ 0 \in 0 .. m
      BY <1>1, <1>7, <2>1
    <3> HIDE DEF Then, a, from, m
    <3>2. QED BY <2>2, <2>3, <3>1
  <2>5. ASSUME NEW k \in 1 .. m, k - 1 \in G PROVE k \in G
    <3> DEFINE i == from - 1 + k
    <3>1. i \in from .. n /\ i \in from - 1 .. n /\ i # from - 1 /\ from - 1 + (k - 1) = i - 1 /\ k \in 0 .. m
      <4> HIDE DEF from, n
      <4>1. QED BY <1>1, <1>7
    <3>2. b[i - 1] = a[i - 1]
      BY <2>5, <3>1
    <3> HIDE DEF i, Then, a, from
    <3>3. b[i] = a[i]
      BY <1>8, <2>2, <3>1, <3>2
    <3>4. QED BY <3>1, <3>3 DEF i
  <2>6. 0 .. m \subseteq G
    <3> HIDE DEF G, m
    <3>1. QED BY <2>1, <2>4, <2>5, Along
  <2> HIDE DEF a, from
  <2>7. QED BY <2>1, <2>6
<1>11. stored' = a[n]
  <2> HIDE DEF a, A
  <2>1. QED BY <1>6, <1>9, <1>10
<1>12. a[n] = stored \cup {row(j) : j \in from .. n}
  BY <1>1, <1>7
<1>13. fresh' => fresh \/ from = 1
  BY <1>6, <1>7
<1> HIDE DEF from, a
<1>14. QED BY <1>1, <1>7, <1>11, <1>12, <1>13

LEMMA HistImport ==
  ASSUME HistInv, MaxEntries \in 0 .. 1000, HistFile!ParsedBack, HistFile!Import
  PROVE  HistInv'
<1>1. PICK from \in 1 .. Len(kept) + 1 :
        /\ stored' = stored \cup {RowOf(typed, Gone + j) : j \in from .. Len(kept)}
        /\ fresh' => fresh \/ from = 1
  BY ImportAdds
<1>2. UNCHANGED <<format, timed, now, typed, kept, file>>
  BY DEF HistFile!Import
<1>3. HistTypes' /\ Trimmed' /\ Gone' = Gone
  BY <1>2 DEF HistInv, HistTypes, Trimmed, Gone
<1>4. Gone \in Nat /\ Len(kept) \in Nat /\ Len(typed) = Gone + Len(kept)
  BY DEF HistInv, HistTypes, Trimmed, Gone
<1>5. \A r \in stored' : \E i \in 1 .. Len(typed) : r = RowOf(typed, i)
  <2>1. \A j \in from .. Len(kept) : Gone + j \in 1 .. Len(typed)
    BY <1>4
  <2>2. QED BY <1>1, <2>1 DEF HistInv, Sourced
<1>6. fresh' => \A i \in Gone + 1 .. Len(typed) : RowOf(typed, i) \in stored'
  <2>1. SUFFICES ASSUME fresh', NEW i \in Gone + 1 .. Len(typed) PROVE RowOf(typed, i) \in stored'
    OBVIOUS
  <2>2. CASE fresh
    BY <1>1, <2>2 DEF HistInv, Covered
  <2>3. CASE from = 1
    <3>1. i - Gone \in from .. Len(kept) /\ Gone + (i - Gone) = i
      BY <1>4, <2>3
    <3>2. QED BY <1>1, <3>1
  <2>4. QED BY <1>1, <2>1, <2>2, <2>3
<1>7. Sourced'
  BY <1>2, <1>5 DEF Sourced
<1>8. Covered'
  BY <1>2, <1>3, <1>6 DEF Covered
<1>9. QED BY <1>3, <1>7, <1>8 DEF HistInv


LEMMA HistTick ==
  ASSUME HistInv, HistFile!Tick
  PROVE  HistInv'
<1>1. now' = now + 1 /\ UNCHANGED <<format, timed, typed, kept, file, stored, fresh>>
  BY DEF HistFile!Tick
<1>2. HistTypes'
  <2>1. now \in Nat \ {0} /\ \A i \in 1 .. Len(typed) : typed[i].at \in Nat /\ typed[i].at <= now
    BY TypedIs DEF HistInv, HistTypes
  <2>2. \A i \in 1 .. Len(typed) : typed[i].at <= now + 1
    BY <2>1
  <2>3. now + 1 \in Nat \ {0}
    BY <2>1
  <2>4. QED BY <1>1, <2>2, <2>3 DEF HistInv, HistTypes
<1>3. Gone' = Gone /\ Gone \in Nat /\ now \in Nat \ {0}
  BY <1>1 DEF Gone, HistInv, HistTypes, Trimmed
<1>4. Trimmed'
  <2>1. ASSUME NEW i \in 1 .. Gone, typed[i].at # 0
        PROVE  /\ typed[i].at < now + 1
               /\ \A j \in Gone + 1 .. Len(typed) : typed[j].at # typed[i].at
    <3>1. /\ typed[i].at < now
          /\ \A j \in Gone + 1 .. Len(typed) : typed[j].at # typed[i].at
      BY <2>1 DEF HistInv, Trimmed
    <3>2. i \in 1 .. Len(typed) /\ typed[i].at \in Nat
      <4>1. i \in 1 .. Len(typed)
        BY DEF HistInv, HistTypes, Trimmed, Gone
      <4>2. QED BY <4>1, TypedIs DEF HistInv
    <3>3. QED BY <1>3, <3>1, <3>2
  <2>2. QED BY <1>1, <1>3, <2>1 DEF HistInv, Trimmed
<1>5. Sourced' /\ Covered'
  BY <1>1, <1>3 DEF HistInv, Sourced, Covered
<1>6. QED BY <1>2, <1>4, <1>5 DEF HistInv

LEMMA HistType ==
  ASSUME HistInv, MaxEntries \in Nat, HistFile!Type
  PROVE  HistInv'
<1> DEFINE C == HistFile!Commands[format]  n == Len(kept)  l == Len(typed)
<1>1. /\ l \in Nat /\ n \in Nat /\ Gone \in Nat /\ l = Gone + n /\ Gone = l - n /\ typed \in Seq(Ents(C))
      /\ now \in Nat \ {0} /\ kept \in Seq(Nat) /\ \A i \in 1 .. l : typed[i].at <= now
  BY DEF HistInv, HistTypes, Trimmed, Gone
<1>2. /\ l < MaxEntries /\ kept' = Append(kept, Len(typed')) /\ fresh' = FALSE
      /\ UNCHANGED <<format, timed, now, stored>>
  BY DEF HistFile!Type
<1>3. PICK e \in Ents(C) : typed' = Append(typed, e) /\ e.at \in {0, now}
  <2>1. PICK cmd \in C, at \in {now} \cup (IF format = "bash" THEN {HistFile!Unknown} ELSE {}) :
          typed' = Append(typed, HistFile!Entry(cmd, IF timed THEN at ELSE HistFile!Unknown))
    BY DEF HistFile!Type
  <2> DEFINE e == [cmd |-> cmd, at |-> IF timed THEN at ELSE 0]
  <2>2. e \in Ents(C) /\ e.at \in {0, now}
    BY <1>1, <2>1 DEF Ents, HistFile!Unknown
  <2>3. typed' = Append(typed, e)
    BY <2>1 DEF HistFile!Entry, HistFile!Unknown
  <2>4. QED BY <2>2, <2>3
<1>4. /\ typed' \in Seq(Ents(C)) /\ Len(typed') = l + 1 /\ typed'[l + 1] = e
      /\ \A i \in 1 .. l : typed'[i] = typed[i]
  BY <1>1, <1>3
<1>5. /\ kept' \in Seq(Nat) /\ Len(kept') = n + 1 /\ kept'[n + 1] = l + 1
      /\ \A i \in 1 .. n : kept'[i] = kept[i]
  BY <1>1, <1>2, <1>4
<1>6. Gone' = Gone
  BY <1>1, <1>4, <1>5 DEF Gone
<1> HIDE DEF n, l, C
<1>7. HistTypes'
  <2>1. \A i \in 1 .. l + 1 : typed'[i].at <= now
    <3>1. \A i \in 1 .. l + 1 : i \in 1 .. l \/ i = l + 1
      BY <1>1
    <3>2. e.at <= now
      BY <1>1, <1>3
    <3>3. QED BY <1>1, <1>4, <3>1, <3>2
  <2>2. l + 1 <= MaxEntries
    BY <1>1, <1>2
  <2>3. QED BY <1>1, <1>2, <1>4, <2>1, <2>2 DEF HistTypes, C
<1>8. Trimmed'
  <2>1. \A i \in 1 .. n + 1 : kept'[i] = Gone + i
    <3>1. \A i \in 1 .. n : kept[i] = Gone + i
      BY DEF HistInv, Trimmed, n
    <3>2. \A i \in 1 .. n + 1 : i \in 1 .. n \/ i = n + 1
      BY <1>1
    <3>3. kept'[n + 1] = Gone + (n + 1)
      BY <1>1, <1>5
    <3>4. QED BY <1>5, <3>1, <3>2, <3>3
  <2>2. ASSUME NEW i \in 1 .. Gone, typed'[i].at # 0
        PROVE  /\ typed'[i].at < now
               /\ \A j \in Gone + 1 .. l + 1 : typed'[j].at # typed'[i].at
    <3>0. typed'[i] = typed[i] /\ typed[i].at # 0 /\ i \in 1 .. l
      BY <1>1, <1>4, <2>2
    <3>1. /\ typed[i].at < now
          /\ \A j \in Gone + 1 .. l : typed[j].at # typed[i].at
      BY <3>0 DEF HistInv, Trimmed, l
    <3>2. i \in 1 .. l /\ \A j \in Gone + 1 .. l + 1 : (j \in Gone + 1 .. l /\ j \in 1 .. l) \/ j = l + 1
      BY <1>1
    <3>3. e.at # typed[i].at
      BY <1>1, <1>3, <3>0, <3>1
    <3>4. typed'[i] = typed[i]
      BY <1>4, <3>2
    <3>5. \A j \in Gone + 1 .. l + 1 : typed'[j].at # typed'[i].at
      BY <1>4, <3>1, <3>2, <3>3, <3>4
    <3>6. QED BY <3>1, <3>4, <3>5
  <2>3. n + 1 <= l + 1
    BY <1>1
  <2>4. QED BY <1>2, <1>4, <1>5, <1>6, <2>1, <2>2, <2>3 DEF Trimmed
<1>9. Sourced'
  <2>1. SUFFICES ASSUME NEW r \in stored' PROVE \E i \in 1 .. l + 1 : r = RowOf(typed', i)
    BY <1>4 DEF Sourced
  <2>2. PICK i \in 1 .. l : r = RowOf(typed, i)
    BY <1>2, <2>1 DEF HistInv, Sourced, l
  <2>3. RowOf(typed', i) = RowOf(typed, i)
    BY <1>1, <1>3, RowStays DEF l
  <2>4. i \in 1 .. l + 1
    BY <1>1
  <2>5. QED BY <2>2, <2>3, <2>4
<1>10. Covered'
  BY <1>2 DEF Covered
<1>11. QED BY <1>7, <1>8, <1>9, <1>10 DEF HistInv

LEMMA HistTrim ==
  ASSUME HistInv, ~WithinSecond, HistFile!Trim
  PROVE  HistInv'
<1> DEFINE n == Len(kept)  l == Len(typed)
<1>1. /\ l \in Nat /\ n \in Nat /\ Gone \in Nat /\ l = Gone + n /\ Gone = l - n
      /\ kept \in Seq(Nat) /\ \A i \in 1 .. n : kept[i] = Gone + i
  BY DEF HistInv, HistTypes, Trimmed, Gone
<1>2. PICK d \in 1 .. n :
        /\ \A i \in 1 .. d : typed[kept[i]].at # 0 =>
             /\ typed[kept[i]].at < now
             /\ \A j \in d + 1 .. n : typed[kept[j]].at # typed[kept[i]].at
        /\ kept' = SubSeq(kept, d + 1, n)
  BY DEF HistFile!Trim, HistFile!Unknown
<1>3. UNCHANGED <<format, timed, now, typed, stored, fresh>>
  BY DEF HistFile!Trim
<1>4. /\ kept' \in Seq(Nat) /\ Len(kept') = n - d /\ \A i \in 1 .. n - d : kept'[i] = kept[d + i]
  BY <1>1, <1>2
<1>5. Gone' = Gone + d
  BY <1>1, <1>3, <1>4 DEF Gone
<1> HIDE DEF n, l
<1>7. \A i \in 1 .. n - d : kept'[i] = (Gone + d) + i
  <2>1. \A i \in 1 .. n - d : d + i \in 1 .. n /\ Gone + (d + i) = (Gone + d) + i
    BY <1>1
  <2>2. QED BY <1>1, <1>4, <2>1
<1>8. ASSUME NEW i \in 1 .. Gone + d, typed[i].at # 0
      PROVE  /\ typed[i].at < now
             /\ \A j \in Gone + d + 1 .. l : typed[j].at # typed[i].at
  <2>1. CASE i \in 1 .. Gone
    <3>1. /\ typed[i].at < now
          /\ \A j \in Gone + 1 .. l : typed[j].at # typed[i].at
      BY <1>8, <2>1 DEF HistInv, Trimmed, l
    <3>2. \A j \in Gone + d + 1 .. l : j \in Gone + 1 .. l
      BY <1>1
    <3>3. QED BY <3>1, <3>2
  <2>2. CASE i \notin 1 .. Gone
    <3> DEFINE k == i - Gone
    <3>1. k \in 1 .. d /\ k \in 1 .. n /\ Gone + k = i /\ i \in 1 .. l
      BY <1>1, <2>2
    <3>2. kept[k] = i
      BY <1>1, <3>1
    <3>3. /\ typed[i].at < now
          /\ \A j \in d + 1 .. n : typed[kept[j]].at # typed[i].at
      BY <1>2, <1>8, <3>1, <3>2
    <3>4. \A j \in Gone + d + 1 .. l : j - Gone \in d + 1 .. n /\ j - Gone \in 1 .. n /\ Gone + (j - Gone) = j
      BY <1>1
    <3>5. \A j \in Gone + d + 1 .. l : j - Gone \in d + 1 .. n /\ kept[j - Gone] = j
      BY <1>1, <3>4
    <3> HIDE DEF k
    <3>6. \A j \in Gone + d + 1 .. l : typed[j].at # typed[i].at
      BY <3>3, <3>5
    <3>7. QED BY <3>3, <3>6
  <2>3. QED BY <2>1, <2>2
<1>9. HistTypes'
  BY <1>3 DEF HistInv, HistTypes
<1>10. Trimmed'
  <2>1. n - d <= l
    BY <1>1
  <2>2. QED BY <1>3, <1>4, <1>5, <1>7, <1>8, <2>1 DEF Trimmed, l
<1>11. Sourced'
  BY <1>3 DEF HistInv, Sourced
<1>12. Covered'
  <2>1. \A i \in Gone' + 1 .. Len(typed') : i \in Gone + 1 .. Len(typed)
    BY <1>1, <1>3, <1>5 DEF l
  <2>2. QED BY <1>3, <2>1 DEF HistInv, Covered
<1>13. QED BY <1>9, <1>10, <1>11, <1>12 DEF HistInv

LEMMA HistInit == HistFile!Init /\ MaxEntries \in Nat => HistInv
BY DEF HistFile!Init, HistInv, HistTypes, Trimmed, Sourced, Covered, Gone

LEMMA HistInvNext ==
  ~WithinSecond /\ MaxEntries \in 0 .. 1000 /\ ParsedBack /\ HistInv /\ [NextReaders]_varsReaders => HistInv'
<1> SUFFICES ASSUME ~WithinSecond, MaxEntries \in 0 .. 1000, ParsedBack, HistInv, [NextReaders]_varsReaders
             PROVE  HistInv'
  OBVIOUS
<1>1. CASE UNCHANGED histfileVars
  <2>1. UNCHANGED <<format, timed, now, typed, kept, stored, fresh>>
    BY <1>1 DEF histfileVars
  <2>2. HistTypes' /\ Gone' = Gone
    BY <2>1 DEF HistInv, HistTypes, Gone
  <2>3. Trimmed'
    BY <2>1, <2>2 DEF HistInv, Trimmed
  <2>4. Sourced' /\ Covered'
    BY <2>1, <2>2 DEF HistInv, Sourced, Covered
  <2>5. QED BY <2>2, <2>3, <2>4 DEF HistInv
<1>2. CASE which = "histfile" /\ HistFile!Next
  <2>1. HistFile!ParsedBack
    BY <1>2 DEF ParsedBack
  <2>2. QED BY <1>2, <2>1, HistTick, HistType, HistTrim, HistImport DEF HistFile!Next
<1>3. QED BY <1>1, <1>2 DEF NextReaders, varsReaders

\* How many rows there are of the same text and time.
LEMMA RowsCounted ==
  ASSUME HistInv
  PROVE  HistFile!ImportedOnce
<1> DEFINE C == HistFile!Commands[format]  l == Len(typed)
<1>1. /\ typed \in Seq(Ents(C)) /\ l \in Nat /\ DOMAIN typed = 1 .. l /\ Gone \in Nat
  BY DEF HistInv, HistTypes, Trimmed, Gone
<1>2. HistFile!Range(kept) = Gone + 1 .. l
  <2>1. /\ DOMAIN kept = 1 .. Len(kept) /\ Len(kept) \in Nat /\ Gone = l - Len(kept)
        /\ \A i \in 1 .. Len(kept) : kept[i] = Gone + i
    BY DEF HistInv, Trimmed, Gone
  <2>2. \A k \in Gone + 1 .. l : k - Gone \in 1 .. Len(kept) /\ Gone + (k - Gone) = k
    BY <1>1, <2>1
  <2>3. \A i \in 1 .. Len(kept) : Gone + i \in Gone + 1 .. l
    BY <1>1, <2>1
  <2>4. \A k \in Gone + 1 .. l : \E i \in 1 .. Len(kept) : kept[i] = k
    BY <2>1, <2>2
  <2>5. HistFile!Range(kept) = {kept[i] : i \in 1 .. Len(kept)}
    BY <2>1 DEF HistFile!Range
  <2>6. QED BY <2>1, <2>3, <2>4, <2>5
<1>3. \A S : HistFile!Cardinality(S) = Cardinality(S)
  BY DEF HistFile!Cardinality, Cardinality
<1> HIDE DEF C
<1>4. ASSUME NEW k \in DOMAIN typed,
             NEW cmd, cmd = typed[k].cmd, NEW at, at = typed[k].at
      PROVE  LET R == {r \in stored : r.cmd = cmd /\ r.at = at}
                 Same(S) == {i \in S : typed[i] = HistFile!Entry(cmd, at)} IN
             /\ Cardinality(R) <= IF at = 0 THEN 1 ELSE Cardinality(Same(DOMAIN typed))
             /\ fresh /\ k \in Gone + 1 .. l =>
                  Cardinality(R) >= IF at = 0 THEN 1 ELSE Cardinality(Same(Gone + 1 .. l))
  <2> DEFINE R == {r \in stored : r.cmd = cmd /\ r.at = at}
             Same(S) == {i \in S : typed[i] = HistFile!Entry(cmd, at)}
             T == Same(DOMAIN typed)  K == Same(Gone + 1 .. l)
  <2>1. \A r \in stored : \E i \in 1 .. l : r = RowOf(typed, i)
    BY DEF HistInv, Sourced
  <2>2. fresh => \A i \in Gone + 1 .. l : RowOf(typed, i) \in stored
    BY DEF HistInv, Covered
  <2>3. CASE at = 0
    <3> DEFINE one == [seq |-> <<0, cmd>>, cmd |-> cmd, at |-> 0]
    <3>1. R \in SUBSET {one}
      <4>1. SUFFICES ASSUME NEW r \in R PROVE r = one
        OBVIOUS
      <4>2. PICK i \in 1 .. l : r = RowOf(typed, i)
        BY <2>1
      <4>3. typed[i].at = 0 /\ typed[i].cmd = cmd
        BY <2>3, <4>1, <4>2 DEF RowOf
      <4>4. QED BY <4>2, <4>3 DEF RowOf, NumberOf
    <3>2. IsFiniteSet({one}) /\ Cardinality({one}) = 1
      BY FS_Singleton
    <3>3. fresh /\ k \in Gone + 1 .. l => R = {one}
      <4>1. SUFFICES ASSUME fresh, k \in Gone + 1 .. l PROVE one \in R
        BY <3>1
      <4>2. RowOf(typed, k) \in stored
        BY <2>2, <4>1
      <4>3. RowOf(typed, k) = one
        BY <1>4, <2>3 DEF RowOf, NumberOf
      <4>4. QED BY <2>3, <4>2, <4>3
    <3> HIDE DEF R, one
    <3>4. Cardinality(R) <= 1
      BY <3>1, <3>2, FS_Subset
    <3>5. fresh /\ k \in Gone + 1 .. l => Cardinality(R) >= 1
      <4>1. ASSUME fresh, k \in Gone + 1 .. l PROVE Cardinality(R) >= 1
        <5>1. R = {one}
          BY <3>3, <4>1
        <5>2. Cardinality(R) = 1
          BY <3>2, <5>1
        <5>3. QED BY <5>2
      <4>2. QED BY <4>1
    <3>6. QED BY <2>3, <3>4, <3>5 DEF R
  <2>4. CASE at # 0
    <3>1. IsFiniteSet(T)
      <4>1. IsFiniteSet(DOMAIN typed)
        BY <1>1, FS_Interval
      <4>2. T \in SUBSET DOMAIN typed
        OBVIOUS
      <4> HIDE DEF T
      <4>3. QED BY <4>1, <4>2, FS_Subset
    <3> DEFINE f == [r \in R |-> CHOOSE i \in 1 .. l : r = RowOf(typed, i)]
    <3>2. \A r \in R : f[r] \in 1 .. l /\ r = RowOf(typed, f[r])
      BY <2>1
    <3>3. \A i \in 1 .. l : typed[i].cmd = cmd /\ typed[i].at = at => typed[i] = HistFile!Entry(cmd, at)
      <4>1. \A i \in 1 .. l : typed[i] \in Ents(C)
        BY <1>1
      <4>2. QED BY <4>1 DEF Ents, HistFile!Entry
    <3>4. f \in Injection(R, T)
      <4>1. \A r \in R : f[r] \in T
        <5>1. TAKE r \in R
        <5>2. r.cmd = cmd /\ r.at = at /\ f[r] \in 1 .. l /\ r = RowOf(typed, f[r])
          BY <3>2
        <5> HIDE DEF f
        <5>3. typed[f[r]].cmd = cmd /\ typed[f[r]].at = at
          BY <5>2 DEF RowOf
        <5>4. QED BY <1>1, <3>3, <5>2, <5>3
      <4>2. f \in [R -> T]
        <5> HIDE DEF R, T
        <5>1. QED BY <4>1
      <4> HIDE DEF R, T, f
      <4>3. \A q, r \in R : f[q] = f[r] => q = r
        BY <3>2
      <4>4. QED BY <4>2, <4>3 DEF Injection, IsInjective
    <3>5. IsFiniteSet(R) /\ Cardinality(R) <= Cardinality(T)
      <4> HIDE DEF R, T, f
      <4>1. QED BY <3>1, <3>4, FS_Injection
    <3>6. ASSUME fresh PROVE Cardinality(R) >= Cardinality(K)
      <4> DEFINE g == [i \in K |-> RowOf(typed, i)]
      <4>1. \A i \in K : i \in 1 .. l /\ i \in Gone + 1 .. l /\ typed[i].cmd = cmd /\ typed[i].at = at
        BY <1>1 DEF HistFile!Entry
      <4>2. \A i \in K : RowOf(typed, i) \in R
        <5>1. \A i \in K : RowOf(typed, i) \in stored
          BY <2>2, <3>6, <4>1
        <5>2. \A i \in K : RowOf(typed, i).cmd = cmd /\ RowOf(typed, i).at = at
          BY <4>1 DEF RowOf
        <5> HIDE DEF K
        <5>3. QED BY <5>1, <5>2
      <4>3. \A i, j \in K : RowOf(typed, i) = RowOf(typed, j) => i = j
        <5>1. SUFFICES ASSUME NEW i \in K, NEW j \in K, RowOf(typed, i) = RowOf(typed, j) PROVE i = j
          OBVIOUS
        <5>2. NumberOf(typed, i) = NumberOf(typed, j)
          BY <5>1 DEF RowOf
        <5>3. i \in 1 .. l /\ j \in 1 .. l /\ typed[i].at # 0
          BY <2>4, <4>1
        <5>4. QED BY <1>1, <5>2, <5>3, SeqTells
      <4> HIDE DEF R, K
      <4>4. g \in Injection(K, R)
        BY <4>2, <4>3 DEF Injection, IsInjective
      <4> HIDE DEF g
      <4>5. Cardinality(K) <= Cardinality(R) /\ IsFiniteSet(K)
        BY <3>5, <4>4, FS_Injection
      <4>6. Cardinality(K) \in Nat /\ Cardinality(R) \in Nat
        BY <3>5, <4>5, FS_CardinalityType
      <4>7. QED BY <4>5, <4>6
    <3> HIDE DEF R, T, K
    <3>7. QED BY <2>4, <3>5, <3>6 DEF R, T, K
  <2>5. QED BY <2>3, <2>4
<1>5. ASSUME NEW k \in DOMAIN typed
      PROVE  LET cmd == typed[k].cmd
                 at == typed[k].at
                 Times(S) == HistFile!Cardinality({i \in S : typed[i] = HistFile!Entry(cmd, at)})
                 held == HistFile!Cardinality({r \in stored : r.cmd = cmd /\ r.at = at}) IN
             /\ held <= (IF at = 0 THEN 1 ELSE Times(DOMAIN typed))
             /\ fresh /\ k \in HistFile!Range(kept) =>
                  held >= (IF at = 0 THEN 1 ELSE Times(HistFile!Range(kept)))
  <2> DEFINE cmd == typed[k].cmd  at == typed[k].at
             R == {r \in stored : r.cmd = cmd /\ r.at = at}
             Same(S) == {i \in S : typed[i] = HistFile!Entry(cmd, at)}
             T == Same(DOMAIN typed)  K == Same(Gone + 1 .. l)
  <2>1. /\ Cardinality(R) <= IF at = 0 THEN 1 ELSE Cardinality(T)
        /\ fresh /\ k \in Gone + 1 .. l =>
             Cardinality(R) >= IF at = 0 THEN 1 ELSE Cardinality(K)
    BY <1>4
  <2>2. Same(HistFile!Range(kept)) = K
    BY <1>2
  <2>3. /\ HistFile!Cardinality(R) = Cardinality(R)
        /\ HistFile!Cardinality(T) = Cardinality(T)
        /\ HistFile!Cardinality(Same(HistFile!Range(kept))) = Cardinality(K)
    <3> HIDE DEF R, T, K, Same
    <3>1. QED BY <1>3, <2>2
  <2> HIDE DEF R, Same, at, cmd
  <2>4. /\ HistFile!Cardinality(R) <= (IF at = 0 THEN 1 ELSE HistFile!Cardinality(T))
        /\ fresh /\ k \in HistFile!Range(kept) =>
             HistFile!Cardinality(R) >= (IF at = 0 THEN 1 ELSE HistFile!Cardinality(Same(HistFile!Range(kept))))
    <3> HIDE DEF T, K
    <3>1. QED BY <1>2, <2>1, <2>3
  <2>5. QED BY <2>4 DEF R, T, Same, at, cmd
<1>6. QED BY <1>5 DEF HistFile!ImportedOnce, HistFile!Unknown

\* However often the history file is imported, and however the shell trims it between two
\* seconds, an entry has one row (importcmd.go, hist.go, histimport.go), as long as what the
\* shell wrote is read back (ParsedBack) and there are not more entries in a second than
\* the counter of seqFor can tell (histimport.go:42). A trim within a second is hist_trim's.
THEOREM ImportedOnceHolds ==
  ~WithinSecond /\ MaxEntries \in 0 .. 1000 => (SpecReaders /\ []ParsedBack => []ImportedOnce)
<1> SUFFICES ASSUME ~WithinSecond, MaxEntries \in 0 .. 1000
             PROVE  SpecReaders /\ []ParsedBack => []ImportedOnce
  OBVIOUS
<1>1. InitReaders => HistInv
  BY HistInit DEF InitReaders
<1>2. ParsedBack /\ HistInv /\ [NextReaders]_varsReaders => HistInv'
  BY HistInvNext
<1>3. HistInv => ImportedOnce
  BY RowsCounted DEF ImportedOnce
<1>4. QED BY <1>1, <1>2, <1>3, PTL DEF SpecReaders
=============================================================================
