-------------------------------- MODULE Diff --------------------------------
(***************************************************************************)
(* `backscroll diff` (internal/diff): Myers' O(ND) search over two outputs *)
(* split into lines, its backtracking, and the hunks of the unified form.  *)
(* A line is a model value or a number; a missing last newline has been    *)
(* dealt with.                                                             *)
(***************************************************************************)
EXTENDS Integers, SequencesExt

\* How far the two go on alike from x in a and y in b (both 0-based).
Snake(a, b, x, y) ==
  LET S[i \in 0..Len(a) + Len(b)] ==
        IF x + i < Len(a) /\ y + i < Len(b) /\ a[x + i + 1] = b[y + i + 1] THEN S[i + 1] ELSE i
  IN  S[0]

\* Mutant: of two diagonals as far as each other it takes the wrong one.
DownOnTie(v, step, k) == k = -step \/ (k # step /\ v[k - 1] <= v[k + 1])

\* Whether diagonal k is entered downwards, by an insertion, in a step.
Down(v, step, k) == k = -step \/ (k # step /\ v[k - 1] < v[k + 1])

\* v after each step: the furthest x on every diagonal; step -1 is the start.
Furthest(a, b) ==
  LET max == Len(a) + Len(b)
      V[d \in -1..max] ==
        IF d = -1 THEN [k \in -max - 1..max + 1 |-> 0]
        ELSE LET v == V[d - 1] IN
             [k \in DOMAIN v |->
                IF k \in -d..d /\ (k + d) % 2 = 0
                  THEN LET x == IF Down(v, d, k) THEN v[k + 1] ELSE v[k - 1] + 1
                       IN  x + Snake(a, b, x, x - k)
                  ELSE v[k]]
  IN  V

Reached(a, b, v, d) ==
  \E k \in -d..d : (k + d) % 2 = 0 /\ v[k] >= Len(a) /\ v[k] - k >= Len(b)

Op(kind, line) == [kind |-> kind, line |-> line]
Keep(a, from, to) == [i \in 1..to - from |-> Op("=", a[from + i])]

\* The operations, from the end of both back to their beginning.
Lines(a, b) ==
  LET V == Furthest(a, b)
      D == CHOOSE d \in 0..Len(a) + Len(b) :
             Reached(a, b, V[d], d) /\ \A e \in 0..d - 1 : ~Reached(a, b, V[e], e)
      Back[step \in 0..D, x \in 0..Len(a), y \in 0..Len(b)] ==
        IF step = 0 THEN Keep(a, 0, x)
        ELSE LET v  == V[step - 1]
                 k  == x - y
                 down == Down(v, step, k)
                 pk == IF down THEN k + 1 ELSE k - 1
                 px == v[pk]
                 py == px - pk
                 sx == IF down THEN px ELSE px + 1  \* where the snake began
             IN  Back[step - 1, px, py]
                 \o <<IF down THEN Op("+", b[py + 1]) ELSE Op("-", a[px + 1])>>
                 \o Keep(a, sx, x)
  IN  Back[D, Len(a), Len(b)]

-----------------------------------------------------------------------------
Changed(ops) == {i \in DOMAIN ops : ops[i].kind # "="}

\* Where a hunk that begins with the change i stops growing: no more than
\* 2*context equal lines lie between two of its changes.
LastOf(ops, context, i) ==
  LET L[j \in DOMAIN ops] ==
        LET next == {n \in Changed(ops) : n > j /\ n <= j + 2 * context + 1}
        IN  IF next = {} THEN j ELSE L[CHOOSE n \in next : \A m \in next : n <= m]
  IN  L[i]

\* Unified: the hunks, as ranges of operations.
Hunks(ops, context) ==
  LET H[from \in 1..Len(ops) + 1] ==
        LET left == {i \in Changed(ops) : i >= from}
        IN  IF left = {} THEN <<>>
            ELSE LET i   == CHOOSE i \in left : \A m \in left : i <= m
                     s   == IF i > context THEN i - context ELSE 1
                     end == LastOf(ops, context, i) + context
                     e   == IF end > Len(ops) THEN Len(ops) ELSE end
                 IN  <<[from |-> s, to |-> e]>> \o H[e + 1]
  IN  H[1]

Count(ops, from, to, kinds) ==
  FoldLeft(LAMBDA n, o : IF o.kind \in kinds THEN n + 1 ELSE n, 0, SubSeq(ops, from, to))

\* The header of a hunk: the line it begins at in each text, how many it spans.
Header(ops, h) ==
  [aStart |-> 1 + Count(ops, 1, h.from - 1, {"=", "-"}),
   aCount |-> Count(ops, h.from, h.to, {"=", "-"}),
   bStart |-> 1 + Count(ops, 1, h.from - 1, {"=", "+"}),
   bCount |-> Count(ops, h.from, h.to, {"=", "+"})]

-----------------------------------------------------------------------------
Side(ops, kinds) ==
  FoldLeft(LAMBDA s, o : IF o.kind \in kinds THEN Append(s, o.line) ELSE s, <<>>, ops)

\* The length of a longest common subsequence, by the textbook recurrence.
Common(a, b) ==
  LET C[i \in 0..Len(a), j \in 0..Len(b)] ==
        IF i = 0 \/ j = 0 THEN 0
        ELSE IF a[i] = b[j] THEN C[i - 1, j - 1] + 1
        ELSE IF C[i - 1, j] > C[i, j - 1] THEN C[i - 1, j] ELSE C[i, j - 1]
  IN  C[Len(a), Len(b)]

\* The operations turn a into b, and none is wasted: there are as few changes
\* as a longest common subsequence allows ("a minimal Myers line diff",
\* diff.go:1).
Minimal(a, b) ==
  LET ops == Lines(a, b) IN
  /\ Side(ops, {"=", "-"}) = a /\ Side(ops, {"=", "+"}) = b
  /\ Cardinality(Changed(ops)) = Len(a) + Len(b) - 2 * Common(a, b)

\* A text with pieces replaced, in order, as `patch` reads a unified diff: `len`
\* lines from line `at` on, or nothing, after line `at`; it takes no piece that
\* begins before the last one ended or ends after the text.
Splice(text, pieces) ==
  LET S[i \in 1..Len(pieces) + 1, from \in 1..Len(text) + 1] ==
        IF i > Len(pieces) THEN SubSeq(text, from, Len(text))
        ELSE LET q    == pieces[i]
                 at   == IF q.len = 0 THEN q.at + 1 ELSE q.at
                 next == at + q.len
             IN  IF at < from \/ next > Len(text) + 1 THEN <<"rejected">>
                 ELSE SubSeq(text, from, at - 1) \o q.put \o S[i + 1, next]
  IN  S[1, 1]

\* The hunks are a patch that makes b of a and, reversed, a of b: each begins
\* and ends where its header says; they do not overlap, miss no change and
\* show the context asked for.
Patches(a, b, context) ==
  LET ops == Lines(a, b)
      hs  == Hunks(ops, context)
      Put(h, kinds) == Side(SubSeq(ops, h.from, h.to), kinds)
      ab == [i \in DOMAIN hs |-> LET h == Header(ops, hs[i]) IN
               [at |-> h.aStart, len |-> h.aCount, put |-> Put(hs[i], {"=", "+"})]]
      ba == [i \in DOMAIN hs |-> LET h == Header(ops, hs[i]) IN
               [at |-> h.bStart, len |-> h.bCount, put |-> Put(hs[i], {"=", "-"})]]
  IN  /\ Splice(a, ab) = b /\ Splice(b, ba) = a
      /\ \A i, j \in DOMAIN hs : i < j => hs[i].to < hs[j].from
      /\ \A c \in Changed(ops) : \E i \in DOMAIN hs :
           (c - context..c + context) \cap DOMAIN ops \subseteq hs[i].from..hs[i].to
=============================================================================
