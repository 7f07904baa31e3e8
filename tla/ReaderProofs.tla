---------------------------- MODULE ReaderProofs ----------------------------
(***************************************************************************)
(* Proofs about the parts of MCReaders but those about text. Timeline's are*)
(* for any number of rows, times and texts: its order ranks every set of   *)
(* rows without gaps, and everything else is said in terms of ranks. Those *)
(* about the algorithms are for an input of any length: that the inputs of *)
(* a part are made of its tokens is an invariant, and the rest is said of  *)
(* every sequence of tokens.                                               *)
(***************************************************************************)
EXTENDS MCReaders, FoldLemmas, SequenceTheorems, FiniteSetTheorems

Row == [machine : {"local", "hist:bash", "far"}, foot : Nat, at : Nat,
        cmd : Cmds, note : Cmds \cup {NoNote}]

RowsOK == DOMAIN rows \in SUBSET (1 .. MaxId) /\ rows \in [DOMAIN rows -> Row]

-----------------------------------------------------------------------------
(***************************************************************************)
(* Ranks.                                                                  *)
(***************************************************************************)

\* How many of a set are newer.
Rank(ids, i) == Cardinality({j \in ids : Newer(rows, j, i)})

LEMMA Finite ==
  ASSUME RowsOK, NEW ids \in SUBSET DOMAIN rows
  PROVE  /\ IsFiniteSet(ids) /\ Cardinality(ids) \in Nat /\ Cardinality(ids) <= MaxId
         /\ \A S \in SUBSET ids : IsFiniteSet(S) /\ Cardinality(S) \in Nat
                                  /\ Cardinality(S) <= Cardinality(ids)
<1>1. IsFiniteSet(1 .. MaxId) /\ Cardinality(1 .. MaxId) = MaxId
  BY FS_Interval, TimelineAssumption
<1>2. ids \in SUBSET (1 .. MaxId)
  BY DEF RowsOK
<1>3. IsFiniteSet(ids) /\ Cardinality(ids) <= MaxId
  BY <1>1, <1>2, FS_Subset
<1>4. QED BY <1>3, FS_Subset, FS_CardinalityType

\* Start and id order the rows strictly and totally.
LEMMA TotalOrder ==
  ASSUME RowsOK
  PROVE  /\ \A i \in DOMAIN rows : ~Newer(rows, i, i)
         /\ \A i, j \in DOMAIN rows : i # j => Newer(rows, i, j) \/ Newer(rows, j, i)
         /\ \A i, j \in DOMAIN rows : Newer(rows, i, j) => ~Newer(rows, j, i)
         /\ \A i, j, k \in DOMAIN rows : Newer(rows, i, j) /\ Newer(rows, j, k) => Newer(rows, i, k)
<1>1. \A i \in DOMAIN rows : i \in Int /\ rows[i].at \in Int
  BY DEF RowsOK, Row
<1>2. QED BY <1>1 DEF Newer

LEMMA RankOrders ==
  ASSUME RowsOK, NEW ids \in SUBSET DOMAIN rows, NEW i \in ids, NEW j \in ids
  PROVE  /\ Rank(ids, i) \in 0 .. Cardinality(ids) - 1
         /\ Newer(rows, i, j) => Rank(ids, i) < Rank(ids, j)
         /\ Rank(ids, i) = Rank(ids, j) => i = j
<1> DEFINE Before(k) == {m \in ids : Newer(rows, m, k)}
<1>1. \A k \in ids : Before(k) \in SUBSET ids /\ k \notin Before(k)
  BY TotalOrder
<1>2. \A k \in ids : IsFiniteSet(Before(k)) /\ Cardinality(Before(k)) \in Nat
  BY <1>1, Finite
<1>3. IsFiniteSet(ids) /\ Cardinality(ids) \in Nat
  BY Finite
<1>4. \A k \in ids, m \in ids : Newer(rows, k, m) => Cardinality(Before(k)) < Cardinality(Before(m))
  <2>1. SUFFICES ASSUME NEW k \in ids, NEW m \in ids, Newer(rows, k, m)
                 PROVE  Cardinality(Before(k)) < Cardinality(Before(m))
    OBVIOUS
  <2>2. Before(k) \cup {k} \in SUBSET Before(m)
    BY <2>1, TotalOrder
  <2> HIDE DEF Before
  <2>3. Cardinality(Before(k) \cup {k}) = Cardinality(Before(k)) + 1
    BY <1>1, <1>2, FS_AddElement
  <2>4. Cardinality(Before(k) \cup {k}) <= Cardinality(Before(m))
    BY <1>2, <2>2, FS_Subset
  <2>5. QED BY <1>2, <2>3, <2>4
<1>5. Cardinality(Before(i)) < Cardinality(ids)
  <2>1. Before(i) \in SUBSET (ids \ {i})
    BY <1>1
  <2> HIDE DEF Before
  <2>2. IsFiniteSet(ids \ {i}) /\ Cardinality(ids \ {i}) = Cardinality(ids) - 1
    BY <1>3, FS_RemoveElement
  <2>3. Cardinality(Before(i)) <= Cardinality(ids \ {i})
    BY <2>1, <2>2, FS_Subset
  <2>4. QED BY <1>2, <1>3, <2>2, <2>3
<1>6. \A k \in ids : Rank(ids, k) = Cardinality(Before(k))
  BY DEF Rank
<1>7. i # j => Newer(rows, i, j) \/ Newer(rows, j, i)
  BY TotalOrder
<1> HIDE DEF Before
<1>8. QED BY <1>2, <1>3, <1>4, <1>5, <1>6, <1>7

\* Every rank is taken: what Newest chooses exists.
LEMMA NoRankMissing ==
  ASSUME RowsOK, NEW ids \in SUBSET DOMAIN rows, NEW k \in 1 .. Cardinality(ids)
  PROVE  \E i \in ids : Rank(ids, i) = k - 1
<1> DEFINE n == Cardinality(ids)
           T == 0 .. n - 1
           rank == [i \in ids |-> Rank(ids, i)]
<1>1. IsFiniteSet(ids) /\ n \in Nat
  BY Finite
<1>2. \A i \in ids : Rank(ids, i) \in T
  BY RankOrders
<1>3. \A i, j \in ids : Rank(ids, i) = Rank(ids, j) => i = j
  BY RankOrders
<1>4. IsFiniteSet(T) /\ Cardinality(T) = n
  <2> HIDE DEF n
  <2>1. n - 1 \in Int
    BY <1>1
  <2>2. /\ IsFiniteSet(0 .. n - 1)
        /\ Cardinality(0 .. n - 1) = IF 0 > n - 1 THEN 0 ELSE (n - 1) - 0 + 1
    BY <2>1, FS_Interval
  <2>3. QED BY <1>1, <2>2
<1>5. rank \in Injection(ids, T)
  BY <1>2, <1>3 DEF Injection, IsInjective
<1> HIDE DEF rank
<1>6. rank \in Surjection(ids, T)
  BY <1>4, <1>5, FS_Injection
<1>7. \A m \in T : \E i \in ids : rank[i] = m
  BY <1>6 DEF Surjection
<1>8. QED BY <1>1, <1>7 DEF rank

LEMMA NewestRanks ==
  ASSUME RowsOK, NEW ids \in SUBSET DOMAIN rows
  PROVE  /\ Newest(ids) \in Seq(ids) /\ Len(Newest(ids)) = Cardinality(ids)
         /\ \A k \in 1 .. Cardinality(ids) : Newest(ids)[k] \in ids /\ Rank(ids, Newest(ids)[k]) = k - 1
         /\ \A k \in 1 .. Cardinality(ids), i \in ids : Rank(ids, i) = k - 1 => Newest(ids)[k] = i
         /\ \A i \in ids : \E k \in 1 .. Cardinality(ids) : k = Rank(ids, i) + 1 /\ Newest(ids)[k] = i
<1> DEFINE n == Cardinality(ids)
           Nth(k) == CHOOSE i \in ids : Rank(ids, i) = k - 1
<1>1. n \in Nat
  BY Finite
<1>2. \A k \in 1 .. n : Nth(k) \in ids /\ Rank(ids, Nth(k)) = k - 1
  BY NoRankMissing
<1>3. Newest(ids) = [k \in 1 .. n |-> Nth(k)]
  BY DEF Newest, Rank
<1> HIDE DEF Nth, n
<1>4. \A k \in 1 .. n : Newest(ids)[k] = Nth(k)
  BY <1>3
<1>5. Newest(ids) \in Seq(ids) /\ Len(Newest(ids)) = n
  BY <1>1, <1>2, <1>3
<1>6. \A k \in 1 .. n, i \in ids : Rank(ids, i) = k - 1 => Newest(ids)[k] = i
  BY <1>2, <1>4, RankOrders
<1>7. \A i \in ids : \E k \in 1 .. n : k = Rank(ids, i) + 1 /\ Newest(ids)[k] = i
  <2>1. TAKE i \in ids
  <2>2. Rank(ids, i) \in 0 .. n - 1
    BY RankOrders DEF n
  <2> DEFINE k == Rank(ids, i) + 1
  <2>3. k \in 1 .. n /\ Rank(ids, i) = k - 1
    BY <1>1, <2>2
  <2> HIDE DEF k
  <2>4. Newest(ids)[k] = i
    BY <1>6, <2>3
  <2>5. k = Rank(ids, i) + 1
    BY DEF k
  <2>6. QED BY <2>3, <2>4, <2>5
<1>8. QED BY <1>2, <1>4, <1>5, <1>6, <1>7 DEF n

-----------------------------------------------------------------------------
(***************************************************************************)
(* What comes first.                                                       *)
(***************************************************************************)

LEMMA TopIs ==
  ASSUME NEW S, NEW q \in Seq(S), NEW limit \in Nat
  PROVE  /\ Top(q, limit) \in Seq(S)
         /\ Len(Top(q, limit)) = IF limit < Len(q) THEN limit ELSE Len(q)
         /\ \A k \in 1 .. Len(Top(q, limit)) : Top(q, limit)[k] = q[k]
         /\ limit >= Len(q) => Top(q, limit) = q
BY DEF Top

LEMMA SameSeq ==
  ASSUME NEW S, NEW p \in Seq(S), NEW q \in Seq(S), Len(p) = Len(q),
         \A k \in 1 .. Len(p) : p[k] = q[k]
  PROVE  p = q
OBVIOUS

\* The first so many of a set are those of a part of it that has all of its
\* first so many.
LEMMA TopSame ==
  ASSUME RowsOK, NEW M \in SUBSET DOMAIN rows, NEW T \in SUBSET M, NEW limit \in Nat,
         \A i \in M : Rank(M, i) < limit => i \in T
  PROVE  Top(Newest(T), limit) = Top(Newest(M), limit)
<1> DEFINE m == Cardinality(M)  u == Cardinality(T)
<1>1. /\ T \in SUBSET DOMAIN rows /\ m \in Nat /\ u \in Nat /\ u <= m
      /\ IsFiniteSet(M) /\ IsFiniteSet(T)
  BY Finite
<1>2. \A i \in M : Rank(M, i) < limit => i \in T /\ Rank(T, i) = Rank(M, i)
  <2>1. SUFFICES ASSUME NEW i \in M, Rank(M, i) < limit
                 PROVE  Rank(T, i) = Rank(M, i)
    OBVIOUS
  <2>2. \A j \in M : Newer(rows, j, i) => j \in T
    <3>1. SUFFICES ASSUME NEW j \in M, Newer(rows, j, i) PROVE j \in T
      OBVIOUS
    <3>2. /\ Rank(M, j) < Rank(M, i)
          /\ Rank(M, j) \in 0 .. Cardinality(M) - 1 /\ Rank(M, i) \in 0 .. Cardinality(M) - 1
      BY <3>1, RankOrders
    <3>3. Rank(M, j) < limit
      BY <1>1, <2>1, <3>2
    <3>4. QED BY <3>3
  <2>3. {j \in T : Newer(rows, j, i)} = {j \in M : Newer(rows, j, i)}
    BY <2>2
  <2>4. QED BY <2>3 DEF Rank
<1>3. \A k \in 1 .. m : k <= limit => k <= u /\ Newest(T)[k] = Newest(M)[k]
  <2>1. SUFFICES ASSUME NEW k \in 1 .. m, k <= limit
                 PROVE  k <= u /\ Newest(T)[k] = Newest(M)[k]
    OBVIOUS
  <2> DEFINE i == Newest(M)[k]
  <2>2. i \in M /\ Rank(M, i) = k - 1
    BY NewestRanks
  <2> HIDE DEF i
  <2>3. i \in T /\ Rank(T, i) = k - 1
    BY <1>1, <1>2, <2>1, <2>2
  <2>4. Rank(T, i) \in 0 .. u - 1
    BY <1>1, <2>3, RankOrders
  <2>5. k \in 1 .. u
    BY <1>1, <2>3, <2>4
  <2>6. Newest(T)[k] = i
    BY <1>1, <2>3, <2>5, NewestRanks
  <2>7. QED BY <2>5, <2>6 DEF i
<1>4. (u < limit => u = m) /\ (m < limit => u = m)
  <2>1. CASE m < limit
    <3>1. \A i \in M : Rank(M, i) < limit
      BY <1>1, <2>1, RankOrders
    <3>2. QED BY <3>1
  <2>2. CASE limit <= m
    <3>1. limit <= u
      BY <1>1, <1>3, <2>2
    <3>2. QED BY <1>1, <2>2, <3>1
  <2>3. QED BY <1>1, <2>1, <2>2
<1>5. /\ Newest(T) \in Seq(DOMAIN rows) /\ Len(Newest(T)) = u
      /\ Newest(M) \in Seq(DOMAIN rows) /\ Len(Newest(M)) = m
  <2>1. \A S, D : S \subseteq D => \A q \in Seq(S) : q \in Seq(D)
    OBVIOUS
  <2>2. /\ Newest(T) \in Seq(T) /\ Len(Newest(T)) = u
        /\ Newest(M) \in Seq(M) /\ Len(Newest(M)) = m
    BY <1>1, NewestRanks
  <2>3. T \subseteq DOMAIN rows /\ M \subseteq DOMAIN rows
    BY <1>1
  <2> HIDE DEF m, u
  <2>4. QED BY <2>1, <2>2, <2>3
<1> DEFINE p == Top(Newest(T), limit)  q == Top(Newest(M), limit)
<1> HIDE DEF m, u
<1>6. /\ p \in Seq(DOMAIN rows) /\ Len(p) = (IF limit < u THEN limit ELSE u)
      /\ \A k \in 1 .. Len(p) : p[k] = Newest(T)[k]
  BY <1>5, TopIs
<1>7. /\ q \in Seq(DOMAIN rows) /\ Len(q) = (IF limit < m THEN limit ELSE m)
      /\ \A k \in 1 .. Len(q) : q[k] = Newest(M)[k]
  BY <1>5, TopIs
<1> HIDE DEF p, q
<1>8. Len(p) = Len(q)
  BY <1>1, <1>4, <1>6, <1>7
<1>9. \A k \in 1 .. Len(p) : p[k] = q[k]
  BY <1>1, <1>3, <1>6, <1>7, <1>8
<1>10. p = q
  BY <1>6, <1>7, <1>8, <1>9, SameSeq
<1>11. QED BY <1>10 DEF p, q

\* What is in the first so many.
LEMMA InTop ==
  ASSUME RowsOK, NEW ids \in SUBSET DOMAIN rows, NEW limit \in Nat
  PROVE  /\ ToSet(Top(Newest(ids), limit)) \in SUBSET ids
         /\ \A i \in ids : Rank(ids, i) < limit => i \in ToSet(Top(Newest(ids), limit))
<1> DEFINE n == Cardinality(ids)  q == Newest(ids)  p == Top(q, limit)
<1>1. /\ q \in Seq(ids) /\ Len(q) = n /\ n \in Nat
      /\ \A i \in ids : \E k \in 1 .. n : k = Rank(ids, i) + 1 /\ q[k] = i
  BY NewestRanks, Finite
<1>2. \A i \in ids : Rank(ids, i) \in 0 .. n - 1
  BY RankOrders
<1> HIDE DEF q, n
<1>3. /\ p \in Seq(ids) /\ Len(p) = (IF limit < n THEN limit ELSE n)
      /\ \A k \in 1 .. Len(p) : p[k] = q[k]
  BY <1>1, TopIs
<1> HIDE DEF p
<1>4. DOMAIN p = 1 .. Len(p) /\ \A k \in 1 .. Len(p) : p[k] \in ids
  BY <1>3
<1>5. \A i \in ids : Rank(ids, i) < limit => i \in ToSet(p)
  <2>1. SUFFICES ASSUME NEW i \in ids, Rank(ids, i) < limit PROVE i \in ToSet(p)
    OBVIOUS
  <2>2. PICK k \in 1 .. n : k = Rank(ids, i) + 1 /\ q[k] = i
    BY <1>1
  <2>3. k \in 1 .. Len(p)
    BY <1>1, <1>2, <1>3, <2>1, <2>2
  <2>4. QED BY <1>3, <1>4, <2>2, <2>3 DEF ToSet
<1>6. ToSet(p) \in SUBSET ids
  BY <1>4 DEF ToSet
<1>7. QED BY <1>5, <1>6 DEF p, q

LEMMA RankGrows ==
  ASSUME RowsOK, NEW ids \in SUBSET DOMAIN rows, NEW part \in SUBSET ids, NEW i \in part,
         NEW limit \in Nat, Rank(ids, i) < limit
  PROVE  Rank(part, i) < limit
<1> DEFINE B == {j \in part : Newer(rows, j, i)}  A == {j \in ids : Newer(rows, j, i)}
<1>1. B \in SUBSET A /\ A \in SUBSET ids
  OBVIOUS
<1>2. A \in SUBSET DOMAIN rows /\ B \in SUBSET DOMAIN rows
  BY <1>1
<1> HIDE DEF A, B
<1>3. Cardinality(A) \in Nat /\ Cardinality(B) \in Nat /\ Cardinality(B) <= Cardinality(A)
  BY <1>1, <1>2, Finite
<1>4. Cardinality(A) < limit
  BY DEF Rank, A
<1>5. Cardinality(B) < limit
  BY <1>3, <1>4
<1>6. QED BY <1>5 DEF Rank, B

\* Search merges what the index gives with what the notes add.
LEMMA SearchMerges ==
  ASSUME RowsOK, NEW q, NEW f \in Filters
  PROVE  Search(q, f) = Top(Newest({i \in Where(f) : Matches(q, i)}), Limit(f))
<1> DEFINE H == {i \in Where(f) : rows[i].cmd = q}
           N == {i \in Where(f) : rows[i].note = q}
           M == {i \in Where(f) : Matches(q, i)}
           limit == Limit(f)
           hits == Top(Newest(H), limit)
           notes == Top(Newest(N), limit)
           added == ToSet(notes) \ ToSet(hits)
<1>1. /\ H \in SUBSET DOMAIN rows /\ N \in SUBSET DOMAIN rows /\ M \in SUBSET DOMAIN rows
      /\ H \cup N = M /\ H \in SUBSET M /\ N \in SUBSET M
  BY DEF Where, Matches
<1>2. limit \in Nat
  <2>1. f.limit \in 0 .. 2
    BY DEF Filters
  <2>2. QED BY ONLY <2>1 DEF Limit
<1>3. Search(q, f) = IF added = {} THEN hits
                     ELSE Top(Newest(ToSet(hits) \cup added), limit)
  BY DEF Search, Notes
<1> HIDE DEF H, N, M, limit
<1>4. /\ ToSet(hits) \in SUBSET H /\ \A i \in H : Rank(H, i) < limit => i \in ToSet(hits)
      /\ ToSet(notes) \in SUBSET N /\ \A i \in N : Rank(N, i) < limit => i \in ToSet(notes)
  BY <1>1, <1>2, InTop
<1>5. \A i \in M : Rank(M, i) < limit => i \in ToSet(hits) \cup ToSet(notes)
  <2>1. SUFFICES ASSUME NEW i \in M, Rank(M, i) < limit
                 PROVE  i \in ToSet(hits) \cup ToSet(notes)
    OBVIOUS
  <2>2. CASE i \in H
    BY <1>1, <1>2, <1>4, <2>1, <2>2, RankGrows
  <2>3. CASE i \in N
    BY <1>1, <1>2, <1>4, <2>1, <2>3, RankGrows
  <2>4. QED BY <1>1, <2>2, <2>3
<1> HIDE DEF hits, notes
<1>6. CASE added = {}
  <2>1. \A i \in M : Rank(M, i) < limit => i \in H
    BY <1>4, <1>5, <1>6
  <2>2. Top(Newest(H), limit) = Top(Newest(M), limit)
    BY <1>1, <1>2, <2>1, TopSame
  <2>3. QED BY <1>3, <1>6, <2>2 DEF hits, M, limit
<1>7. CASE added # {}
  <2> DEFINE T == ToSet(hits) \cup added
  <2>1. T = ToSet(hits) \cup ToSet(notes) /\ T \in SUBSET M
    BY <1>1, <1>4
  <2> HIDE DEF T
  <2>2. Top(Newest(T), limit) = Top(Newest(M), limit)
    BY <1>1, <1>2, <1>5, <2>1, TopSame
  <2>3. QED BY <1>3, <1>7, <2>2 DEF T, M, limit
<1>8. QED BY <1>6, <1>7

-----------------------------------------------------------------------------
(***************************************************************************)
(* The invariant: rows have numbers and times, and what PruneToSize is to  *)
(* cut up to is a time and an id.                                          *)
(***************************************************************************)
TimelineInv ==
  /\ RowsOK
  /\ phase = "picked" => last.at \in Nat /\ last.id \in Nat

LEMMA Fewer ==
  ASSUME RowsOK, NEW ids, rows' = Without(ids)
  PROVE  RowsOK'
BY DEF RowsOK, Without

\* A set of numbers that is not empty has a least one.
LEMMA Least ==
  ASSUME NEW S, S \subseteq Nat, S # {}
  PROVE  \E x \in S : \A y \in S : x <= y
<1> DEFINE Less == {ss \in Nat \X Nat : ss[1] < ss[2]}
<1>1. IsWellFoundedOn(Less, Nat)
  BY NatLessThanWellFounded DEF OpToRel, Less
<1>2. \A m, n \in Nat : ~(<<m, n>> \in Less) => n <= m
  OBVIOUS
<1> HIDE DEF Less
<1>3. PICK x \in S : \A y \in S : ~(<<y, x>> \in Less)
  BY <1>1, WFMin
<1>4. QED BY <1>2, <1>3

LEMMA NextIdIs ==
  ASSUME RowsOK
  PROVE  NextId \in Nat \ {0} /\ NextId \notin DOMAIN rows
<1>1. CASE DOMAIN rows = {}
  BY <1>1 DEF NextId
<1>2. CASE DOMAIN rows # {}
  <2>1. DOMAIN rows \in SUBSET DOMAIN rows
    OBVIOUS
  <2>2. \E i \in DOMAIN rows : \A j \in DOMAIN rows : i >= j
    <3> DEFINE up == {MaxId - i : i \in DOMAIN rows}
    <3>1. MaxId \in Nat /\ \A i \in DOMAIN rows : i \in Nat /\ MaxId - i \in Nat
      BY TimelineAssumption DEF RowsOK
    <3>2. up \subseteq Nat /\ up # {}
      BY <1>2, <3>1
    <3>3. PICK x \in up : \A y \in up : x <= y
      <4> HIDE DEF up
      <4>1. QED BY <3>2, Least
    <3>4. PICK i \in DOMAIN rows : x = MaxId - i
      OBVIOUS
    <3>5. \A j \in DOMAIN rows : MaxId - i <= MaxId - j
      BY <3>3, <3>4
    <3>6. QED BY <3>1, <3>5
  <2>3. NextId = (CHOOSE i \in DOMAIN rows : \A j \in DOMAIN rows : i >= j) + 1
    BY <1>2 DEF NextId, Max
  <2>4. PICK i \in DOMAIN rows : NextId = i + 1 /\ \A j \in DOMAIN rows : i >= j
    BY <2>2, <2>3
  <2>5. \A j \in DOMAIN rows : j \in Nat
    BY DEF RowsOK
  <2>6. QED BY <2>4, <2>5
<1>3. QED BY <1>1, <1>2

LEMMA InsertKeeps ==
  ASSUME TimelineInv, NEW from \in {Local} \cup Imports, NEW at \in 0 .. MaxAt, NEW cmd \in Cmds,
         Insert(from, at, cmd)
  PROVE  TimelineInv'
<1> DEFINE new == [machine |-> from.machine, foot |-> from.foot, at |-> at, cmd |-> cmd, note |-> NoNote]
<1>1. from.machine \in {"local", "hist:bash", "far"} /\ from.foot \in Nat
  BY DEF Local, Imports
<1>2. new \in Row
  BY <1>1, TimelineAssumption DEF Row
<1>3. NextId \in 1 .. MaxId
  BY NextIdIs, TimelineAssumption DEF TimelineInv, Insert
<1>4. rows' = [i \in DOMAIN rows \cup {NextId} |-> IF i = NextId THEN new ELSE rows[i]]
      /\ UNCHANGED pruneVars
  BY DEF Insert
<1> HIDE DEF new
<1>5. RowsOK'
  BY <1>2, <1>3, <1>4 DEF TimelineInv, RowsOK
<1>6. QED BY <1>4, <1>5 DEF TimelineInv, pruneVars

LEMMA TimelineInit == Init => TimelineInv
<1>1. SUFFICES ASSUME Init PROVE TimelineInv
  OBVIOUS
<1>2. DOMAIN rows = {} /\ rows \in [{} -> Row]
  BY <1>1 DEF Init
<1>3. QED BY <1>1, <1>2 DEF TimelineInv, RowsOK, Init

LEMMA PickKeeps ==
  ASSUME TimelineInv, Pick
  PROVE  TimelineInv'
<1> DEFINE ids == DOMAIN rows
           oldest == Reverse(Newest(ids))
           covers == {k \in DOMAIN oldest : k * Payload * size >= (size - maxBytes) * payloadSum}
           k == IF covers = {} THEN Len(oldest) ELSE Min(covers)
<1>1. UNCHANGED rows
  BY DEF Pick
<1>2. RowsOK'
  BY <1>1 DEF TimelineInv, RowsOK
<1>3. CASE oldest = <<>>
  BY <1>2, <1>3 DEF Pick, Return, TimelineInv
<1>4. CASE oldest # <<>>
  <2>1. Newest(ids) \in Seq(ids)
    BY NewestRanks DEF TimelineInv
  <2>2. oldest \in Seq(ids) /\ Len(oldest) \in Nat /\ DOMAIN oldest = 1 .. Len(oldest)
    <3> HIDE DEF ids
    <3>1. QED BY <2>1 DEF Reverse
  <2>3. last' = [at |-> rows[oldest[k]].at, id |-> oldest[k]] /\ phase' = "picked"
    BY <1>4 DEF Pick
  <2> HIDE DEF ids, oldest
  <2>4. covers \subseteq 1 .. Len(oldest)
    BY <2>2
  <2> HIDE DEF covers
  <2>5. Len(oldest) \in 1 .. Len(oldest)
    BY <1>4, <2>2
  <2>6. covers # {} => Min(covers) \in covers
    <3>1. SUFFICES ASSUME covers # {} PROVE Min(covers) \in covers
      OBVIOUS
    <3>2. covers \subseteq Nat
      BY <2>2, <2>4
    <3>3. \E x \in covers : \A y \in covers : x <= y
      BY <3>1, <3>2, Least
    <3>4. QED BY <3>3 DEF Min
  <2>7. k \in 1 .. Len(oldest)
    BY <2>4, <2>5, <2>6
  <2> HIDE DEF k
  <2>8. oldest[k] \in DOMAIN rows
    BY <2>2, <2>7 DEF ids
  <2>9. rows[oldest[k]].at \in Nat /\ oldest[k] \in Nat
    BY <2>8 DEF TimelineInv, RowsOK, Row
  <2>10. QED BY <1>2, <2>3, <2>9 DEF TimelineInv
<1>5. QED BY <1>3, <1>4

LEMMA TimelineNext == TimelineInv /\ [Next]_vars => TimelineInv'
<1>1. SUFFICES ASSUME TimelineInv, [Next]_vars PROVE TimelineInv'
  OBVIOUS
<1>2. CASE AddCommand
  <2>1. PICK at \in 1 .. MaxAt, cmd \in Cmds : Insert(Local, at, cmd)
    BY <1>2 DEF AddCommand
  <2>2. at \in 0 .. MaxAt /\ Local \in {Local} \cup Imports
    BY TimelineAssumption
  <2>3. QED BY <1>1, <2>1, <2>2, InsertKeeps
<1>3. CASE Import
  <2>1. PICK from \in Imports, at \in 0 .. MaxAt, cmd \in Cmds : Insert(from, at, cmd)
    BY <1>3 DEF Import
  <2>2. QED BY <1>1, <2>1, InsertKeeps
<1>4. CASE SetNote
  <2>1. PICK i \in DOMAIN rows, note \in Cmds \cup {NoNote} :
          rows' = [rows EXCEPT ![i].note = note] /\ UNCHANGED pruneVars
    BY <1>4 DEF SetNote
  <2>2. [rows[i] EXCEPT !.note = note] \in Row
    BY <1>1 DEF TimelineInv, RowsOK, Row
  <2>3. RowsOK'
    BY <1>1, <2>1, <2>2 DEF TimelineInv, RowsOK
  <2>4. QED BY <1>1, <2>1, <2>3 DEF TimelineInv, pruneVars
<1>5. CASE Delete
  BY <1>1, <1>5, Fewer DEF TimelineInv, Delete, pruneVars
<1>6. CASE Prune
  BY <1>1, <1>6, Fewer DEF TimelineInv, Prune, pruneVars
<1>7. CASE Begin
  BY <1>1, <1>7 DEF Begin, TimelineInv, RowsOK
<1>8. CASE Measure
  BY <1>1, <1>8 DEF Measure, Return, TimelineInv, RowsOK
<1>9. CASE Pick
  BY <1>1, <1>9, PickKeeps
<1>10. CASE Cut
  <2>1. RowsOK'
    BY <1>1, <1>10, Fewer DEF Cut, TimelineInv
  <2>2. phase' # "picked"
    BY <1>10 DEF Cut, Return
  <2>3. QED BY <2>1, <2>2 DEF TimelineInv
<1>11. CASE UNCHANGED vars
  BY <1>1, <1>11 DEF vars, pruneVars, TimelineInv, RowsOK
<1>12. QED BY <1>1, <1>2, <1>3, <1>4, <1>5, <1>6, <1>7, <1>8, <1>9, <1>10, <1>11
           DEF Next, PruneToSize

LEMMA TimelineAlways == Spec => []TimelineInv
BY TimelineInit, TimelineNext, PTL DEF Spec

\* Whatever is recorded, imported and deleted between its rounds: what a round
\* of PruneToSize deletes is older than all it leaves (store.go).
THEOREM PrunedOldestHolds == Spec => PrunedOldest
<1> DEFINE A == phase = "picked" /\ phase' # "picked" =>
                  \A i \in DOMAIN rows \ DOMAIN rows', j \in DOMAIN rows' : Newer(rows, j, i)
<1>1. TimelineInv /\ [Next]_vars => A
  <2>1. SUFFICES ASSUME TimelineInv, [Next]_vars, phase = "picked", phase' # "picked",
                        NEW i \in DOMAIN rows \ DOMAIN rows', NEW j \in DOMAIN rows'
                 PROVE  Newer(rows, j, i)
    BY Zenon
  <2>2. Cut
    BY <2>1 DEF Next, PruneToSize, AddCommand, Import, Insert, SetNote, Delete, Prune, Begin,
                Measure, Pick, Return, vars, pruneVars
  <2>3. DOMAIN rows' = DOMAIN rows \ UpTo
    BY <2>2 DEF Cut, Without
  <2>4. /\ i \in UpTo /\ j \notin UpTo /\ i \in DOMAIN rows /\ j \in DOMAIN rows
    BY <2>1, <2>3
  <2>5. /\ i \in Nat /\ j \in Nat /\ rows[i].at \in Nat /\ rows[j].at \in Nat
        /\ last.at \in Nat /\ last.id \in Nat
    BY <2>1, <2>4 DEF TimelineInv, RowsOK, Row
  <2>6. QED BY <2>4, <2>5 DEF UpTo, Newer
<1>2. TimelineInv /\ [Next]_vars => [A]_vars
  BY <1>1
<1>3. QED BY <1>2, TimelineAlways, PTL DEF Spec, PrunedOldest

\* Whatever comes and goes between its rounds, PruneToSize ends because the file
\* fits, because no row is left, because another process has taken all it picked,
\* or after its last round (store.go), for any number of rounds.
THEOREM PruneStopsHolds == Spec => PruneStops
<1> DEFINE Enough == FileSize' <= maxBytes \/ DOMAIN rows' = {}
           Stop   == phase = "picked" /\ (UpTo = {} \/ iter = Rounds - 1)
           A      == phase # "idle" /\ phase' = "idle" => Enough \/ Stop
<1>1. TimelineInv /\ [Next]_vars => A
  <2>1. SUFFICES ASSUME TimelineInv, [Next]_vars, phase # "idle", phase' = "idle"
                 PROVE  Enough \/ Stop
    BY Zenon
  <2>2. Measure \/ Pick \/ Cut
    BY <2>1 DEF Next, PruneToSize, AddCommand, Import, Insert, SetNote, Delete, Prune, Begin,
                vars, pruneVars
  <2>3. CASE Measure
    <3>1. rows' = rows /\ (FileSize <= maxBytes \/ rows = <<>>)
      BY <2>1, <2>3 DEF Measure
    <3>2. FileSize' = FileSize
      BY <3>1 DEF FileSize
    <3>3. QED BY <3>1, <3>2
  <2>4. CASE Pick
    <3>1. rows' = rows /\ Reverse(Newest(DOMAIN rows)) = <<>>
      BY <2>1, <2>4 DEF Pick
    <3>2. RowsOK /\ DOMAIN rows \in SUBSET DOMAIN rows
      BY <2>1 DEF TimelineInv
    <3>3. /\ Newest(DOMAIN rows) \in Seq(DOMAIN rows)
          /\ Len(Newest(DOMAIN rows)) = Cardinality(DOMAIN rows)
      BY <3>2, NewestRanks, Zenon
    <3>4. Len(Reverse(Newest(DOMAIN rows))) = Len(Newest(DOMAIN rows))
      BY <3>3 DEF Reverse
    <3>5. Cardinality(DOMAIN rows) = 0
      BY <3>1, <3>3, <3>4
    <3>6. IsFiniteSet(DOMAIN rows)
      BY <3>2, Finite, Zenon
    <3>7. DOMAIN rows = {}
      BY <3>5, <3>6, FS_EmptySet
    <3>8. QED BY <3>1, <3>7
  <2>5. CASE Cut
    BY <2>1, <2>5 DEF Cut
  <2>6. QED BY <2>2, <2>3, <2>4, <2>5
<1>2. TimelineInv /\ [Next]_vars => [A]_vars
  BY <1>1
<1>3. QED BY <1>2, TimelineAlways, PTL DEF Spec, PruneStops

\* Search shows the newest entries among all that match in text or in note,
\* however many there are (store.go: Search, searchNotes).
THEOREM SearchIsNewestHolds == Spec => []SearchIsNewest
<1>1. TimelineInv => SearchIsNewest
  BY SearchMerges DEF TimelineInv, SearchIsNewest
<1>2. QED BY <1>1, TimelineAlways, PTL

-----------------------------------------------------------------------------
(***************************************************************************)
(* Counting back and walking back.                                         *)
(***************************************************************************)

LEMMA GetIsList == TimelineInv => GetCounts
<1>1. SUFFICES ASSUME TimelineInv PROVE GetCounts
  OBVIOUS
<1> DEFINE f == [since |-> 0, until |-> 0, host |-> "", limit |-> 0]
           newest == Newest(DOMAIN rows)
           n == Cardinality(DOMAIN rows)
<1>2. Get(0) = Get(-1)
  BY DEF Get
<1>3. Where(f) = DOMAIN rows /\ Limit(f) = 20
  BY DEF Where, Limit
<1>4. List(f) = Top(newest, 20)
  BY <1>3 DEF List
<1>5. newest \in Seq(DOMAIN rows) /\ Len(newest) = n /\ n \in Nat
  BY <1>1, NewestRanks, Finite DEF TimelineInv
<1>6. \A k \in Nat \ {0} : Get(-k) = IF k - 1 < n THEN newest[k] ELSE 0
  <2>1. TAKE k \in Nat \ {0}
  <2> DEFINE b == -k
  <2>2. Get(b) = IF b > 0 THEN IF b \in DOMAIN rows THEN b ELSE 0
                 ELSE IF (IF -b > 0 THEN -b - 1 ELSE 0) < n
                      THEN newest[(IF -b > 0 THEN -b - 1 ELSE 0) + 1] ELSE 0
    <3> HIDE DEF b
    <3>1. QED BY DEF Get
  <2>3. ~(b > 0) /\ -b > 0 /\ -b - 1 = k - 1 /\ k - 1 + 1 = k
    OBVIOUS
  <2> HIDE DEF b, newest, n
  <2>4. Get(b) = IF k - 1 < n THEN newest[k] ELSE 0
    BY <2>2, <2>3
  <2>5. QED BY <2>4 DEF b
<1> DEFINE all == List(f)
<1> HIDE DEF f, newest, n
<1>7. /\ all \in Seq(DOMAIN rows)
      /\ Len(all) = IF 20 < n THEN 20 ELSE n
      /\ \A k \in 1 .. Len(all) : all[k] = newest[k]
  <2>1. 20 \in Nat
    OBVIOUS
  <2>2. /\ Top(newest, 20) \in Seq(DOMAIN rows)
        /\ Len(Top(newest, 20)) = IF 20 < Len(newest) THEN 20 ELSE Len(newest)
        /\ \A k \in 1 .. Len(Top(newest, 20)) : Top(newest, 20)[k] = newest[k]
    BY <1>5, <2>1, TopIs
  <2>3. all = Top(newest, 20)
    BY <1>4
  <2> HIDE DEF all
  <2>4. QED BY <1>5, <2>2, <2>3
<1> HIDE DEF all
<1>8. ASSUME NEW k \in DOMAIN all PROVE Get(-k) = all[k]
  <2>1. k \in 1 .. Len(all) /\ k \in Nat \ {0} /\ k - 1 < n
    <3>1. Len(all) \in Nat /\ DOMAIN all = 1 .. Len(all)
      <4>1. all \in Seq(DOMAIN rows)
        BY <1>7
      <4>2. QED BY ONLY <4>1
    <3>2. n \in Nat /\ Len(all) = IF 20 < n THEN 20 ELSE n
      BY <1>5, <1>7
    <3>3. Len(all) <= n
      BY <3>2
    <3>4. QED BY <3>1, <3>2, <3>3
  <2>2. QED BY <1>6, <1>7, <2>1
<1>9. QED BY <1>2, <1>8 DEF GetCounts, all, f

\* The earlier runs of a row's command.
Runs(i) == {j \in DOMAIN rows : rows[j].cmd = rows[i].cmd /\ ~IsHist(rows[j]) /\ Newer(rows, i, j)}

\* From a row, and then from each of its earlier runs, PrevSame goes to the next
\* one, and from the last to none.
LEMMA PrevSameSteps ==
  ASSUME RowsOK, NEW i \in DOMAIN rows
  PROVE  LET n == Cardinality(Runs(i)) IN
         /\ PrevSame(i) = IF n = 0 THEN 0 ELSE Newest(Runs(i))[1]
         /\ \A k \in 1 .. n : PrevSame(Newest(Runs(i))[k]) = IF k = n THEN 0 ELSE Newest(Runs(i))[k + 1]
<1> DEFINE runs == Runs(i)  n == Cardinality(runs)  q == Newest(runs)
           Before(x) == {j \in DOMAIN rows : rows[j].cmd = rows[x].cmd /\ Newer(rows, x, j)
                                              /\ ~IsHist(rows[j])}
<1>1. runs \in SUBSET DOMAIN rows /\ IsFiniteSet(runs) /\ n \in Nat
  BY Finite DEF Runs
<1>2. \A x : PrevSame(x) = IF Before(x) = {} THEN 0 ELSE Newest(Before(x))[1]
  BY DEF PrevSame
<1>3. n = 0 <=> runs = {}
  BY <1>1, FS_EmptySet
<1>4. Before(i) = runs
  BY DEF Runs
<1>5. PrevSame(i) = IF n = 0 THEN 0 ELSE q[1]
  BY <1>2, <1>3, <1>4
<1>6. ASSUME NEW k \in 1 .. n
      PROVE  PrevSame(q[k]) = IF k = n THEN 0 ELSE q[k + 1]
  <2> DEFINE x == q[k]
  <2>1. x \in runs /\ Rank(runs, x) = k - 1
    BY <1>1, NewestRanks
  <2>2. Before(x) = {j \in runs : Newer(rows, x, j)}
    <3>1. rows[x].cmd = rows[i].cmd /\ Newer(rows, i, x) /\ x \in DOMAIN rows
      BY <2>1 DEF Runs
    <3>2. \A j \in DOMAIN rows : Newer(rows, x, j) => Newer(rows, i, j)
      BY <3>1, TotalOrder
    <3> HIDE DEF x
    <3>3. QED BY <3>1, <3>2 DEF Runs
  <2> HIDE DEF runs, n, q, x
  <2>3. \A j \in Before(x) : j \in runs /\ Rank(runs, j) \in Nat /\ k <= Rank(runs, j)
                              /\ Rank(runs, j) < n
    <3>1. SUFFICES ASSUME NEW j \in Before(x)
                   PROVE  j \in runs /\ Rank(runs, j) \in Nat /\ k <= Rank(runs, j) /\ Rank(runs, j) < n
      OBVIOUS
    <3>2. j \in runs /\ Newer(rows, x, j)
      BY <2>2
    <3>3. Rank(runs, x) < Rank(runs, j) /\ Rank(runs, j) \in 0 .. n - 1
      BY <1>1, <2>1, <3>2, RankOrders DEF n
    <3>4. QED BY <1>1, <2>1, <3>2, <3>3
  <2>4. CASE k = n
    <3>1. Before(x) = {}
      BY <1>1, <2>3, <2>4
    <3>2. QED BY <1>2, <2>4, <3>1 DEF x
  <2>5. CASE k # n
    <3> DEFINE y == q[k + 1]
    <3>1. k + 1 \in 1 .. n /\ k + 1 - 1 = k
      BY <1>1, <2>5
    <3>2. y \in runs /\ Rank(runs, y) = k + 1 - 1
      <4>1. \A m \in 1 .. n : q[m] \in runs /\ Rank(runs, q[m]) = m - 1
        BY <1>1, NewestRanks DEF n, q
      <4>2. QED BY <3>1, <4>1
    <3>3. Rank(runs, y) = k
      BY <3>1, <3>2
    <3> HIDE DEF y
    <3>4. x # y /\ ~Newer(rows, y, x)
      <4>1. Newer(rows, y, x) => Rank(runs, y) < Rank(runs, x)
        BY <1>1, <2>1, <3>2, RankOrders
      <4>2. QED BY <2>1, <3>3, <4>1
    <3>5. Newer(rows, x, y)
      BY <1>1, <2>1, <3>2, <3>4, TotalOrder
    <3>6. y \in Before(x)
      BY <2>2, <3>2, <3>5
    <3>7. \A j \in Before(x) : ~Newer(rows, j, y)
      <4>1. \A j \in Before(x) : Newer(rows, j, y) => Rank(runs, j) < Rank(runs, y)
        BY <1>1, <2>3, <3>2, RankOrders
      <4>2. QED BY <2>3, <3>3, <4>1
    <3>8. Before(x) \in SUBSET DOMAIN rows
      OBVIOUS
    <3> HIDE DEF Before
    <3>9. Rank(Before(x), y) = 0
      <4>1. {j \in Before(x) : Newer(rows, j, y)} = {}
        BY <3>7
      <4>2. QED BY <4>1, FS_EmptySet DEF Rank
    <3>10. Newest(Before(x))[1] = y
      <4>1. PICK m \in 1 .. Cardinality(Before(x)) : m = Rank(Before(x), y) + 1 /\ Newest(Before(x))[m] = y
        BY <3>6, <3>8, NewestRanks
      <4>2. m = 1
        BY <3>9, <4>1
      <4>3. QED BY <4>1, <4>2
    <3>11. PrevSame(x) = y
      BY <1>2, <3>6, <3>10
    <3>12. QED BY <2>5, <3>11 DEF x, y
  <2>6. QED BY <2>4, <2>5
<1>7. QED BY <1>5, <1>6

\* Walk is what repeated calls of PrevSame visit, from a row on.
Walks(i, Walk) ==
  Walk = [k \in 0 .. MaxId |-> IF k = 0 THEN i
                               ELSE IF Walk[k - 1] = 0 THEN 0 ELSE PrevSame(Walk[k - 1])]

\* The row, its earlier runs from the newest on, and then none.
Visits(i) ==
  [k \in 0 .. MaxId |-> IF k = 0 THEN i
                        ELSE IF k <= Cardinality(Runs(i)) THEN Newest(Runs(i))[k] ELSE 0]

LEMMA RunsTypes ==
  ASSUME RowsOK, NEW i \in DOMAIN rows
  PROVE  /\ i \in Nat \ {0} /\ MaxId \in Nat /\ Runs(i) \in SUBSET DOMAIN rows
         /\ Cardinality(Runs(i)) \in 0 .. MaxId
         /\ Newest(Runs(i)) \in Seq(Runs(i)) /\ Len(Newest(Runs(i))) = Cardinality(Runs(i))
         /\ \A k \in 1 .. Cardinality(Runs(i)) : Newest(Runs(i))[k] \in Nat \ {0}
<1>1. Runs(i) \in SUBSET DOMAIN rows
  BY DEF Runs
<1>2. \A j \in DOMAIN rows : j \in Nat \ {0}
  BY DEF RowsOK
<1>3. Cardinality(Runs(i)) \in 0 .. MaxId
  BY <1>1, Finite, TimelineAssumption
<1>4. \A k \in 1 .. Cardinality(Runs(i)) : Newest(Runs(i))[k] \in Runs(i)
  BY <1>1, NewestRanks
<1>5. QED BY <1>1, <1>2, <1>3, <1>4, NewestRanks, TimelineAssumption

LEMMA VisitsWalk ==
  ASSUME RowsOK, NEW i \in DOMAIN rows
  PROVE  Walks(i, Visits(i))
<1> DEFINE n == Cardinality(Runs(i))  q == Newest(Runs(i))  V == Visits(i)
<1>1. /\ i \in Nat \ {0} /\ MaxId \in Nat /\ n \in 0 .. MaxId
      /\ \A k \in 1 .. n : q[k] \in Nat \ {0}
  BY RunsTypes
<1>2. /\ PrevSame(i) = IF n = 0 THEN 0 ELSE q[1]
      /\ \A k \in 1 .. n : PrevSame(q[k]) = IF k = n THEN 0 ELSE q[k + 1]
  BY PrevSameSteps
<1>3. V = [k \in 0 .. MaxId |-> IF k = 0 THEN i ELSE IF k <= n THEN q[k] ELSE 0]
  BY DEF Visits
<1> HIDE DEF n, q, V
<1>4. ASSUME NEW k \in 1 .. MaxId
      PROVE  V[k] = IF V[k - 1] = 0 THEN 0 ELSE PrevSame(V[k - 1])
  <2>1. k - 1 \in 0 .. MaxId /\ k \in 0 .. MaxId /\ k # 0
    BY <1>1
  <2>2. /\ V[k] = (IF k <= n THEN q[k] ELSE 0)
        /\ V[k - 1] = IF k - 1 = 0 THEN i ELSE IF k - 1 <= n THEN q[k - 1] ELSE 0
    BY <1>3, <2>1
  <2>3. CASE k = 1
    BY <1>1, <1>2, <2>2, <2>3
  <2>4. CASE k > 1 /\ k <= n + 1
    <3>1. k - 1 \in 1 .. n /\ k - 1 # 0 /\ k - 1 <= n
      BY <1>1, <2>1, <2>4
    <3>2. V[k - 1] = q[k - 1] /\ q[k - 1] # 0
      BY <1>1, <2>2, <3>1
    <3>3. PrevSame(q[k - 1]) = IF k - 1 = n THEN 0 ELSE q[k - 1 + 1]
      BY <1>2, <3>1
    <3>4. k - 1 + 1 = k /\ (k - 1 = n <=> ~(k <= n))
      BY <1>1, <2>1, <2>4
    <3>5. QED BY <2>2, <3>2, <3>3, <3>4
  <2>5. CASE k > n + 1
    BY <1>1, <2>1, <2>2, <2>5
  <2>6. QED BY <1>1, <2>3, <2>4, <2>5
<1>5. V[0] = i /\ V = [k \in 0 .. MaxId |-> V[k]]
  BY <1>1, <1>3
<1>6. \A k \in 0 .. MaxId :
        V[k] = IF k = 0 THEN i ELSE IF V[k - 1] = 0 THEN 0 ELSE PrevSame(V[k - 1])
  <2>1. TAKE k \in 0 .. MaxId
  <2>2. CASE k = 0
    BY <1>5, <2>2
  <2>3. CASE k # 0
    <3>1. k \in 1 .. MaxId
      BY <1>1, <2>3
    <3>2. QED BY <1>4, <2>3, <3>1
  <2>4. QED BY <2>2, <2>3
<1>7. Walks(i, V)
  BY <1>5, <1>6 DEF Walks
<1>8. QED BY <1>7 DEF V

\* There is only one such function.
LEMMA OneWalk ==
  ASSUME NEW i, NEW V, NEW W, Walks(i, V), Walks(i, W)
  PROVE  V = W
<1> DEFINE D == {k \in 0 .. MaxId : V[k] # W[k]}
<1>1. /\ V = [k \in 0 .. MaxId |-> V[k]] /\ W = [k \in 0 .. MaxId |-> W[k]]
      /\ \A k \in 0 .. MaxId :
           /\ V[k] = IF k = 0 THEN i ELSE IF V[k - 1] = 0 THEN 0 ELSE PrevSame(V[k - 1])
           /\ W[k] = IF k = 0 THEN i ELSE IF W[k - 1] = 0 THEN 0 ELSE PrevSame(W[k - 1])
  BY DEF Walks
<1>2. ASSUME D # {} PROVE FALSE
  <2>1. D \subseteq Nat
    OBVIOUS
  <2> HIDE DEF D
  <2>2. PICK k \in D : \A m \in D : k <= m
    BY <1>2, <2>1, Least
  <2>3. k \in 0 .. MaxId /\ V[k] # W[k]
    BY DEF D
  <2>4. k # 0
    BY <1>1, <2>3
  <2>5. k - 1 \in 0 .. MaxId /\ k - 1 \notin D
    BY <2>2, <2>3, <2>4, TimelineAssumption
  <2>6. V[k - 1] = W[k - 1]
    BY <2>5 DEF D
  <2>7. QED BY <1>1, <2>3, <2>4, <2>6
<1>3. \A k \in 0 .. MaxId : V[k] = W[k]
  BY <1>2
<1>4. QED BY <1>1, <1>3

LEMMA WalkVisitsRuns == TimelineInv => PrevSameWalks
<1>1. SUFFICES ASSUME TimelineInv, NEW i \in DOMAIN rows
               PROVE  LET Walk == CHOOSE W : Walks(i, W)
                      IN  [k \in 1 .. MaxId |-> Walk[k]]
                            = Newest(Runs(i)) \o [k \in 1 .. MaxId - Cardinality(Runs(i)) |-> 0]
  BY DEF PrevSameWalks, Walks, Runs
<1> DEFINE n == Cardinality(Runs(i))  q == Newest(Runs(i))  V == Visits(i)
           rest == [k \in 1 .. MaxId - n |-> 0]
<1>2. (CHOOSE W : Walks(i, W)) = V
  <2>1. Walks(i, V)
    BY <1>1, VisitsWalk DEF TimelineInv
  <2> HIDE DEF V
  <2>2. QED BY <2>1, OneWalk
<1>3. MaxId \in Nat /\ n \in 0 .. MaxId /\ q \in Seq(Runs(i)) /\ Len(q) = n
  BY <1>1, RunsTypes DEF TimelineInv
<1>4. V = [k \in 0 .. MaxId |-> IF k = 0 THEN i ELSE IF k <= n THEN q[k] ELSE 0]
  BY DEF Visits
<1> HIDE DEF n, q, V
<1>5. \A k \in 1 .. MaxId : V[k] = IF k <= n THEN q[k] ELSE 0
  BY <1>3, <1>4
<1>6. [k \in 1 .. MaxId |-> V[k]] = q \o rest
  <2>1. MaxId - n \in Nat
    BY <1>3
  <2>2. q \o rest = [k \in 1 .. MaxId |-> IF k <= n THEN q[k] ELSE rest[k - n]]
    BY <1>3, <2>1
  <2>3. \A k \in 1 .. MaxId : k <= n \/ rest[k - n] = 0
    BY <1>3, <2>1
  <2> HIDE DEF rest
  <2>4. QED BY <1>5, <2>2, <2>3
<1>7. QED BY <1>2, <1>6 DEF n, q

\* Counting back from the latest visits the table in the order of the list, and
\* going from a run to the one before it visits every earlier run of its command
\* just once, and ends, however long the table (store.go: Get, PrevSame).
THEOREM WalksBackHolds == Spec => []WalksBack
<1>1. TimelineInv => WalksBack
  BY GetIsList, WalkVisitsRuns DEF WalksBack
<1>2. QED BY <1>1, TimelineAlways, PTL

\* A bounded set of numbers that is not empty has a greatest one.
LEMMA Greatest ==
  ASSUME NEW n \in Nat, NEW S, S \subseteq 0 .. n, S # {}
  PROVE  \E x \in S : \A y \in S : x >= y
<1> DEFINE up == {n - i : i \in S}
<1>1. \A i \in S : i \in Nat /\ n - i \in Nat
  OBVIOUS
<1>2. up \subseteq Nat /\ up # {}
  BY <1>1
<1>3. PICK x \in up : \A y \in up : x <= y
  <2> HIDE DEF up
  <2>1. QED BY <1>2, Least
<1>4. PICK i \in S : x = n - i
  OBVIOUS
<1>5. \A j \in S : n - i <= n - j
  BY <1>3, <1>4
<1>6. QED BY <1>1, <1>5

-----------------------------------------------------------------------------
(***************************************************************************)
(* The two ends of a long output.                                          *)
(***************************************************************************)

LEMMA NewlinesIn ==
  ASSUME NEW T, NEW q \in Seq(T)
  PROVE  Grep!LastNewline(q) \in 0 .. Len(q) /\ Grep!FirstNewline(q) \in 0 .. Len(q)
<1> DEFINE S == {i \in DOMAIN q : q[i] = "\n"}
<1>1. Len(q) \in Nat /\ DOMAIN q = 1 .. Len(q)
  OBVIOUS
<1>2. S \subseteq 0 .. Len(q) /\ S \subseteq Nat
  BY <1>1
<1>3. (\E i \in DOMAIN q : q[i] = "\n") <=> S # {}
  OBVIOUS
<1>4. /\ Grep!LastNewline(q) = (IF S # {} THEN Grep!Max(S) ELSE 0)
      /\ Grep!FirstNewline(q) = (IF S # {} THEN Grep!Min(S) ELSE 0)
  BY <1>3 DEF Grep!LastNewline, Grep!FirstNewline
<1> HIDE DEF S
<1>5. S # {} => Grep!Max(S) \in S /\ Grep!Min(S) \in S
  <2>1. SUFFICES ASSUME S # {} PROVE Grep!Max(S) \in S /\ Grep!Min(S) \in S
    OBVIOUS
  <2>2. \E x \in S : \A y \in S : x >= y
    BY <1>1, <1>2, <2>1, Greatest
  <2>3. \E x \in S : \A y \in S : x <= y
    BY <1>2, <2>1, Least
  <2>4. QED BY <2>2, <2>3 DEF Grep!Max, Grep!Min
<1>6. CASE S = {}
  BY <1>1, <1>4, <1>6
<1>7. CASE S # {}
  <2>1. Grep!LastNewline(q) = Grep!Max(S) /\ Grep!FirstNewline(q) = Grep!Min(S)
    BY <1>4, <1>7
  <2>2. Grep!Max(S) \in 0 .. Len(q) /\ Grep!Min(S) \in 0 .. Len(q)
    BY <1>2, <1>5, <1>7
  <2>3. QED BY <2>1, <2>2
<1>8. QED BY <1>6, <1>7

LEMMA EndsAreCut ==
  ASSUME NEW T, NEW body \in Seq(T), NEW limit \in Nat \ {0}
  PROVE  Grep!CutHonest(body, limit)
<1> SUFFICES ASSUME Len(body) > limit
             PROVE  LET c == Grep!Cut(body, limit) IN
                      /\ c.head + c.tail <= limit /\ c.tail > 0
                      /\ c.omitted > 0 /\ c.omitted <= Len(body) - c.head - c.tail
  BY DEF Grep!CutHonest
<1> DEFINE n == Len(body)
           head == (limit * 2) \div 5
           tail == limit - head
           h == SubSeq(body, 1, head)
           e == SubSeq(body, n - tail + 1, n)
           ln == Grep!LastNewline(h)
           fn == Grep!FirstNewline(e)
<1>0. limit \in Nat /\ limit > 0 /\ n \in Nat /\ n > limit
  OBVIOUS
<1>1. n \in Nat /\ n > limit /\ head \in 0 .. limit - 1 /\ tail \in 1 .. limit
      /\ head + tail = limit
  <2> HIDE DEF n
  <2>1. head \in 0 .. limit - 1
    BY <1>0
  <2> HIDE DEF head
  <2>2. QED BY <1>0, <2>1
<1> HIDE DEF head, tail
<1>2. h \in Seq(T) /\ Len(h) = head
  BY <1>1
<1>3. e \in Seq(T) /\ Len(e) = tail
  BY <1>1
<1> HIDE DEF h, e
<1>4. ln \in 0 .. head /\ fn \in 0 .. tail
  BY <1>2, <1>3, NewlinesIn
<1>5. Grep!Cut(body, limit) =
        [head |-> IF ln > 1 THEN ln ELSE head,
         tail |-> IF fn # 0 /\ fn < Len(e) THEN Len(e) - fn ELSE tail,
         omitted |-> n - head - tail]
  BY DEF Grep!Cut, Grep!TailOf, head, tail, h, e
<1> HIDE DEF ln, fn, n
<1>6. QED BY <1>1, <1>3, <1>4, <1>5 DEF n

-----------------------------------------------------------------------------
(***************************************************************************)
(* Sparklines.                                                             *)
(***************************************************************************)

\* Commands are no further apart than a product with sparkBuckets has room for:
\* 24 years.
SpansFit == \A a, b \in Starts \ {0} : (b - a) * Buckets < Half

Ran == [at : Starts, key : Keys]

LEMMA Divided ==
  ASSUME NEW a \in Nat, NEW d \in Nat \ {0}
  PROVE  /\ a \div d \in Nat /\ d * (a \div d) <= a /\ a < d * (a \div d) + d
         /\ \A n \in Nat : d * n <= a => n <= a \div d
         /\ \A n \in Nat : a < d * n => a \div d < n
         /\ \A b \in Nat : a <= b => a \div d <= b \div d
<1> DEFINE Q(x) == x \div d
<1>1. \A x \in Nat : Q(x) \in Nat /\ d * Q(x) <= x /\ x < d * Q(x) + d
  OBVIOUS
<1> HIDE DEF Q
<1>2. \A m, n \in Nat : d * m < d * n => m < n
  <2>1. TAKE m, n \in Nat
  <2>2. n <= m => d * n <= d * m
    OBVIOUS
  <2>3. d * n \in Nat /\ d * m \in Nat
    OBVIOUS
  <2>4. QED BY <2>2, <2>3
<1>3. \A m \in Nat : d * m + d = d * (m + 1) /\ d * m \in Nat /\ d * (m + 1) \in Nat
  OBVIOUS
<1>4. \A n \in Nat, x \in Nat : d * n <= x => n <= Q(x)
  <2>1. TAKE n \in Nat, x \in Nat
  <2>2. HAVE d * n <= x
  <2>3. d * n < d * (Q(x) + 1)
    BY <1>1, <1>3, <2>2
  <2>4. QED BY <1>1, <1>2, <2>3
<1>5. \A n \in Nat, x \in Nat : x < d * n => Q(x) < n
  <2>1. TAKE n \in Nat, x \in Nat
  <2>2. HAVE x < d * n
  <2>3. Q(x) \in Nat /\ d * Q(x) <= x
    BY <1>1
  <2>4. d * Q(x) \in Nat /\ d * n \in Nat
    BY <1>3, <2>3
  <2>5. d * Q(x) < d * n
    BY <2>2, <2>3, <2>4
  <2>6. QED BY <1>2, <2>3, <2>5
<1>6. \A b \in Nat : a <= b => Q(a) <= Q(b)
  <2>1. TAKE b \in Nat
  <2>2. HAVE a <= b
  <2>3. d * Q(a) <= b
    BY <1>1, <1>3, <2>2
  <2>4. QED BY <1>1, <1>4, <2>3
<1>7. QED BY <1>1, <1>4, <1>5, <1>6 DEF Q

LEMMA WordIs ==
  ASSUME NEW n \in -Half .. Half - 1
  PROVE  Stats!Word(n) = n
<1>1. Half \in Nat \ {0}
  BY SparkAssumption
<1> DEFINE a == n + Half  d == 2 * Half
<1>2. a \in Nat /\ d \in Nat \ {0} /\ a < d
  BY <1>1
<1> HIDE DEF a, d
<1>3. a % d = a
  BY <1>2
<1>4. a - Half = n
  BY <1>1 DEF a
<1>5. QED BY <1>3, <1>4 DEF Stats!Word, a, d

\* What the commands with a start span.
LEMMA SpanIs ==
  ASSUME cmds \in Seq(Ran), SpansFit, Stats!Known # {}
  PROVE  /\ Stats!First \in Nat /\ Stats!Latest \in Nat /\ Stats!Span \in Nat
         /\ Stats!Span = Stats!Latest - Stats!First
         /\ Stats!Span * Buckets < Half
         /\ \A i \in Stats!Known : cmds[i].at \in Stats!First .. Stats!Latest
<1> DEFINE K == Stats!Known
           S == {cmds[i].at : i \in K}
<1>1. \A i \in K : cmds[i].at \in Starts \ {0}
  <2>1. \A i \in DOMAIN cmds : cmds[i] \in Ran
    OBVIOUS
  <2>2. \A i \in DOMAIN cmds : cmds[i].at \in Starts
    BY <2>1 DEF Ran
  <2>3. QED BY <2>2 DEF Stats!Known
<1>2. S \subseteq Starts \ {0} /\ S \subseteq Nat /\ S # {}
  BY <1>1, SparkAssumption
<1>3. \A i \in K : cmds[i].at \in S
  OBVIOUS
<1>4. Stats!First = Stats!Min(S) /\ Stats!Latest = Stats!Max(S)
  BY DEF Stats!First, Stats!Latest
<1>5. Half \in Nat /\ Buckets \in Nat /\ Buckets >= 1
  BY SparkAssumption
<1> HIDE DEF S, K
<1>6. PICK f \in S : \A y \in S : f <= y
  BY <1>2, Least
<1>7. \A y \in S : (y - f) * Buckets < Half
  BY <1>2, <1>6 DEF SpansFit
<1>8. S \subseteq 0 .. f + Half
  <2>1. SUFFICES ASSUME NEW y \in S PROVE y \in 0 .. f + Half
    OBVIOUS
  <2>2. y \in Nat /\ f \in Nat /\ f <= y
    BY <1>2, <1>6
  <2>3. y - f \in Nat /\ (y - f) * Buckets < Half
    BY <1>7, <2>2
  <2> DEFINE x == y - f
  <2> HIDE DEF x
  <2>4. x \in Nat /\ x * Buckets < Half
    BY <2>3 DEF x
  <2>5. x <= x * Buckets /\ x * Buckets \in Nat
    BY <1>5, <2>4
  <2>6. x <= Half
    BY <1>5, <2>4, <2>5
  <2>7. QED BY <1>5, <2>2, <2>6 DEF x
<1>9. \E x \in S : \A y \in S : x >= y
  <2>1. f + Half \in Nat
    BY <1>2, <1>5
  <2>2. QED BY <1>2, <1>8, <2>1, Greatest
<1>10. Stats!Max(S) \in S /\ \A y \in S : Stats!Max(S) >= y
  BY <1>9 DEF Stats!Max
<1>11. Stats!Min(S) \in S /\ \A y \in S : Stats!Min(S) <= y
  BY <1>6 DEF Stats!Min
<1>12. /\ Stats!First \in S /\ Stats!Latest \in S
       /\ \A y \in S : Stats!First <= y /\ y <= Stats!Latest
  BY <1>2, <1>4, <1>10, <1>11
<1>13. (Stats!Latest - Stats!First) * Buckets < Half
  BY <1>2, <1>12 DEF SpansFit
<1>14. /\ Stats!First \in Nat /\ Stats!Latest \in Nat /\ Stats!First <= Stats!Latest
       /\ \A i \in K : cmds[i].at \in Nat /\ Stats!First <= cmds[i].at /\ cmds[i].at <= Stats!Latest
  BY <1>2, <1>3, <1>12
<1>15. Stats!Span = Stats!Latest - Stats!First
  BY DEF Stats!Span
<1>16. Stats!Span \in Nat
  BY <1>14, <1>15
<1>17. QED BY <1>13, <1>14, <1>15, <1>16 DEF K

\* Where a command is counted.
LEMMA BucketIs ==
  ASSUME cmds \in Seq(Ran), SpansFit, Stats!Known # {}, Stats!Span > 0,
         NEW at \in Stats!First .. Stats!Latest
  PROVE  Stats!Bucket(at) = ((at - Stats!First) * Buckets) \div (Stats!Span + 1)
<1> DEFINE x == at - Stats!First  n == Stats!Span
<1>1. /\ x \in Nat /\ n \in Nat /\ n > 0 /\ x <= n /\ n * Buckets < Half
      /\ Half \in Nat /\ Buckets \in Nat /\ Buckets >= 2
  BY SpanIs, SparkAssumption
<1> HIDE DEF x, n
<1>2. n * Buckets >= n + n /\ x * Buckets \in Nat /\ x * Buckets <= n * Buckets
  <2>1. n * Buckets >= n * 2
    BY <1>1
  <2>2. QED BY <1>1, <2>1
<1>3. x * Buckets \in -Half .. Half - 1 /\ n + 1 \in -Half .. Half - 1
  <2>1. n * Buckets \in Nat
    BY <1>1
  <2>2. QED BY <1>1, <1>2, <2>1
<1>4. Stats!Word(x * Buckets) = x * Buckets /\ Stats!Word(n + 1) = n + 1
  BY <1>3, WordIs
<1>5. x * Buckets >= 0
  BY <1>2
<1>6. Stats!Bucket(at) = Stats!Quotient(Stats!Word(x * Buckets), Stats!Word(n + 1))
  BY <1>1 DEF Stats!Bucket, x, n
<1>7. Stats!Quotient(x * Buckets, n + 1) = (x * Buckets) \div (n + 1)
  BY <1>5 DEF Stats!Quotient
<1>8. QED BY <1>4, <1>6, <1>7 DEF x, n

LEMMA BucketsInRange ==
  ASSUME cmds \in Seq(Ran), SpansFit, Stats!Known # {}
  PROVE  /\ \A at \in Stats!First .. Stats!Latest : Stats!Bucket(at) \in 0 .. Buckets - 1
         /\ \A at, later \in Stats!First .. Stats!Latest :
              at <= later => Stats!Bucket(at) <= Stats!Bucket(later)
         /\ Stats!Span > 0 => Stats!Bucket(Stats!First) = 0
         /\ Stats!Span >= Buckets - 1 => Stats!Bucket(Stats!Latest) = Buckets - 1
<1> DEFINE n == Stats!Span  f == Stats!First  l == Stats!Latest
<1>1. /\ f \in Nat /\ l \in Nat /\ n \in Nat /\ n = l - f
      /\ Half \in Nat /\ Buckets \in Nat /\ Buckets >= 2
  BY SpanIs, SparkAssumption
<1>2. n > 0 => \A at \in f .. l : Stats!Bucket(at) = ((at - f) * Buckets) \div (n + 1)
  BY BucketIs
<1>3. ~(n > 0) => \A at \in f .. l : Stats!Bucket(at) = Buckets - 1
  BY DEF Stats!Bucket
<1> HIDE DEF n, f, l
<1>4. CASE ~(n > 0)
  <2>1. ~(n >= Buckets - 1)
    BY <1>1, <1>4
  <2>2. \A at \in f .. l : Stats!Bucket(at) = Buckets - 1
    BY <1>3, <1>4
  <2>3. Buckets - 1 \in 0 .. Buckets - 1 /\ Buckets - 1 <= Buckets - 1
    BY <1>1
  <2>4. QED BY <1>4, <2>1, <2>2, <2>3 DEF n, f, l
<1>5. CASE n > 0
  <2> DEFINE d == n + 1
             P(at) == (at - f) * Buckets
  <2>1. d \in Nat \ {0}
    BY <1>1
  <2>2. \A at \in f .. l : at - f \in Nat /\ at - f <= n /\ P(at) \in Nat
    BY <1>1
  <2>3. \A at \in f .. l : Stats!Bucket(at) = P(at) \div d
    BY <1>2, <1>5
  <2>4. \A at \in f .. l : P(at) < d * Buckets
    <3>1. TAKE at \in f .. l
    <3> DEFINE x == at - f
    <3>2. x \in Nat /\ x < d /\ d \in Nat
      BY <1>1, <2>2
    <3> HIDE DEF x, d
    <3>3. x * Buckets < d * Buckets
      BY <1>1, <3>2
    <3>4. QED BY <3>3 DEF x
  <2>5. \A at, later \in f .. l : at <= later => P(at) <= P(later)
    <3>1. TAKE at, later \in f .. l
    <3>2. HAVE at <= later
    <3> DEFINE x == at - f  y == later - f
    <3>3. x \in Nat /\ y \in Nat /\ x <= y
      BY <1>1, <2>2, <3>2
    <3> HIDE DEF x, y
    <3>4. x * Buckets <= y * Buckets
      BY <1>1, <3>3
    <3>5. QED BY <3>4 DEF x, y
  <2>6. P(f) = 0 /\ f \in f .. l /\ l \in f .. l
    <3>1. f - f = 0 /\ f <= l
      BY <1>1, <1>5
    <3>2. QED BY <1>1, <3>1
  <2>7. n >= Buckets - 1 => d * (Buckets - 1) <= P(l)
    <3>1. P(l) = n * Buckets
      BY <1>1
    <3>2. d * (Buckets - 1) = n * Buckets - n + Buckets - 1
      BY <1>1
    <3>3. n * Buckets \in Nat
      BY <1>1
    <3> HIDE DEF P, d
    <3>4. QED BY <1>1, <3>1, <3>2, <3>3
  <2> HIDE DEF P, d
  <2>8. \A at \in f .. l : P(at) \div d \in 0 .. Buckets - 1
    <3>1. TAKE at \in f .. l
    <3>2. P(at) \div d \in Nat /\ P(at) \div d < Buckets
      BY <1>1, <2>1, <2>2, <2>4, Divided
    <3>3. QED BY <1>1, <3>2
  <2>9. \A at, later \in f .. l : at <= later => P(at) \div d <= P(later) \div d
    BY <2>1, <2>2, <2>5, Divided
  <2>10. P(f) \div d = 0
    <3>1. 0 < d * 1
      BY <2>1
    <3>2. P(f) \div d < 1 /\ P(f) \div d \in Nat
      BY <2>1, <2>6, <3>1, Divided
    <3>3. QED BY <3>2
  <2>11. n >= Buckets - 1 => P(l) \div d = Buckets - 1
    <3>1. HAVE n >= Buckets - 1
    <3>2. Buckets - 1 \in Nat /\ P(l) \in Nat
      BY <1>1, <2>2, <2>6
    <3>3. Buckets - 1 <= P(l) \div d
      BY <2>1, <2>7, <3>1, <3>2, Divided
    <3>4. P(l) \div d \in 0 .. Buckets - 1
      BY <2>6, <2>8
    <3>5. QED BY <1>1, <3>3, <3>4
  <2>12. QED BY <2>3, <2>6, <2>8, <2>9, <2>10, <2>11 DEF n, f, l
<1>6. QED BY <1>4, <1>5

\* FiniteSets within Stats.
LEMMA SameSize == \A S : Stats!Cardinality(S) = Cardinality(S)
BY DEF Stats!Cardinality, Cardinality

\* Every command with a start is counted just once.
LEMMA AllCounted ==
  ASSUME cmds \in Seq(Ran), SpansFit, NEW k
  PROVE  Stats!Total(Stats!Spark(k)) = Cardinality(Stats!Of(k) \cap Stats!Known)
<1> DEFINE C == Stats!Of(k) \cap Stats!Known
           B(i) == Stats!Bucket(cmds[i].at)
           In(b) == {i \in C : B(i) = b}
           Below(b) == {i \in C : B(i) < b}
           spark == Stats!Spark(k)
<1>1. IsFiniteSet(C)
  <2>1. IsFiniteSet(1 .. Len(cmds))
    BY FS_Interval
  <2>2. C \subseteq 1 .. Len(cmds)
    BY DEF Stats!Of
  <2>3. QED BY <2>1, <2>2, FS_Subset
<1>2. \A i \in C : B(i) \in 0 .. Buckets - 1
  <2>1. SUFFICES ASSUME NEW i \in C PROVE B(i) \in 0 .. Buckets - 1
    OBVIOUS
  <2>2. Stats!Known # {} /\ i \in Stats!Known
    BY <2>1
  <2>3. cmds[i].at \in Stats!First .. Stats!Latest
    BY <2>2, SpanIs
  <2>4. QED BY <2>2, <2>3, BucketsInRange
<1>3. \A b \in 0 .. Buckets - 1 : spark[b] = Cardinality(In(b))
  BY SameSize, Zenon DEF Stats!Spark
<1>4. Buckets \in Nat /\ Buckets >= 1
  BY SparkAssumption
<1> HIDE DEF C, B, spark
<1>5. \A b \in 0 .. Buckets : IsFiniteSet(Below(b)) /\ IsFiniteSet(In(b))
                               /\ Cardinality(Below(b)) \in Nat /\ Cardinality(In(b)) \in Nat
  <2>1. TAKE b \in 0 .. Buckets
  <2>2. Below(b) \subseteq C /\ In(b) \subseteq C
    OBVIOUS
  <2>3. QED BY <1>1, <2>2, FS_Subset, FS_CardinalityType
<1>6. Cardinality(Below(0)) = 0 /\ Below(Buckets) = C
  <2>1. Below(0) = {}
    BY <1>2
  <2>2. Below(Buckets) = C
    BY <1>2, <1>4
  <2>3. QED BY <2>1, <2>2, FS_EmptySet
<1>7. \A b \in 1 .. Buckets :
        Cardinality(Below(b)) = Cardinality(Below(b - 1)) + Cardinality(In(b - 1))
  <2>1. TAKE b \in 1 .. Buckets
  <2>2. b \in 0 .. Buckets /\ b - 1 \in 0 .. Buckets /\ b \in Nat
    BY <1>4
  <2>3. Below(b) = Below(b - 1) \cup In(b - 1) /\ Below(b - 1) \cap In(b - 1) = {}
    BY <1>2, <2>2
  <2>4. IsFiniteSet(Below(b - 1)) /\ IsFiniteSet(In(b - 1))
    BY <1>5, <2>2
  <2> HIDE DEF Below, In
  <2>5. Cardinality(Below(b)) = Cardinality(Below(b - 1)) + Cardinality(In(b - 1))
                                 - Cardinality({})
    BY <2>3, <2>4, FS_Union
  <2>6. Cardinality({}) = 0
    BY FS_EmptySet
  <2>7. QED BY <1>5, <2>2, <2>5, <2>6
<1> DEFINE Sums(S) == S = [b \in 0 .. Buckets |-> IF b = 0 THEN 0 ELSE S[b - 1] + spark[b - 1]]
           N == [b \in 0 .. Buckets |-> Cardinality(Below(b))]
           S == CHOOSE S : Sums(S)
<1>8. Sums(N)
  <2>1. \A b \in 0 .. Buckets : N[b] = IF b = 0 THEN 0 ELSE N[b - 1] + spark[b - 1]
    <3>1. TAKE b \in 0 .. Buckets
    <3>2. CASE b = 0
      BY <1>6, <3>2
    <3>3. CASE b # 0
      <4>1. b \in 1 .. Buckets /\ b - 1 \in 0 .. Buckets /\ b - 1 \in 0 .. Buckets - 1
        BY <1>4, <3>3
      <4>2. N[b] = Cardinality(Below(b)) /\ N[b - 1] = Cardinality(Below(b - 1))
        BY <4>1
      <4> HIDE DEF N, Below, In
      <4>3. QED BY <1>3, <1>7, <3>3, <4>1, <4>2
    <3>4. QED BY <3>2, <3>3
  <2>2. N = [b \in 0 .. Buckets |-> N[b]]
    OBVIOUS
  <2> HIDE DEF N
  <2>3. QED BY <2>1, <2>2
<1> HIDE DEF N, Below, In
<1>9. Sums(S)
  BY <1>8
<1> HIDE DEF S
<1>10. 0 .. Buckets \subseteq {b \in 0 .. Buckets : S[b] = N[b]}
  <2> DEFINE G == {b \in 0 .. Buckets : S[b] = N[b]}
  <2>0. \A b \in 0 .. Buckets :
          /\ S[b] = IF b = 0 THEN 0 ELSE S[b - 1] + spark[b - 1]
          /\ N[b] = IF b = 0 THEN 0 ELSE N[b - 1] + spark[b - 1]
    BY <1>8, <1>9
  <2>1. 0 \in G
    BY <1>4, <2>0
  <2>2. ASSUME NEW b \in 1 .. Buckets, b - 1 \in G PROVE b \in G
    <3>1. b \in 0 .. Buckets /\ b # 0
      BY <1>4
    <3>2. QED BY <2>0, <2>2, <3>1
  <2> HIDE DEF G
  <2>3. 0 .. Buckets \subseteq G
    BY <1>4, <2>1, <2>2, Along
  <2>4. QED BY <2>3 DEF G
<1>11. S[Buckets] = N[Buckets] /\ N[Buckets] = Cardinality(C)
  <2>1. Buckets \in 0 .. Buckets
    BY <1>4
  <2>2. QED BY <1>6, <1>10, <2>1 DEF N
<1>12. Stats!Total(spark) = S[Buckets]
  BY DEF Stats!Total, S
<1>13. QED BY <1>11, <1>12 DEF C, spark

LEMMA SparksCounted ==
  ASSUME cmds \in Seq(Ran), SpansFit
  PROVE  Stats!SparksInRange
<1>0. \A k \in Keys : Stats!Cardinality(Stats!Of(k) \cap Stats!Known) = Cardinality(Stats!Of(k) \cap Stats!Known)
  BY SameSize
<1>1. \A k \in Keys : Stats!Total(Stats!Spark(k)) = Cardinality(Stats!Of(k) \cap Stats!Known)
  BY AllCounted
<1>2. CASE Stats!Known = {}
  BY <1>0, <1>1, <1>2 DEF Stats!SparksInRange
<1>3. CASE Stats!Known # {}
  <2>1. \A i \in Stats!Known : cmds[i].at \in Stats!First .. Stats!Latest
    BY <1>3, SpanIs
  <2>2. /\ \A i \in Stats!Known : Stats!Bucket(cmds[i].at) \in 0 .. Buckets - 1
        /\ \A i, j \in Stats!Known :
             cmds[i].at <= cmds[j].at => Stats!Bucket(cmds[i].at) <= Stats!Bucket(cmds[j].at)
    BY <1>3, <2>1, BucketsInRange
  <2>3. /\ Stats!Span > 0 => Stats!Bucket(Stats!First) = 0
        /\ Stats!Span >= Buckets - 1 => Stats!Bucket(Stats!Latest) = Buckets - 1
    BY <1>3, BucketsInRange
  <2>4. QED BY <1>0, <1>1, <2>2, <2>3, Zenon DEF Stats!SparksInRange
<1>4. QED BY <1>2, <1>3

-----------------------------------------------------------------------------
(***************************************************************************)
(* Sequences put together.                                                 *)
(***************************************************************************)

Cat(S) == [z \in Seq(S) \X Seq(S) |-> z[1] \o z[2]]

LEMMA CatStep ==
  ASSUME NEW S
  PROVE  IsStep(Cat(S), Seq(S), Seq(S)) /\ <<>> \in Seq(S)
         /\ \A x, y \in Seq(S) : Cat(S)[<<x, y>>] = x \o y
<1>1. \A x, y \in Seq(S) : x \o y \in Seq(S)
  OBVIOUS
<1>2. \A z \in Seq(S) \X Seq(S) : z[1] \in Seq(S) /\ z[2] \in Seq(S)
  OBVIOUS
<1>3. \A z \in Seq(S) \X Seq(S) : z[1] \o z[2] \in Seq(S)
  BY <1>1, <1>2
<1>4. Cat(S) \in [Seq(S) \X Seq(S) -> Seq(S)]
  BY <1>3 DEF Cat
<1>5. \A x, y \in Seq(S) : <<x, y>> \in Seq(S) \X Seq(S)
  OBVIOUS
<1>6. \A x, y \in Seq(S) : Cat(S)[<<x, y>>] = x \o y
  BY <1>5 DEF Cat
<1>7. <<>> \in Seq(S)
  OBVIOUS
<1>8. IsStep(Cat(S), Seq(S), Seq(S))
  BY <1>4 DEF IsStep
<1>9. QED BY <1>6, <1>7, <1>8

LEMMA FlattenIs ==
  ASSUME NEW T, NEW cat, IsStep(cat, T, T), \A x, y \in T : cat[<<x, y>>] = x \o y,
         NEW e \in T, e = <<>>, \A x \in T : e \o x = x, NEW q \in Seq(T)
  PROVE  FlattenSeq(q) = End(cat, e, q)
<1> DEFINE Joins(a) == a = [i \in 1 .. Len(q) |-> IF i = 1 THEN q[i] ELSE a[i - 1] \o q[i]]
           F == CHOOSE a : Joins(a)
<1>1. Len(q) \in Nat /\ \A i \in 1 .. Len(q) : q[i] \in T
  OBVIOUS
<1>2. PICK a \in [0 .. Len(q) -> T] :
        a[0] = e /\ \A k \in 1 .. Len(q) : a[k] = cat[<<a[k - 1], q[k]>>]
  BY FoldExists
<1>3. \A k \in 1 .. Len(q) : a[k - 1] \in T /\ a[k] = a[k - 1] \o q[k]
  <2>1. TAKE k \in 1 .. Len(q)
  <2>2. a[k - 1] \in T /\ q[k] \in T
    BY <1>1, <1>2
  <2>3. a[k] = cat[<<a[k - 1], q[k]>>]
    BY <1>2
  <2>4. QED BY <2>2, <2>3
<1> DEFINE b == [i \in 1 .. Len(q) |-> a[i]]
<1>4. Joins(b)
  <2>1. \A i \in 1 .. Len(q) : b[i] = IF i = 1 THEN q[i] ELSE b[i - 1] \o q[i]
    <3>1. TAKE i \in 1 .. Len(q)
    <3>2. CASE i = 1
      <4>1. b[i] = e \o q[i]
        <5>1. a[i] = a[i - 1] \o q[i]
          BY <1>3
        <5>2. i - 1 = 0 /\ a[0] = e
          BY <1>2, <3>2
        <5>3. b[i] = a[i]
          OBVIOUS
        <5>4. QED BY <5>1, <5>2, <5>3
      <4>2. e \o q[i] = q[i]
        BY <1>1
      <4>3. QED BY <3>2, <4>1, <4>2
    <3>3. CASE i # 1
      <4>1. i - 1 \in 1 .. Len(q)
        BY <1>1, <3>3
      <4>2. QED BY <1>3, <3>3, <4>1
    <3>4. QED BY <3>2, <3>3
  <2>2. b = [i \in 1 .. Len(q) |-> b[i]]
    OBVIOUS
  <2> HIDE DEF b
  <2>3. QED BY <2>1, <2>2
<1>5. Joins(F)
  <2> HIDE DEF b, Joins
  <2>1. QED BY <1>4
<1> HIDE DEF F
<1> DEFINE d == [k \in 0 .. Len(q) |-> IF k = 0 THEN e ELSE F[k]]
           G == {k \in 0 .. Len(q) : d[k] = a[k]}
<1>6. 0 \in G
  BY <1>1, <1>2
<1>7. ASSUME NEW k \in 1 .. Len(q), k - 1 \in G PROVE k \in G
  <2>0. k \in 0 .. Len(q) /\ k # 0 /\ d[k] = F[k]
    BY <1>1
  <2>1. /\ k \in 0 .. Len(q) /\ k # 0 /\ d[k] = F[k]
        /\ F[k] = (IF k = 1 THEN q[k] ELSE F[k - 1] \o q[k])
    <3>1. F[k] = (IF k = 1 THEN q[k] ELSE F[k - 1] \o q[k])
      BY <1>5
    <3>2. QED BY <2>0, <3>1
  <2>2. CASE k = 1
    <3>1. a[k] = e \o q[k]
      <4>1. a[k - 1] = e
        BY <1>2, <2>2
      <4>2. QED BY <1>3, <4>1
    <3>2. e \o q[k] = q[k]
      BY <1>1
    <3>3. QED BY <2>1, <2>2, <3>1, <3>2
  <2>3. CASE k # 1
    <3>1. k - 1 \in 0 .. Len(q) /\ k - 1 # 0 /\ d[k - 1] = a[k - 1]
      BY <1>7, <2>3
    <3>2. d[k - 1] = F[k - 1]
      BY <3>1
    <3>3. QED BY <1>3, <2>1, <2>3, <3>1, <3>2
  <2>4. QED BY <2>2, <2>3
<1>8. 0 .. Len(q) \subseteq G
  <2> HIDE DEF G
  <2>1. QED BY <1>1, <1>6, <1>7, Along
<1>9. d[Len(q)] = a[Len(q)]
  <2>1. Len(q) \in 0 .. Len(q)
    BY <1>1
  <2>2. QED BY <1>8, <2>1
<1>10. a[Len(q)] = End(cat, e, q)
  <2>1. a = [k \in 0 .. Len(q) |-> a[k]]
    BY <1>2
  <2>2. Run(cat, e, q, a)
    BY <1>2, <2>1 DEF Run
  <2>3. IsStep(cat, T, T)
    OBVIOUS
  <2>4. QED BY <2>2, <2>3, RunIs
<1>11. FlattenSeq(q) = d[Len(q)]
  <2>1. CASE Len(q) = 0
    <3>1. q = e
      BY <2>1
    <3>2. d[Len(q)] = e
      BY <2>1
    <3>3. FlattenSeq(q) = q
      BY <2>1 DEF FlattenSeq
    <3>4. QED BY <3>1, <3>2, <3>3
  <2>2. CASE Len(q) # 0
    <3>1. FlattenSeq(q) = F[Len(q)]
      BY <2>2 DEF FlattenSeq, F
    <3>2. d[Len(q)] = F[Len(q)]
      BY <1>1, <2>2
    <3>3. QED BY <3>1, <3>2
  <2>3. QED BY <2>1, <2>2
<1>12. QED BY <1>9, <1>10, <1>11

LEMMA FlattenSteps ==
  ASSUME NEW S
  PROVE  /\ FlattenSeq(<<>>) = <<>>
         /\ \A q \in Seq(Seq(S)) : FlattenSeq(q) \in Seq(S)
         /\ \A q \in Seq(Seq(S)), x \in Seq(S) : FlattenSeq(Append(q, x)) = FlattenSeq(q) \o x
<1> DEFINE e == <<>>
           E(q) == End(Cat(S), e, q)
<1>1. /\ E(e) = e
      /\ \A q \in Seq(Seq(S)) : E(q) \in Seq(S)
      /\ \A q \in Seq(Seq(S)), x \in Seq(S) : E(Append(q, x)) = Cat(S)[<<E(q), x>>]
  BY CatStep, EndSteps
<1>2. \A q \in Seq(Seq(S)) : FlattenSeq(q) = E(q)
  <2> DEFINE T == Seq(S)
             cat == Cat(S)
  <2>0. e \in T /\ \A x \in T : e \o x = x
    OBVIOUS
  <2>1. IsStep(cat, T, T) /\ \A x, y \in T : cat[<<x, y>>] = x \o y
    BY CatStep
  <2>2. e = <<>>
    OBVIOUS
  <2> HIDE DEF T, cat, e
  <2>3. \A q \in Seq(T) : FlattenSeq(q) = End(cat, e, q)
    BY <2>0, <2>1, <2>2, FlattenIs
  <2>4. QED BY <2>3 DEF T, cat
<1>3. e \in Seq(Seq(S)) /\ \A q \in Seq(Seq(S)), x \in Seq(S) : Append(q, x) \in Seq(Seq(S))
  OBVIOUS
<1> HIDE DEF E, e
<1>4. \A q \in Seq(Seq(S)), x \in Seq(S) : Cat(S)[<<E(q), x>>] = E(q) \o x
  BY <1>1, CatStep
<1>5. FlattenSeq(e) = e
  BY <1>1, <1>2, <1>3
<1>6. \A q \in Seq(Seq(S)) : FlattenSeq(q) \in Seq(S)
  BY <1>1, <1>2
<1>7. \A q \in Seq(Seq(S)), x \in Seq(S) : FlattenSeq(Append(q, x)) = FlattenSeq(q) \o x
  <2>1. TAKE q \in Seq(Seq(S)), x \in Seq(S)
  <2>2. FlattenSeq(Append(q, x)) = E(Append(q, x)) /\ FlattenSeq(q) = E(q)
    BY <1>2, <1>3
  <2>3. QED BY <1>1, <1>4, <2>2
<1>8. QED BY <1>5, <1>6, <1>7 DEF e

\* Each element gives a sequence.
IsSpread(g, S, T) == g \in [T -> Seq(S)]
Spread(g, s1) == FlattenSeq([k \in DOMAIN s1 |-> g[s1[k]]])

LEMMA SpreadSteps ==
  ASSUME NEW S, NEW T, NEW g, IsSpread(g, S, T)
  PROVE  /\ Spread(g, <<>>) = <<>>
         /\ \A q \in Seq(T) : Spread(g, q) \in Seq(S)
         /\ \A q \in Seq(T), x \in T : Spread(g, Append(q, x)) = Spread(g, q) \o g[x]
<1> DEFINE m(q) == [k \in DOMAIN q |-> g[q[k]]]
<1>1. \A q \in Seq(T) : /\ m(q) \in Seq(Seq(S)) /\ Len(m(q)) = Len(q)
                         /\ \A k \in 1 .. Len(q) : m(q)[k] = g[q[k]]
  <2>1. TAKE q \in Seq(T)
  <2>2. DOMAIN q = 1 .. Len(q) /\ Len(q) \in Nat /\ \A k \in 1 .. Len(q) : q[k] \in T
    OBVIOUS
  <2>3. \A k \in 1 .. Len(q) : g[q[k]] \in Seq(S)
    BY <2>2 DEF IsSpread
  <2>4. m(q) \in [1 .. Len(q) -> Seq(S)]
    BY <2>2, <2>3
  <2>5. m(q) \in Seq(Seq(S))
    BY <2>2, <2>4, SeqDef
  <2>6. Len(m(q)) = Len(q) /\ \A k \in 1 .. Len(q) : m(q)[k] = g[q[k]]
    BY <2>2
  <2> HIDE DEF m
  <2>7. QED BY <2>5, <2>6
<1>2. \A q \in Seq(T), x \in T : m(Append(q, x)) = Append(m(q), g[x])
  <2>1. TAKE q \in Seq(T), x \in T
  <2> DEFINE r == Append(q, x)
             u == m(r)  w == Append(m(q), g[x])
  <2>2. r \in Seq(T) /\ Len(r) = Len(q) + 1 /\ r[Len(q) + 1] = x
        /\ \A k \in 1 .. Len(q) : r[k] = q[k]
    OBVIOUS
  <2>3. m(q) \in Seq(Seq(S)) /\ Len(m(q)) = Len(q) /\ \A k \in 1 .. Len(q) : m(q)[k] = g[q[k]]
    BY <1>1
  <2>4. w \in Seq(Seq(S)) /\ Len(w) = Len(q) + 1 /\ w[Len(q) + 1] = g[x]
        /\ \A k \in 1 .. Len(q) : w[k] = g[q[k]]
    <3>1. g[x] \in Seq(S)
      BY DEF IsSpread
    <3> DEFINE mq == m(q)
    <3>2. mq \in Seq(Seq(S)) /\ Len(mq) = Len(q) /\ \A k \in 1 .. Len(q) : mq[k] = g[q[k]]
      BY <2>3
    <3> HIDE DEF mq
    <3>3. /\ Append(mq, g[x]) \in Seq(Seq(S)) /\ Len(Append(mq, g[x])) = Len(q) + 1
          /\ Append(mq, g[x])[Len(q) + 1] = g[x]
          /\ \A k \in 1 .. Len(q) : Append(mq, g[x])[k] = mq[k]
      BY <3>1, <3>2
    <3>4. QED BY <3>2, <3>3 DEF mq
  <2> HIDE DEF r
  <2>5. u \in Seq(Seq(S)) /\ Len(u) = Len(q) + 1 /\ \A k \in 1 .. Len(q) + 1 : u[k] = g[r[k]]
    <3> HIDE DEF m
    <3>1. QED BY <1>1, <2>2
  <2> HIDE DEF u, w
  <2>6. \A k \in 1 .. Len(q) + 1 : u[k] = w[k]
    <3>1. TAKE k \in 1 .. Len(q) + 1
    <3>2. k \in 1 .. Len(q) \/ k = Len(q) + 1
      OBVIOUS
    <3>3. CASE k \in 1 .. Len(q)
      BY <2>2, <2>4, <2>5, <3>3
    <3>4. CASE k = Len(q) + 1
      BY <2>2, <2>4, <2>5, <3>4
    <3>5. QED BY <3>2, <3>3, <3>4
  <2>7. u = w
    <3> DEFINE U == Seq(S)
    <3>1. u \in Seq(U) /\ w \in Seq(U) /\ Len(u) = Len(w) /\ \A k \in 1 .. Len(u) : u[k] = w[k]
      BY <2>4, <2>5, <2>6
    <3> HIDE DEF U
    <3>2. QED BY <3>1, SameSeq
  <2>8. QED BY <2>7 DEF u, w, r
<1>3. m(<<>>) = <<>>
  OBVIOUS
<1>4. \A q : Spread(g, q) = FlattenSeq(m(q))
  BY DEF Spread
<1> HIDE DEF m
<1>5. \A q \in Seq(T), x \in T : FlattenSeq(Append(m(q), g[x])) = FlattenSeq(m(q)) \o g[x]
  <2>1. TAKE q \in Seq(T), x \in T
  <2>2. g[x] \in Seq(S) /\ m(q) \in Seq(Seq(S))
    BY <1>1 DEF IsSpread
  <2>3. QED BY <2>2, FlattenSteps
<1>6. \A q \in Seq(T) : FlattenSeq(m(q)) \in Seq(S)
  BY <1>1, FlattenSteps
<1>7. FlattenSeq(<<>>) = <<>>
  BY FlattenSteps
<1>8. Spread(g, <<>>) = <<>>
  BY <1>3, <1>4, <1>7
<1>9. \A q \in Seq(T), x \in T : Spread(g, Append(q, x)) = Spread(g, q) \o g[x]
  <2>1. TAKE q \in Seq(T), x \in T
  <2>0. g[x] \in Seq(S)
    BY DEF IsSpread
  <2>2. Spread(g, Append(q, x)) = FlattenSeq(m(Append(q, x)))
    BY <1>4
  <2>3. m(Append(q, x)) = Append(m(q), g[x])
    BY <1>2
  <2>4. QED BY <1>4, <1>5, <2>2, <2>3
<1>10. QED BY <1>4, <1>6, <1>8, <1>9

LEMMA SpreadConcat ==
  ASSUME NEW S, NEW T, NEW g, IsSpread(g, S, T), NEW p \in Seq(T), NEW q \in Seq(T)
  PROVE  Spread(g, p \o q) = Spread(g, p) \o Spread(g, q)
<1>0. \A r \in Seq(T), x \in T : Spread(g, Append(r, x)) = Spread(g, r) \o g[x]
  BY SpreadSteps
<1> DEFINE G == {r \in Seq(T) : Spread(g, p \o r) = Spread(g, p) \o Spread(g, r)}
<1>1. <<>> \in G
  <2>1. p \o <<>> = p /\ <<>> \in Seq(T)
    OBVIOUS
  <2>2. Spread(g, p) \o <<>> = Spread(g, p)
    BY SpreadSteps
  <2>3. Spread(g, <<>>) = <<>>
    BY SpreadSteps
  <2>4. QED BY <2>1, <2>2, <2>3
<1>2. ASSUME NEW r \in Seq(T), NEW x \in T, r \in G PROVE Append(r, x) \in G
  <2> DEFINE a == Spread(g, p)  b == Spread(g, r)  c == g[x]
  <2>1. p \o Append(r, x) = Append(p \o r, x) /\ p \o r \in Seq(T) /\ Append(r, x) \in Seq(T)
    OBVIOUS
  <2>2. Spread(g, p \o Append(r, x)) = Spread(g, p \o r) \o c
    <3> DEFINE pr == p \o r
    <3>0. pr \in Seq(T)
      BY <2>1
    <3> HIDE DEF pr
    <3>1. Spread(g, Append(pr, x)) = Spread(g, pr) \o g[x]
      BY <1>0, <3>0
    <3>2. QED BY <2>1, <3>1 DEF pr
  <2>3. Spread(g, p \o r) = a \o b
    BY <1>2
  <2>4. Spread(g, Append(r, x)) = b \o c
    BY <1>0
  <2>5. a \in Seq(S) /\ b \in Seq(S) /\ c \in Seq(S)
    BY SpreadSteps DEF IsSpread
  <2> HIDE DEF a, b, c
  <2>6. (a \o b) \o c = a \o (b \o c)
    BY <2>5
  <2>7. QED BY <2>1, <2>2, <2>3, <2>4, <2>6 DEF a
<1>3. Seq(T) \subseteq G
  <2> HIDE DEF G
  <2>1. QED BY <1>1, <1>2, SeqInduct
<1>4. QED BY <1>3

-----------------------------------------------------------------------------
(***************************************************************************)
(* The lines around the matches.                                           *)
(***************************************************************************)

Elems(q) == {q[k] : k \in 1 .. Len(q)}
Ascends(q) == \A j, k \in 1 .. Len(q) : j < k => q[j] < q[k]

\* Sequences that follow each other upwards.
Pieces(q) ==
  /\ \A k \in 1 .. Len(q) : Ascends(q[k])
  /\ \A j, k \in 1 .. Len(q) : j < k => \A x \in Elems(q[j]), y \in Elems(q[k]) : x < y

LEMMA Orders ==
  ASSUME NEW x \in Nat, NEW y \in Nat, NEW z \in Nat
  PROVE  /\ x = y => x <= y /\ ~(x < y)
         /\ x < y => x <= y /\ ~(y <= x) /\ ~(y < x)
         /\ x <= y /\ x # y => x < y
         /\ x <= y /\ y < z => x <= z
         /\ x < y /\ y < z => x < z
OBVIOUS

LEMMA AppendsTo ==
  ASSUME NEW T, NEW q \in Seq(T), NEW x \in T
  PROVE  /\ Append(q, x) \in Seq(T) /\ Len(q) \in Nat /\ Len(Append(q, x)) = Len(q) + 1
         /\ Append(q, x)[Len(q) + 1] = x
         /\ \A k \in 1 .. Len(q) : Append(q, x)[k] = q[k]
OBVIOUS

LEMMA ConcatElems ==
  ASSUME NEW T, NEW p \in Seq(T), NEW q \in Seq(T)
  PROVE  /\ p \o q \in Seq(T) /\ Len(p \o q) = Len(p) + Len(q)
         /\ \A k \in 1 .. Len(p) : (p \o q)[k] = p[k]
         /\ \A k \in 1 .. Len(q) : (p \o q)[Len(p) + k] = q[k]
         /\ Elems(p \o q) = Elems(p) \cup Elems(q)
<1> DEFINE r == p \o q
<1>1. /\ r \in Seq(T) /\ Len(r) = Len(p) + Len(q) /\ Len(p) \in Nat /\ Len(q) \in Nat
      /\ \A k \in 1 .. Len(p) : r[k] = p[k]
      /\ \A k \in 1 .. Len(q) : r[Len(p) + k] = q[k]
  OBVIOUS
<1> HIDE DEF r
<1>2. \A k \in 1 .. Len(r) : k \in 1 .. Len(p) \/ (k - Len(p) \in 1 .. Len(q) /\ k = Len(p) + (k - Len(p)))
  BY <1>1
<1>3. Elems(r) \subseteq Elems(p) \cup Elems(q)
  <2>1. SUFFICES ASSUME NEW k \in 1 .. Len(r) PROVE r[k] \in Elems(p) \cup Elems(q)
    BY DEF Elems
  <2>2. CASE k \in 1 .. Len(p)
    BY <1>1, <2>2 DEF Elems
  <2>3. CASE k - Len(p) \in 1 .. Len(q) /\ k = Len(p) + (k - Len(p))
    <3>1. r[k] = q[k - Len(p)]
      BY <1>1, <2>3
    <3>2. QED BY <2>3, <3>1 DEF Elems
  <2>4. QED BY <1>2, <2>2, <2>3
<1>4. Elems(p) \subseteq Elems(r)
  <2>1. \A k \in 1 .. Len(p) : k \in 1 .. Len(r) /\ r[k] = p[k]
    BY <1>1
  <2>2. QED BY <2>1 DEF Elems
<1>5. Elems(q) \subseteq Elems(r)
  <2>1. \A k \in 1 .. Len(q) : Len(p) + k \in 1 .. Len(r) /\ r[Len(p) + k] = q[k]
    BY <1>1
  <2>2. QED BY <2>1 DEF Elems
<1>6. QED BY <1>1, <1>3, <1>4, <1>5 DEF r

LEMMA FlattenAscends ==
  ASSUME NEW q \in Seq(Seq(Nat)), Pieces(q)
  PROVE  /\ FlattenSeq(q) \in Seq(Nat) /\ Ascends(FlattenSeq(q))
         /\ Elems(FlattenSeq(q)) = UNION {Elems(q[k]) : k \in 1 .. Len(q)}
<1> DEFINE U == Seq(Nat)
           F(p) == FlattenSeq(p)
           All(p) == UNION {Elems(p[k]) : k \in 1 .. Len(p)}
           G == {p \in Seq(U) : Pieces(p) => Ascends(F(p)) /\ Elems(F(p)) = All(p)}
<1>1. /\ F(<<>>) = <<>>
      /\ \A p \in Seq(U) : F(p) \in U
      /\ \A p \in Seq(U), x \in U : F(Append(p, x)) = F(p) \o x
  BY FlattenSteps
<1>2. <<>> \in G
  <2>1. Len(<<>>) = 0 /\ <<>> \in Seq(U)
    OBVIOUS
  <2>2. Ascends(<<>>) /\ Elems(<<>>) = {} /\ All(<<>>) = {}
    BY <2>1 DEF Ascends, Elems
  <2>3. QED BY <1>1, <2>1, <2>2
<1>3. ASSUME NEW p \in Seq(U), NEW x \in U, p \in G PROVE Append(p, x) \in G
  <2> DEFINE r == Append(p, x)
  <2>1. /\ r \in Seq(U) /\ Len(p) \in Nat /\ Len(r) = Len(p) + 1 /\ r[Len(p) + 1] = x
        /\ \A k \in 1 .. Len(p) : r[k] = p[k]
    <3> HIDE DEF U
    <3>1. QED BY AppendsTo
  <2>2. F(r) = F(p) \o x /\ F(p) \in U
    BY <1>1
  <2> HIDE DEF r, F
  <2>3. SUFFICES ASSUME Pieces(r)
                 PROVE  Ascends(F(r)) /\ Elems(F(r)) = All(r)
    BY <2>1 DEF r
  <2>4. \A k \in 1 .. Len(p) : k \in 1 .. Len(r)
    BY <2>1
  <2>5. Len(p) + 1 \in 1 .. Len(r)
    BY <2>1
  <2>6. Pieces(p) /\ Ascends(x)
    BY <2>1, <2>3, <2>4, <2>5 DEF Pieces
  <2>7. Ascends(F(p)) /\ Elems(F(p)) = All(p)
    BY <1>3, <2>6
  <2>8. \A y \in All(p), z \in Elems(x) : y < z
    <3>1. SUFFICES ASSUME NEW k \in 1 .. Len(p), NEW y \in Elems(p[k]), NEW z \in Elems(x)
                   PROVE  y < z
      OBVIOUS
    <3>2. k < Len(p) + 1 /\ k \in 1 .. Len(r) /\ r[k] = p[k]
      BY <2>1, <2>4
    <3>3. QED BY <2>1, <2>3, <2>5, <3>2 DEF Pieces
  <2>9. Elems(F(r)) = All(p) \cup Elems(x)
    BY <2>2, <2>7, ConcatElems
  <2>10. All(r) = All(p) \cup Elems(x)
    <3>1. All(r) \subseteq All(p) \cup Elems(x)
      <4>1. SUFFICES ASSUME NEW k \in 1 .. Len(r) PROVE Elems(r[k]) \subseteq All(p) \cup Elems(x)
        OBVIOUS
      <4>2. k \in 1 .. Len(p) \/ k = Len(p) + 1
        BY <2>1
      <4>3. QED BY <2>1, <4>2
    <3>2. All(p) \subseteq All(r)
      BY <2>1, <2>4
    <3>3. Elems(x) \subseteq All(r)
      BY <2>1, <2>5
    <3>4. QED BY <3>1, <3>2, <3>3
  <2>11. Ascends(F(r))
    <3> DEFINE a == F(p)  n == Len(a)  c == F(r)
    <3>1. /\ a \in Seq(Nat) /\ x \in Seq(Nat) /\ c = a \o x /\ n \in Nat /\ Len(x) \in Nat
      BY <2>2
    <3>2. /\ Len(c) = n + Len(x)
          /\ \A k \in 1 .. n : c[k] = a[k]
          /\ \A k \in 1 .. Len(x) : c[n + k] = x[k]
      BY <3>1, ConcatElems
    <3>3. \A k \in 1 .. n : a[k] \in All(p)
      BY <2>7 DEF Elems
    <3>4. \A k \in 1 .. Len(x) : x[k] \in Elems(x)
      BY DEF Elems
    <3> HIDE DEF a, c, n, All
    <3>5. SUFFICES ASSUME NEW j \in 1 .. Len(c), NEW k \in 1 .. Len(c), j < k
                   PROVE  c[j] < c[k]
      BY DEF Ascends, c
    <3>6. j \in 1 .. n \/ (j - n \in 1 .. Len(x) /\ j = n + (j - n))
      BY <3>1, <3>2
    <3>7. k \in 1 .. n \/ (k - n \in 1 .. Len(x) /\ k = n + (k - n))
      BY <3>1, <3>2
    <3>8. CASE k \in 1 .. n
      <4>1. j \in 1 .. n
        BY <3>1, <3>5, <3>8
      <4>2. a[j] < a[k]
        BY <2>7, <3>5, <3>8, <4>1 DEF Ascends, a, n
      <4>3. QED BY <3>2, <3>8, <4>1, <4>2
    <3>9. CASE k - n \in 1 .. Len(x) /\ k = n + (k - n)
      <4>0. c[k] = x[k - n]
        BY <3>2, <3>9
      <4>1. CASE j \in 1 .. n
        BY <2>8, <3>2, <3>3, <3>4, <3>9, <4>0, <4>1
      <4>2. CASE j - n \in 1 .. Len(x) /\ j = n + (j - n)
        <5>1. c[j] = x[j - n]
          BY <3>2, <4>2
        <5>2. j - n < k - n
          BY <3>1, <3>5
        <5>3. x[j - n] < x[k - n]
          BY <2>6, <3>9, <4>2, <5>2 DEF Ascends
        <5>4. QED BY <4>0, <5>1, <5>3
      <4>3. QED BY <3>6, <4>1, <4>2
    <3>10. QED BY <3>7, <3>8, <3>9
  <2>12. QED BY <2>9, <2>10, <2>11
<1>4. Seq(U) \subseteq G
  <2> HIDE DEF G, U
  <2>1. QED BY <1>2, <1>3, SeqInduct
<1>5. q \in Seq(U)
  OBVIOUS
<1>6. QED BY <1>1, <1>4, <1>5

LEMMA GrepFlatten == \A q : Grep!FlattenSeq(q) = FlattenSeq(q)
BY DEF Grep!FlattenSeq, FlattenSeq

MatchesOf(lines) == {i \in DOMAIN lines : lines[i] = "match"}

\* The matches, counted upwards.
LEMMA MatchIdxIs ==
  ASSUME NEW T, NEW lines \in Seq(T)
  PROVE  /\ Grep!MatchIdx(lines) \in Seq(1 .. Len(lines)) /\ Ascends(Grep!MatchIdx(lines))
         /\ Elems(Grep!MatchIdx(lines)) = MatchesOf(lines)
<1> DEFINE q == [i \in DOMAIN lines |-> IF lines[i] = "match" THEN <<i>> ELSE <<>>]
           idx == FlattenSeq(q)
<1>1. Len(lines) \in Nat /\ DOMAIN lines = 1 .. Len(lines)
  OBVIOUS
<1>2. /\ q \in Seq(Seq(Nat)) /\ Len(q) = Len(lines)
      /\ \A k \in 1 .. Len(q) : Ascends(q[k]) /\ Elems(q[k]) = IF lines[k] = "match" THEN {k} ELSE {}
  <2>1. \A k \in 1 .. Len(lines) : <<k>> \in Seq(Nat) /\ Ascends(<<k>>) /\ Elems(<<k>>) = {k}
    <3>1. TAKE k \in 1 .. Len(lines)
    <3> DEFINE o == <<k>>
    <3>2. o \in Seq(Nat) /\ Len(o) = 1 /\ o[1] = k
      OBVIOUS
    <3> HIDE DEF o
    <3>3. Ascends(o) /\ Elems(o) = {k}
      BY <3>2 DEF Ascends, Elems
    <3>4. QED BY <3>2, <3>3 DEF o
  <2>2. <<>> \in Seq(Nat) /\ Ascends(<<>>) /\ Elems(<<>>) = {}
    <3>1. Len(<<>>) = 0 /\ <<>> \in Seq(Nat)
      OBVIOUS
    <3>2. QED BY <3>1 DEF Ascends, Elems
  <2>3. \A k \in 1 .. Len(lines) : q[k] = IF lines[k] = "match" THEN <<k>> ELSE <<>>
    BY <1>1
  <2>4. \A k \in 1 .. Len(lines) : q[k] \in Seq(Nat)
    BY <2>1, <2>2, <2>3
  <2>5. q \in [1 .. Len(lines) -> Seq(Nat)]
    BY <1>1, <2>1, <2>2
  <2>6. q \in Seq(Seq(Nat)) /\ Len(q) = Len(lines)
    <3>1. q = [k \in 1 .. Len(lines) |-> q[k]]
      BY <1>1
    <3> HIDE DEF q
    <3>2. q \in Seq(Seq(Nat))
      BY <1>1, <2>5, SeqDef
    <3>3. DOMAIN q = 1 .. Len(lines)
      BY <2>5
    <3>4. QED BY <1>1, <3>2, <3>3
  <2> HIDE DEF q
  <2>7. QED BY <2>1, <2>2, <2>3, <2>6
<1> HIDE DEF q
<1>3. Pieces(q)
  BY <1>1, <1>2 DEF Pieces
<1>4. /\ idx \in Seq(Nat) /\ Ascends(idx)
      /\ Elems(idx) = UNION {Elems(q[k]) : k \in 1 .. Len(q)}
  BY <1>2, <1>3, FlattenAscends
<1>5. UNION {Elems(q[k]) : k \in 1 .. Len(q)} = MatchesOf(lines)
  <2>1. \A k \in 1 .. Len(q) : Elems(q[k]) = IF lines[k] = "match" THEN {k} ELSE {}
    BY <1>2
  <2>2. 1 .. Len(q) = DOMAIN lines
    BY <1>1, <1>2
  <2>3. \A x : (\E k \in 1 .. Len(q) : x \in Elems(q[k])) <=> (x \in DOMAIN lines /\ lines[x] = "match")
    <3>1. TAKE x
    <3>2. ASSUME NEW k \in 1 .. Len(q), x \in Elems(q[k])
          PROVE  x \in DOMAIN lines /\ lines[x] = "match"
      <4>1. Elems(q[k]) = IF lines[k] = "match" THEN {k} ELSE {}
        BY <2>1
      <4>2. lines[k] = "match" /\ x = k
        BY <3>2, <4>1
      <4>3. QED BY <2>2, <4>2
    <3>3. ASSUME x \in DOMAIN lines, lines[x] = "match"
          PROVE  \E k \in 1 .. Len(q) : x \in Elems(q[k])
      <4>1. x \in 1 .. Len(q) /\ Elems(q[x]) = {x}
        BY <2>1, <2>2, <3>3
      <4>2. QED BY <4>1
    <3>4. QED BY <3>2, <3>3, Zenon
  <2>4. \A x : x \in UNION {Elems(q[k]) : k \in 1 .. Len(q)} <=> \E k \in 1 .. Len(q) : x \in Elems(q[k])
    BY Zenon
  <2>5. \A x : x \in MatchesOf(lines) <=> x \in DOMAIN lines /\ lines[x] = "match"
    BY Zenon DEF MatchesOf
  <2>6. \A x : x \in UNION {Elems(q[k]) : k \in 1 .. Len(q)} <=> x \in MatchesOf(lines)
    BY <2>3, <2>4, <2>5, Zenon
  <2>7. QED BY <2>6, Zenon
<1> HIDE DEF idx
<1>6. idx \in Seq(1 .. Len(lines))
  <2>1. \A k \in 1 .. Len(idx) : idx[k] \in 1 .. Len(lines)
    BY <1>1, <1>4, <1>5 DEF Elems, MatchesOf
  <2>2. Len(idx) \in Nat /\ idx = [k \in 1 .. Len(idx) |-> idx[k]]
    BY <1>4
  <2>3. idx \in [1 .. Len(idx) -> 1 .. Len(lines)]
    BY <2>1, <2>2
  <2>4. QED BY <2>2, <2>3, SeqDef
<1>7. Grep!MatchIdx(lines) = idx
  BY GrepFlatten DEF Grep!MatchIdx, idx, q
<1>8. QED BY <1>4, <1>5, <1>6, <1>7

\* A sequence that goes upwards has as many elements as places.
LEMMA AscendingSize ==
  ASSUME NEW q \in Seq(Nat), Ascends(q)
  PROVE  Len(q) = Cardinality(Elems(q))
<1> DEFINE f == [k \in 1 .. Len(q) |-> q[k]]
<1>1. Len(q) \in Nat
  OBVIOUS
<1>2. \A j, k \in 1 .. Len(q) : q[j] = q[k] => j = k
  <2>1. TAKE j, k \in 1 .. Len(q)
  <2>2. q[j] \in Nat /\ q[k] \in Nat
    OBVIOUS
  <2>3. j < k => q[j] < q[k]
    BY DEF Ascends
  <2>4. k < j => q[k] < q[j]
    BY DEF Ascends
  <2>5. QED BY <1>1, <2>2, <2>3, <2>4
<1>3. f \in Bijection(1 .. Len(q), Elems(q))
  <2>1. f \in [1 .. Len(q) -> Elems(q)]
    BY DEF Elems
  <2>2. \A j, k \in 1 .. Len(q) : f[j] = f[k] => j = k
    BY <1>2
  <2>3. \A x \in Elems(q) : \E k \in 1 .. Len(q) : f[k] = x
    BY DEF Elems
  <2> HIDE DEF f
  <2>4. f \in Injection(1 .. Len(q), Elems(q))
    BY <2>1, <2>2 DEF Injection, IsInjective
  <2>5. f \in Surjection(1 .. Len(q), Elems(q))
    BY <2>1, <2>3 DEF Surjection
  <2>6. QED BY <2>4, <2>5 DEF Bijection
<1> HIDE DEF f
<1>4. IsFiniteSet(1 .. Len(q)) /\ Cardinality(1 .. Len(q)) = Len(q)
  <2>1. Cardinality(1 .. Len(q)) = IF 1 > Len(q) THEN 0 ELSE Len(q) - 1 + 1
    BY <1>1, FS_Interval
  <2>2. IsFiniteSet(1 .. Len(q))
    BY <1>1, FS_Interval
  <2>3. Cardinality(1 .. Len(q)) = Len(q)
    BY <1>1, <2>1
  <2>4. QED BY <2>2, <2>3
<1>5. ExistsBijection(1 .. Len(q), Elems(q))
  BY <1>3 DEF ExistsBijection
<1>6. QED BY <1>4, <1>5, FS_Bijection

-----------------------------------------------------------------------------
\* Two ascending sequences: marked are those of the one that are in the other,
\* if all that come before one of the other are in it.
LEMMA MarkedAre ==
  ASSUME NEW idx \in Seq(Nat), NEW shown \in Seq(Nat), Ascends(idx), Ascends(shown),
         \A x \in Elems(idx), y \in Elems(shown) : x < y => x \in Elems(shown)
  PROVE  /\ Grep!Marked(idx, shown) \in Seq(Nat)
         /\ Elems(Grep!Marked(idx, shown)) = Elems(idx) \cap Elems(shown)
<1> DEFINE Rec(M) == M = [n \in 0 .. Len(shown) |->
             IF n = 0 THEN <<>>
             ELSE LET m == M[n - 1]  mi == Len(m) IN
                  IF mi < Len(idx) /\ idx[mi + 1] = shown[n] THEN Append(m, shown[n]) ELSE m]
           M == CHOOSE M : Rec(M)
           f == [z \in Seq(Nat) \X Nat |->
                  IF Len(z[1]) < Len(idx) /\ idx[Len(z[1]) + 1] = z[2] THEN Append(z[1], z[2]) ELSE z[1]]
           U == Seq(Nat)
<1>1. Len(idx) \in Nat /\ Len(shown) \in Nat
  OBVIOUS
<1>2. IsStep(f, U, Nat)
  <2>1. \A z \in Seq(Nat) \X Nat : z[1] \in Seq(Nat) /\ Append(z[1], z[2]) \in Seq(Nat)
    OBVIOUS
  <2>2. QED BY <2>1 DEF IsStep
<1>3. \A m \in U, v \in Nat : f[<<m, v>>] = IF Len(m) < Len(idx) /\ idx[Len(m) + 1] = v
                                             THEN Append(m, v) ELSE m
  OBVIOUS
<1>4. <<>> \in U
  OBVIOUS
<1> HIDE DEF f, U
<1>5. PICK a \in [0 .. Len(shown) -> U] :
        a[0] = <<>> /\ \A k \in 1 .. Len(shown) : a[k] = f[<<a[k - 1], shown[k]>>]
  BY <1>2, <1>4, FoldExists
<1>6. \A k \in 1 .. Len(shown) : k - 1 \in 0 .. Len(shown) /\ a[k - 1] \in U /\ shown[k] \in Nat
  BY <1>1, <1>5
<1>7. Rec(a)
  <2>1. \A n \in 1 .. Len(shown) :
          a[n] = LET m == a[n - 1]  mi == Len(m) IN
                 IF mi < Len(idx) /\ idx[mi + 1] = shown[n] THEN Append(m, shown[n]) ELSE m
    BY <1>3, <1>5, <1>6
  <2>2. \A n \in 0 .. Len(shown) : n = 0 \/ n \in 1 .. Len(shown)
    BY <1>1
  <2>3. a = [n \in 0 .. Len(shown) |-> a[n]]
    BY <1>5
  <2>4. \A n \in 0 .. Len(shown) :
          a[n] = IF n = 0 THEN <<>> ELSE LET m == a[n - 1]  mi == Len(m) IN
                 IF mi < Len(idx) /\ idx[mi + 1] = shown[n] THEN Append(m, shown[n]) ELSE m
    BY <1>5, <2>1, <2>2
  <2>5. QED BY <2>3, <2>4
<1>8. Rec(M)
  <2> HIDE DEF Rec
  <2>1. QED BY <1>7
<1> HIDE DEF M
<1>9. /\ M[0] = <<>>
      /\ \A n \in 1 .. Len(shown) :
           M[n] = IF Len(M[n - 1]) < Len(idx) /\ idx[Len(M[n - 1]) + 1] = shown[n]
                    THEN Append(M[n - 1], shown[n]) ELSE M[n - 1]
  <2>1. \A n \in 1 .. Len(shown) : n \in 0 .. Len(shown) /\ n # 0
    BY <1>1
  <2>2. 0 \in 0 .. Len(shown)
    BY <1>1
  <2>3. QED BY <1>8, <2>1, <2>2
<1> HIDE DEF Rec
\* The first of idx, up to the one that is shown last.
<1> DEFINE Firsts(m) == m \in Seq(Nat) /\ Len(m) <= Len(idx) /\ \A k \in 1 .. Len(m) : m[k] = idx[k]
           H == {n \in 0 .. Len(shown) :
                  /\ Firsts(M[n]) /\ (n = 0 => Len(M[n]) = 0)
                  /\ n # 0 => \A k \in 1 .. Len(idx) : k <= Len(M[n]) <=> idx[k] <= shown[n]}
<1>10. 0 \in H
  <2> DEFINE e == <<>>
  <2>1. e \in Seq(Nat) /\ Len(e) = 0
    OBVIOUS
  <2>2. M[0] = e
    BY <1>9
  <2> HIDE DEF e
  <2>3. Firsts(M[0]) /\ Len(M[0]) = 0
    BY <1>1, <2>1, <2>2
  <2>4. 0 \in 0 .. Len(shown)
    BY <1>1
  <2> HIDE DEF Firsts
  <2>5. QED BY <2>3, <2>4
<1>11. ASSUME NEW n \in 1 .. Len(shown), n - 1 \in H PROVE n \in H
  <2> DEFINE m == M[n - 1]  w == M[n]  v == shown[n]  c == Len(m)
  <2>1. /\ n \in 0 .. Len(shown) /\ n # 0 /\ n - 1 \in 0 .. Len(shown) /\ v \in Nat
        /\ m \in Seq(Nat) /\ c \in Nat /\ c <= Len(idx) /\ \A k \in 1 .. c : m[k] = idx[k]
    BY <1>1, <1>11
  <2>2. \A k \in 1 .. Len(idx) : idx[k] \in Nat /\ idx[k] \in Elems(idx)
    BY DEF Elems
  <2>3. \A r \in 1 .. Len(shown) : shown[r] \in Nat /\ shown[r] \in Elems(shown)
    BY DEF Elems
  <2>4. \A k \in 1 .. c : idx[k] <= v
    <3>1. CASE n - 1 = 0
      BY <1>11, <3>1
    <3>2. CASE n - 1 # 0
      <4>1. n - 1 \in 1 .. Len(shown) /\ n - 1 < n
        BY <1>1, <2>1, <3>2
      <4>2. shown[n - 1] < v
        BY <4>1 DEF Ascends
      <4>0. \A k \in 1 .. Len(idx) : k <= c <=> idx[k] <= shown[n - 1]
        BY <1>11, <3>2
      <4>3. \A k \in 1 .. c : k \in 1 .. Len(idx) /\ idx[k] <= shown[n - 1]
        <5>1. TAKE k \in 1 .. c
        <5>2. k \in 1 .. Len(idx) /\ k <= c
          BY <1>1, <2>1
        <5>3. QED BY <4>0, <5>2
      <4>4. shown[n - 1] \in Nat /\ v \in Nat
        BY <2>1, <2>3, <4>1
      <4> HIDE DEF c, v
      <4>5. TAKE k \in 1 .. c
      <4>6. idx[k] \in Nat /\ idx[k] <= shown[n - 1]
        BY <2>2, <4>3
      <4>7. QED BY <4>2, <4>4, <4>6, Orders
    <3>3. QED BY <3>1, <3>2
  <2>5. \A k \in 1 .. Len(idx) : k > c => v <= idx[k]
    <3>1. SUFFICES ASSUME NEW k \in 1 .. Len(idx), k > c, idx[k] < v PROVE FALSE
      BY <2>1, <2>2
    <3>2. v \in Elems(shown)
      BY <2>3
    <3>3. idx[k] \in Elems(shown)
      BY <2>2, <3>1, <3>2
    <3>4. PICK r \in 1 .. Len(shown) : shown[r] = idx[k]
      BY <3>3 DEF Elems
    <3>5. r < n
      <4>1. SUFFICES ASSUME ~(r < n) PROVE FALSE
        OBVIOUS
      <4>2. r = n \/ n < r
        BY <1>1, <4>1
      <4>3. n < r => v < shown[r]
        BY DEF Ascends
      <4>4. idx[k] \in Nat /\ v \in Nat /\ shown[r] = idx[k] /\ shown[n] = v
        BY <2>1, <2>2, <3>4
      <4> HIDE DEF v
      <4>5. CASE r = n
        BY <3>1, <4>4, <4>5, Orders
      <4>6. CASE n < r
        BY <3>1, <4>3, <4>4, <4>6, Orders
      <4>7. QED BY <4>2, <4>5, <4>6
    <3>6. n - 1 # 0 /\ n - 1 \in 1 .. Len(shown)
      BY <1>1, <2>1, <3>5
    <3>7. ~(idx[k] <= shown[n - 1])
      <4>1. \A j \in 1 .. Len(idx) : j <= c <=> idx[j] <= shown[n - 1]
        BY <1>11, <3>6
      <4>2. ~(k <= c)
        BY <2>1, <3>1
      <4>3. QED BY <4>1, <4>2
    <3>8. r <= n - 1
      BY <1>1, <3>5
    <3>9. shown[r] <= shown[n - 1]
      <4>1. r = n - 1 \/ r < n - 1
        BY <1>1, <3>8
      <4>2. r < n - 1 => shown[r] < shown[n - 1]
        BY <3>6 DEF Ascends
      <4>3. shown[r] \in Nat /\ shown[n - 1] \in Nat
        BY <2>3, <3>6
      <4>4. CASE r = n - 1
        BY <4>3, <4>4, Orders
      <4>5. CASE r < n - 1
        BY <4>2, <4>3, <4>5, Orders
      <4>6. QED BY <4>1, <4>4, <4>5
    <3>10. QED BY <3>4, <3>7, <3>9
  <2>6. \A j, k \in 1 .. Len(idx) : j < k => idx[j] < idx[k]
    BY DEF Ascends
  <2>7. w = IF c < Len(idx) /\ idx[c + 1] = v THEN Append(m, v) ELSE m
    BY <1>9
  <2> HIDE DEF m, w, v, c
  <2>8. CASE c < Len(idx) /\ idx[c + 1] = v
    <3>1. c = Len(m)
      BY DEF c
    <3>2. /\ w \in Seq(Nat) /\ Len(w) = c + 1 /\ w[c + 1] = v
          /\ \A k \in 1 .. c : w[k] = m[k]
      BY <2>1, <2>7, <2>8, <3>1, AppendsTo
    <3>3. \A k \in 1 .. c + 1 : w[k] = idx[k]
      <4>1. TAKE k \in 1 .. c + 1
      <4>2. k \in 1 .. c \/ k = c + 1
        BY <2>1
      <4>3. CASE k \in 1 .. c
        BY <2>1, <3>2, <4>3
      <4>4. CASE k = c + 1
        BY <2>8, <3>2, <4>4
      <4>5. QED BY <4>2, <4>3, <4>4
    <3>4. Firsts(w)
      BY <1>1, <2>1, <2>8, <3>2, <3>3
    <3>5. \A k \in 1 .. Len(idx) : k <= c + 1 <=> idx[k] <= v
      <4>1. TAKE k \in 1 .. Len(idx)
      <4>2. CASE k <= c
        <5>1. k \in 1 .. c
          BY <1>1, <2>1, <4>2
        <5>2. k <= c + 1
          BY <2>1, <4>2
        <5>3. QED BY <2>4, <5>1, <5>2
      <4>3. CASE k = c + 1
        BY <2>1, <2>2, <2>8, <4>3
      <4>4. CASE k > c + 1
        <5>1. c + 1 \in 1 .. Len(idx)
          BY <1>1, <2>1, <2>8
        <5>2. v < idx[k]
          BY <2>6, <2>8, <4>4, <5>1
        <5>3. ~(k <= c + 1) /\ ~(idx[k] <= v)
          BY <2>1, <2>2, <4>4, <5>2
        <5>4. QED BY <5>3
      <4>5. QED BY <1>1, <2>1, <4>2, <4>3, <4>4
    <3>6. QED BY <2>1, <3>2, <3>4, <3>5 DEF w, v
  <2>9. CASE ~(c < Len(idx) /\ idx[c + 1] = v)
    <3>1. w = m
      BY <2>7, <2>9
    <3>2. Firsts(w) /\ Len(w) = c
      BY <2>1, <3>1 DEF c
    <3>3. \A k \in 1 .. Len(idx) : k <= c <=> idx[k] <= v
      <4>1. TAKE k \in 1 .. Len(idx)
      <4>2. CASE k <= c
        <5>1. k \in 1 .. c
          BY <1>1, <2>1, <4>2
        <5>2. QED BY <2>4, <4>2, <5>1
      <4>3. CASE k > c
        <5>1. c < Len(idx) /\ c + 1 \in 1 .. Len(idx) /\ c + 1 > c
          BY <1>1, <2>1, <4>3
        <5>2. v <= idx[c + 1] /\ idx[c + 1] # v
          BY <2>5, <2>9, <5>1
        <5>3. v \in Nat /\ idx[c + 1] \in Nat /\ idx[k] \in Nat /\ v < idx[c + 1]
          <6>1. v \in Nat /\ idx[c + 1] \in Nat /\ idx[k] \in Nat
            BY <2>1, <2>2, <5>1
          <6>2. QED BY <5>2, <6>1, Orders
        <5>0. k \in Nat /\ c \in Nat
          BY <1>1, <2>1
        <5>4. k = c + 1 \/ c + 1 < k
          BY <4>3, <5>0
        <5>5. c + 1 < k => idx[c + 1] < idx[k]
          BY <2>6, <5>1
        <5>6. v < idx[k]
          <6>1. CASE k = c + 1
            BY <5>3, <6>1
          <6>2. CASE c + 1 < k
            <7>1. idx[c + 1] < idx[k]
              BY <5>5, <6>2
            <7>2. QED BY <5>3, <7>1, Orders
          <6>3. QED BY <5>4, <6>1, <6>2
        <5>7. ~(k <= c) /\ ~(idx[k] <= v)
          BY <4>3, <5>0, <5>3, <5>6, Orders
        <5>8. QED BY <5>7
      <4>4. QED BY <1>1, <2>1, <4>2, <4>3
    <3>4. QED BY <2>1, <3>2, <3>3 DEF w, v
  <2>10. QED BY <2>8, <2>9
<1>12. Len(shown) \in H
  <2> HIDE DEF H
  <2>1. 0 .. Len(shown) \subseteq H
    BY <1>1, <1>10, <1>11, Along
  <2>2. Len(shown) \in 0 .. Len(shown)
    BY <1>1
  <2>3. QED BY <2>1, <2>2
<1> DEFINE n == Len(shown)  w == M[n]
<1>13. Grep!Marked(idx, shown) = w
  BY DEF Grep!Marked, M, Rec
<1>14. Firsts(w) /\ w \in Seq(Nat)
  BY <1>12
<1>15. CASE n = 0
  <2>1. Len(w) = 0
    BY <1>12, <1>15
  <2>2. Elems(w) = {} /\ Elems(shown) = {}
    BY <1>15, <2>1 DEF Elems
  <2>3. QED BY <1>13, <1>14, <2>2
<1>16. CASE n # 0
  <2>1. \A k \in 1 .. Len(idx) : k <= Len(w) <=> idx[k] <= shown[n]
    BY <1>12, <1>16
  <2>2. n \in 1 .. n /\ shown[n] \in Elems(shown) /\ shown[n] \in Nat
    BY <1>1, <1>16 DEF Elems
  <2>3. \A k \in 1 .. Len(idx) : idx[k] \in Nat /\ idx[k] \in Elems(idx)
    BY DEF Elems
  <2> HIDE DEF w
  <2>4. Elems(w) \subseteq Elems(idx) \cap Elems(shown)
    <3>1. SUFFICES ASSUME NEW k \in 1 .. Len(w) PROVE w[k] \in Elems(idx) \cap Elems(shown)
      BY DEF Elems
    <3>2. k \in 1 .. Len(idx) /\ w[k] = idx[k] /\ k <= Len(w)
      BY <1>1, <1>14
    <3>3. idx[k] <= shown[n]
      BY <2>1, <3>2
    <3>4. idx[k] = shown[n] \/ idx[k] < shown[n]
      BY <2>2, <2>3, <3>2, <3>3
    <3>5. idx[k] \in Elems(shown)
      BY <2>2, <2>3, <3>2, <3>4
    <3>6. QED BY <2>3, <3>2, <3>5
  <2>5. Elems(idx) \cap Elems(shown) \subseteq Elems(w)
    <3>1. SUFFICES ASSUME NEW x \in Elems(idx), x \in Elems(shown) PROVE x \in Elems(w)
      OBVIOUS
    <3>2. PICK k \in 1 .. Len(idx) : x = idx[k]
      BY DEF Elems
    <3>3. PICK r \in 1 .. n : x = shown[r]
      BY <3>1 DEF Elems
    <3>4. x <= shown[n]
      <4>1. r < n => shown[r] < shown[n]
        BY <2>2 DEF Ascends
      <4>2. r = n \/ r < n
        BY <1>1
      <4>3. QED BY <2>2, <2>3, <3>2, <3>3, <4>1, <4>2
    <3>5. k \in 1 .. Len(w)
      BY <1>1, <1>14, <2>1, <3>2, <3>4
    <3>6. w[k] = x
      BY <1>14, <3>2, <3>5
    <3>7. QED BY <3>5, <3>6 DEF Elems
  <2>6. QED BY <1>13, <1>14, <2>4, <2>5
<1>17. QED BY <1>15, <1>16

-----------------------------------------------------------------------------
\* The span around a match, in a text of n lines.
Lo(i, before) == IF i - before < 1 THEN 1 ELSE i - before
Hi(n, i, after) == IF i + after > n THEN n ELSE i + after

Span == [lo : Nat, hi : Nat]

\* The lines near one of some matches.
Near(n, before, after, ms) ==
  {x \in 1 .. n : \E i \in ms : x \in Lo(i, before) .. Hi(n, i, after)}

Inside(spans) == UNION {spans[k].lo .. spans[k].hi : k \in 1 .. Len(spans)}

\* Spans within n lines, in order, with a line between any two.
Apart(n, spans) ==
  /\ \A k \in 1 .. Len(spans) : 1 <= spans[k].lo /\ spans[k].lo <= spans[k].hi /\ spans[k].hi <= n
  /\ \A j, k \in 1 .. Len(spans) : j < k => spans[j].hi + 1 < spans[k].lo

LEMMA SpanAround ==
  ASSUME NEW n \in Nat, NEW before \in Nat, NEW after \in Nat, NEW i \in 1 .. n
  PROVE  /\ Lo(i, before) \in 1 .. i /\ Hi(n, i, after) \in i .. n
         /\ \A j \in 1 .. n : j < i => Lo(j, before) <= Lo(i, before) /\ Hi(n, j, after) <= Hi(n, i, after)
BY DEF Lo, Hi

\* Two spans that meet are one.
LEMMA SpansMeet ==
  ASSUME NEW a \in Nat, NEW b \in Nat, NEW x \in Nat, NEW y \in Nat,
         a <= x, x <= b + 1, b <= y
  PROVE  a .. y = (a .. b) \cup (x .. y)
OBVIOUS

\* What ends before the start of a span ends before its end.
LEMMA EndsBefore ==
  ASSUME NEW h \in Nat, NEW x \in Nat, NEW y \in Nat, NEW z \in Nat
  PROVE  /\ h + 1 < x /\ x <= y => h <= y
         /\ h <= y /\ y + 1 < z => h + 1 < z
OBVIOUS

\* One match more. p is the match before it.
LEMMA OneSpanMore ==
  ASSUME NEW n \in Nat, NEW T, NEW lines \in Seq(T), Len(lines) = n,
         NEW before \in Nat, NEW after \in Nat,
         NEW spans \in Seq(Span), Apart(n, spans), NEW p \in 0 .. n, NEW i \in 1 .. n, p < i,
         p = 0 => Len(spans) = 0,
         p # 0 => /\ Len(spans) # 0 /\ spans[Len(spans)].hi = Hi(n, p, after)
                  /\ spans[Len(spans)].lo <= Lo(p, before),
         NEW w, w = Grep!WithSpan(lines, before, after, spans, i)
  PROVE  /\ w \in Seq(Span) /\ Apart(n, w) /\ Len(w) # 0
         /\ w[Len(w)].hi = Hi(n, i, after) /\ w[Len(w)].lo <= Lo(i, before)
         /\ Inside(w) = Inside(spans) \cup (Lo(i, before) .. Hi(n, i, after))
<1> DEFINE lo == Lo(i, before)  hi == Hi(n, i, after)  c == Len(spans)
<1>1. /\ lo \in 1 .. i /\ hi \in i .. n /\ c \in Nat
      /\ p # 0 => Lo(p, before) <= lo /\ Hi(n, p, after) <= hi
  <2>1. lo \in 1 .. i /\ hi \in i .. n
    BY SpanAround
  <2>2. c \in Nat
    OBVIOUS
  <2>3. p # 0 => p \in 1 .. n
    OBVIOUS
  <2>4. \A j \in 1 .. n : j < i => Lo(j, before) <= lo /\ Hi(n, j, after) <= hi
    BY SpanAround
  <2> HIDE DEF lo, hi, c
  <2>5. QED BY <2>1, <2>2, <2>3, <2>4
<1>2. \A k \in 1 .. c : spans[k] \in Span /\ spans[k].lo \in Nat /\ spans[k].hi \in Nat
  <2>1. \A k \in 1 .. c : spans[k] \in Span
    OBVIOUS
  <2>2. \A z \in Span : z.lo \in Nat /\ z.hi \in Nat
    BY DEF Span
  <2>3. QED BY <2>1, <2>2
<1>3. /\ \A k \in 1 .. c : 1 <= spans[k].lo /\ spans[k].lo <= spans[k].hi /\ spans[k].hi <= n
      /\ \A j, k \in 1 .. c : j < k => spans[j].hi + 1 < spans[k].lo
  BY DEF Apart
<1>4. w = IF spans # <<>> /\ lo <= spans[c].hi + 1
            THEN [spans EXCEPT ![c].hi = IF hi > @ THEN hi ELSE @]
            ELSE Append(spans, [lo |-> lo, hi |-> hi])
  BY DEF Grep!WithSpan, Grep!Touches, Grep!Last, Last, Lo, Hi
<1>5. spans # <<>> <=> c # 0
  OBVIOUS
<1> HIDE DEF lo, hi
<1>6. CASE c # 0 /\ lo <= spans[c].hi + 1
  <2> DEFINE s1 == [spans[c] EXCEPT !.hi = hi]
  <2>1. p # 0 /\ c \in 1 .. c
    BY <1>1, <1>6
  <2>2. Lo(p, before) \in Nat /\ Hi(n, p, after) \in Nat
    <3>1. p \in 1 .. n
      BY <2>1
    <3>2. Lo(p, before) \in 1 .. p /\ Hi(n, p, after) \in p .. n
      BY <3>1, SpanAround
    <3>3. QED BY <3>1, <3>2
  <2>3. spans[c].hi <= hi /\ spans[c].lo <= lo
    BY <1>1, <1>2, <2>1, <2>2
  <2>4. w = [spans EXCEPT ![c] = s1]
    <3>1. (IF hi > spans[c].hi THEN hi ELSE spans[c].hi) = hi
      BY <1>1, <1>2, <2>1, <2>3
    <3>2. w = [spans EXCEPT ![c].hi = IF hi > @ THEN hi ELSE @]
      BY <1>4, <1>5, <1>6
    <3>3. QED BY <3>1, <3>2
  <2>5. s1 \in Span /\ s1.hi = hi /\ s1.lo = spans[c].lo
    <3>1. \A z \in Span : /\ [z EXCEPT !.hi = hi] \in Span /\ [z EXCEPT !.hi = hi].hi = hi
                          /\ [z EXCEPT !.hi = hi].lo = z.lo
      <4>1. hi \in Nat
        BY <1>1
      <4>2. QED BY <4>1 DEF Span
    <3>2. spans[c] \in Span
      BY <1>2, <2>1
    <3>3. QED BY <3>1, <3>2
  <2> HIDE DEF s1
  <2>6. /\ w \in Seq(Span) /\ Len(w) = c /\ w[c] = s1
        /\ \A k \in 1 .. c : k # c => w[k] = spans[k]
    <3> HIDE DEF c
    <3>0. DOMAIN spans = 1 .. c /\ spans \in [1 .. c -> Span] /\ c = Len(spans)
      BY DEF c
    <3>1. w \in [1 .. c -> Span] /\ w[c] = s1 /\ \A k \in 1 .. c : k # c => w[k] = spans[k]
      BY <2>1, <2>4, <2>5, <3>0
    <3>2. w \in Seq(Span)
      BY <1>1, <3>1, SeqDef
    <3>3. Len(w) = c
      BY <1>1, <3>1, <3>2
    <3>4. QED BY <3>1, <3>2, <3>3
  <2>7. \A k \in 1 .. c : /\ w[k].lo = spans[k].lo
                          /\ k # c => w[k].hi = spans[k].hi
                          /\ k = c => w[k].hi = hi
    BY <2>5, <2>6
  <2> HIDE DEF c
  <2>8. Apart(n, w)
    <3>1. \A k \in 1 .. c : 1 <= w[k].lo /\ w[k].lo <= w[k].hi /\ w[k].hi <= n
      <4>1. TAKE k \in 1 .. c
      <4>2. CASE k # c
        BY <1>3, <2>7, <4>2
      <4>3. CASE k = c
        BY <1>1, <1>2, <1>3, <2>1, <2>3, <2>7, <4>3
      <4>4. QED BY <4>2, <4>3
    <3>2. \A j, k \in 1 .. c : j < k => w[j].hi + 1 < w[k].lo
      <4>1. TAKE j, k \in 1 .. c
      <4>2. HAVE j < k
      <4>3. j # c
        BY <1>1, <4>2
      <4>4. w[j].hi = spans[j].hi /\ w[k].lo = spans[k].lo
        BY <2>7, <4>3
      <4>5. QED BY <1>3, <4>2, <4>4
    <3>3. QED BY <2>6, <3>1, <3>2 DEF Apart
  <2>9. Inside(w) = Inside(spans) \cup (lo .. hi)
    <3>1. spans[c].lo .. hi = (spans[c].lo .. spans[c].hi) \cup (lo .. hi)
      <4>1. spans[c].lo \in Nat /\ spans[c].hi \in Nat /\ lo \in Nat /\ hi \in Nat
        BY <1>1, <1>2, <2>1
      <4>2. spans[c].lo <= lo /\ lo <= spans[c].hi + 1 /\ spans[c].hi <= hi
        BY <1>6, <2>3
      <4> DEFINE x == spans[c].lo  y == spans[c].hi
      <4> HIDE DEF c, x, y
      <4>3. x .. hi = (x .. y) \cup (lo .. hi)
        <5>1. x \in Nat /\ y \in Nat /\ x <= lo /\ lo <= y + 1 /\ y <= hi
          BY <4>1, <4>2 DEF x, y
        <5>2. QED BY <4>1, <5>1, SpansMeet
      <4>4. QED BY <4>3 DEF x, y
    <3>2. \A k \in 1 .. c : (w[k].lo .. w[k].hi) = IF k = c THEN (spans[k].lo .. spans[k].hi) \cup (lo .. hi)
                                                     ELSE spans[k].lo .. spans[k].hi
      BY <2>7, <3>1
    <3>3. \A x : (\E k \in 1 .. c : x \in w[k].lo .. w[k].hi)
                   <=> ((\E k \in 1 .. c : x \in spans[k].lo .. spans[k].hi) \/ x \in lo .. hi)
      BY <2>1, <3>2, Zenon
    <3>4. \A x : x \in Inside(w) <=> \E k \in 1 .. c : x \in w[k].lo .. w[k].hi
      BY <2>6, Zenon DEF Inside
    <3>5. \A x : x \in Inside(spans) <=> \E k \in 1 .. c : x \in spans[k].lo .. spans[k].hi
      BY Zenon DEF Inside, c
    <3>6. \A x : x \in Inside(w) <=> x \in Inside(spans) \/ x \in lo .. hi
      BY <3>3, <3>4, <3>5, Zenon
    <3>7. QED BY <3>6
  <2>10. w[c].hi = hi /\ w[c].lo <= lo
    BY <2>1, <2>3, <2>7
  <2>11. QED BY <1>6, <2>6, <2>8, <2>9, <2>10 DEF lo, hi, c
<1>7. CASE ~(c # 0 /\ lo <= spans[c].hi + 1)
  <2> DEFINE s1 == [lo |-> lo, hi |-> hi]
  <2>1. w = Append(spans, s1)
    BY <1>4, <1>5, <1>7
  <2>2. s1 \in Span /\ s1.lo = lo /\ s1.hi = hi
    BY <1>1 DEF Span
  <2> HIDE DEF s1
  <2>3. /\ w \in Seq(Span) /\ Len(w) = c + 1 /\ w[c + 1] = s1
        /\ \A k \in 1 .. c : w[k] = spans[k]
    BY <2>1, <2>2, AppendsTo
  <2>4. \A k \in 1 .. c : spans[k].hi + 1 < lo
    <3>1. TAKE k \in 1 .. c
    <3>2. c # 0 /\ c \in 1 .. c
      BY <1>1
    <3>3. spans[c].hi + 1 < lo
      BY <1>1, <1>2, <1>7, <3>2
    <3>4. spans[k].hi <= spans[c].hi
      <4>1. CASE k = c
        BY <1>2, <4>1
      <4>2. CASE k # c
        <5>1. k < c
          BY <1>1, <4>2
        <5>2. spans[k].hi + 1 < spans[c].lo /\ spans[c].lo <= spans[c].hi
          BY <1>3, <3>2, <5>1
        <5>3. spans[k].hi \in Nat /\ spans[c].lo \in Nat /\ spans[c].hi \in Nat
          BY <1>2, <3>2
        <5> HIDE DEF c
        <5>4. QED BY <5>2, <5>3, EndsBefore
      <4>3. QED BY <4>1, <4>2
    <3>5. spans[k].hi \in Nat /\ spans[c].hi \in Nat /\ lo \in Nat
      BY <1>1, <1>2, <3>2
    <3> HIDE DEF c
    <3>6. QED BY <3>3, <3>4, <3>5, EndsBefore
  <2> HIDE DEF c
  <2>5. \A k \in 1 .. c + 1 : k \in 1 .. c \/ k = c + 1
    BY <1>1
  <2>6. Apart(n, w)
    <3>1. \A k \in 1 .. c + 1 : 1 <= w[k].lo /\ w[k].lo <= w[k].hi /\ w[k].hi <= n
      <4>1. TAKE k \in 1 .. c + 1
      <4>2. CASE k \in 1 .. c
        BY <1>3, <2>3, <4>2
      <4>3. CASE k = c + 1
        BY <1>1, <2>2, <2>3, <4>3
      <4>4. QED BY <2>5, <4>2, <4>3
    <3>2. \A j, k \in 1 .. c + 1 : j < k => w[j].hi + 1 < w[k].lo
      <4>1. TAKE j, k \in 1 .. c + 1
      <4>2. HAVE j < k
      <4>3. j \in 1 .. c
        BY <1>1, <4>2
      <4>4. CASE k \in 1 .. c
        BY <1>3, <2>3, <4>2, <4>3, <4>4
      <4>5. CASE k = c + 1
        BY <2>2, <2>3, <2>4, <4>3, <4>5
      <4>6. QED BY <2>5, <4>4, <4>5
    <3>3. QED BY <2>3, <3>1, <3>2 DEF Apart
  <2>7. Inside(w) = Inside(spans) \cup (lo .. hi)
    <3>1. c + 1 \in 1 .. c + 1 /\ \A k \in 1 .. c : k \in 1 .. c + 1
      BY <1>1
    <3>2. w[c + 1].lo .. w[c + 1].hi = lo .. hi
      BY <2>2, <2>3
    <3>3. \A x : (\E k \in 1 .. c + 1 : x \in w[k].lo .. w[k].hi)
                   <=> ((\E k \in 1 .. c : x \in spans[k].lo .. spans[k].hi) \/ x \in lo .. hi)
      <4>1. TAKE x
      <4>2. ASSUME NEW k \in 1 .. c + 1, x \in w[k].lo .. w[k].hi
            PROVE  (\E m \in 1 .. c : x \in spans[m].lo .. spans[m].hi) \/ x \in lo .. hi
        BY <2>3, <2>5, <3>2, <4>2
      <4>3. ASSUME NEW k \in 1 .. c, x \in spans[k].lo .. spans[k].hi
            PROVE  \E m \in 1 .. c + 1 : x \in w[m].lo .. w[m].hi
        BY <2>3, <3>1, <4>3
      <4>4. x \in lo .. hi => \E m \in 1 .. c + 1 : x \in w[m].lo .. w[m].hi
        BY <3>1, <3>2
      <4>5. QED BY <4>2, <4>3, <4>4
    <3>4. \A x : x \in Inside(w) <=> \E k \in 1 .. c + 1 : x \in w[k].lo .. w[k].hi
      BY <2>3, Zenon DEF Inside
    <3>5. \A x : x \in Inside(spans) <=> \E k \in 1 .. c : x \in spans[k].lo .. spans[k].hi
      BY Zenon DEF Inside, c
    <3>6. \A x : x \in Inside(w) <=> x \in Inside(spans) \/ x \in lo .. hi
      BY <3>3, <3>4, <3>5, Zenon
    <3>7. QED BY <3>6
  <2>8. w[c + 1].hi = hi /\ w[c + 1].lo <= lo
    BY <1>1, <2>2, <2>3
  <2>9. QED BY <1>1, <2>3, <2>6, <2>7, <2>8 DEF lo, hi
<1>8. QED BY <1>6, <1>7

LEMMA WithSpanTyped ==
  ASSUME NEW T, NEW lines \in Seq(T), NEW before \in Nat, NEW after \in Nat,
         NEW spans \in Seq(Span), NEW i \in 1 .. Len(lines)
  PROVE  Grep!WithSpan(lines, before, after, spans, i) \in Seq(Span)
<1> DEFINE lo == Lo(i, before)  hi == Hi(Len(lines), i, after)  c == Len(spans)
           w == Grep!WithSpan(lines, before, after, spans, i)
<1>1. lo \in Nat /\ hi \in Nat /\ c \in Nat
  <2>1. Len(lines) \in Nat /\ c \in Nat
    OBVIOUS
  <2>2. lo \in 1 .. i /\ hi \in i .. Len(lines)
    BY <2>1, SpanAround
  <2> HIDE DEF lo, hi, c
  <2>3. QED BY <2>1, <2>2
<1>2. w = IF spans # <<>> /\ lo <= spans[c].hi + 1
            THEN [spans EXCEPT ![c].hi = IF hi > @ THEN hi ELSE @]
            ELSE Append(spans, [lo |-> lo, hi |-> hi])
  BY DEF Grep!WithSpan, Grep!Touches, Grep!Last, Last, Lo, Hi
<1> HIDE DEF lo, hi, w
<1>3. spans # <<>> => c # 0
  OBVIOUS
<1>4. CASE spans # <<>> /\ lo <= spans[c].hi + 1
  <2> DEFINE s1 == [spans[c] EXCEPT !.hi = IF hi > @ THEN hi ELSE @]
  <2>1. c \in 1 .. c
    BY <1>1, <1>3, <1>4
  <2>2. s1 \in Span
    <3>1. \A z \in Span : [z EXCEPT !.hi = IF hi > @ THEN hi ELSE @] \in Span
      BY <1>1 DEF Span
    <3>2. spans[c] \in Span
      BY <2>1
    <3>3. QED BY <3>1, <3>2
  <2>3. w = [spans EXCEPT ![c] = s1]
    BY <1>2, <1>4
  <2> HIDE DEF s1, c
  <2>4. DOMAIN spans = 1 .. c /\ spans \in [1 .. c -> Span]
    BY DEF c
  <2>5. w \in [1 .. c -> Span]
    BY <2>2, <2>3, <2>4
  <2>6. QED BY <1>1, <2>5, SeqDef DEF w
<1>5. CASE ~(spans # <<>> /\ lo <= spans[c].hi + 1)
  <2> DEFINE s1 == [lo |-> lo, hi |-> hi]
  <2>1. s1 \in Span
    BY <1>1 DEF Span
  <2>2. w = Append(spans, s1)
    BY <1>2, <1>5
  <2> HIDE DEF s1
  <2>3. QED BY <2>1, <2>2 DEF w
<1>6. QED BY <1>4, <1>5

\* Near grows by one match at a time.
LEMMA NearGrows ==
  ASSUME NEW n \in Nat, NEW before \in Nat, NEW after \in Nat, NEW ms, NEW i \in 1 .. n,
         NEW ns, ns = ms \cup {i}
  PROVE  Near(n, before, after, ns) = Near(n, before, after, ms) \cup (Lo(i, before) .. Hi(n, i, after))
<1>1. Lo(i, before) \in 1 .. i /\ Hi(n, i, after) \in i .. n
  BY SpanAround
<1>2. Lo(i, before) .. Hi(n, i, after) \subseteq 1 .. n
  BY <1>1
<1>3. QED BY <1>2 DEF Near

LEMMA SpansAre ==
  ASSUME NEW T, NEW lines \in Seq(T), NEW before \in Nat, NEW after \in Nat
  PROVE  /\ Grep!Spans(lines, before, after) \in Seq(Span)
         /\ Apart(Len(lines), Grep!Spans(lines, before, after))
         /\ Inside(Grep!Spans(lines, before, after)) = Near(Len(lines), before, after, MatchesOf(lines))
<1> DEFINE n == Len(lines)
           idx == Grep!MatchIdx(lines)
           W(spans, i) == Grep!WithSpan(lines, before, after, spans, i)
           Rec(M) == M = [k \in 0 .. Len(idx) |->
             IF k = 0 THEN <<>> ELSE LET spans == M[k - 1] IN Grep!WithSpan(lines, before, after, spans, idx[k])]
           M == CHOOSE M : Rec(M)
           U == Seq(Span)
           f == [z \in U \X (1 .. n) |-> W(z[1], z[2])]
<1>1. /\ n \in Nat /\ idx \in Seq(1 .. n) /\ Len(idx) \in Nat /\ Ascends(idx)
      /\ Elems(idx) = MatchesOf(lines) /\ \A k \in 1 .. Len(idx) : idx[k] \in 1 .. n
  <2>1. n \in Nat
    OBVIOUS
  <2>2. idx \in Seq(1 .. n) /\ Ascends(idx) /\ Elems(idx) = MatchesOf(lines)
    BY MatchIdxIs
  <2> HIDE DEF idx, n
  <2>3. QED BY <2>1, <2>2
<1>2. \A spans \in U, i \in 1 .. n : W(spans, i) \in U
  BY WithSpanTyped
<1>3. Grep!Spans(lines, before, after) = M[Len(idx)]
  BY DEF Grep!Spans
<1> HIDE DEF U, idx, n, W
<1>4. IsStep(f, U, 1 .. n)
  BY <1>2 DEF IsStep
<1>5. \A spans \in U, i \in 1 .. n : f[<<spans, i>>] = W(spans, i)
  OBVIOUS
<1>6. <<>> \in U
  BY DEF U
<1> HIDE DEF f
<1>7. PICK a \in [0 .. Len(idx) -> U] :
        a[0] = <<>> /\ \A k \in 1 .. Len(idx) : a[k] = f[<<a[k - 1], idx[k]>>]
  <2> DEFINE V == 1 .. n
  <2>1. IsStep(f, U, V) /\ idx \in Seq(V)
    BY <1>1, <1>4
  <2> HIDE DEF V
  <2>2. QED BY <1>6, <2>1, FoldExists
<1>8. \A k \in 1 .. Len(idx) : k - 1 \in 0 .. Len(idx) /\ a[k - 1] \in U /\ idx[k] \in 1 .. n
  <2>1. TAKE k \in 1 .. Len(idx)
  <2>2. k - 1 \in 0 .. Len(idx)
    BY <1>1
  <2>3. a[k - 1] \in U
    BY <1>7, <2>2
  <2>4. QED BY <1>1, <2>2, <2>3
<1>9. Rec(a)
  <2>1. \A k \in 1 .. Len(idx) : a[k] = W(a[k - 1], idx[k])
    BY <1>5, <1>7, <1>8
  <2>2. \A k \in 0 .. Len(idx) : k = 0 \/ k \in 1 .. Len(idx)
    BY <1>1
  <2>3. a = [k \in 0 .. Len(idx) |-> a[k]]
    BY <1>7
  <2>4. \A k \in 0 .. Len(idx) :
          a[k] = IF k = 0 THEN <<>>
                 ELSE LET spans == a[k - 1] IN Grep!WithSpan(lines, before, after, spans, idx[k])
    BY <1>7, <2>1, <2>2 DEF W
  <2>5. QED BY <2>3, <2>4
<1>10. Rec(M)
  <2> HIDE DEF Rec
  <2>1. QED BY <1>9
<1> HIDE DEF M
<1>11. M[0] = <<>> /\ \A k \in 1 .. Len(idx) : M[k] = W(M[k - 1], idx[k])
  <2>1. \A k \in 1 .. Len(idx) : k \in 0 .. Len(idx) /\ k # 0
    BY <1>1
  <2>2. 0 \in 0 .. Len(idx)
    BY <1>1
  <2>3. QED BY <1>10, <2>1, <2>2 DEF W
<1> HIDE DEF Rec
\* The first k matches.
<1> DEFINE Firsts(k) == {idx[m] : m \in 1 .. k}
           H == {k \in 0 .. Len(idx) :
                  /\ M[k] \in U /\ Apart(n, M[k])
                  /\ Inside(M[k]) = Near(n, before, after, Firsts(k))
                  /\ k = 0 => Len(M[k]) = 0
                  /\ k # 0 => /\ Len(M[k]) # 0 /\ M[k][Len(M[k])].hi = Hi(n, idx[k], after)
                              /\ M[k][Len(M[k])].lo <= Lo(idx[k], before)}
<1>12. 0 \in H
  <2> DEFINE e == <<>>
  <2>1. e \in U /\ Len(e) = 0
    BY DEF U
  <2>2. M[0] = e
    BY <1>11
  <2> HIDE DEF e
  <2>3. Apart(n, e) /\ Inside(e) = {}
    BY <2>1 DEF Apart, Inside
  <2>4. Near(n, before, after, Firsts(0)) = {}
    BY DEF Near
  <2>5. 0 \in 0 .. Len(idx)
    BY <1>1
  <2>6. M[0] \in U /\ Apart(n, M[0]) /\ Inside(M[0]) = Near(n, before, after, Firsts(0)) /\ Len(M[0]) = 0
    BY <2>1, <2>2, <2>3, <2>4, Zenon
  <2> HIDE DEF Firsts
  <2>7. QED BY <2>5, <2>6
<1>13. ASSUME NEW k \in 1 .. Len(idx), k - 1 \in H PROVE k \in H
  <2> DEFINE spans == M[k - 1]  w == M[k]  i == idx[k]  p == IF k = 1 THEN 0 ELSE idx[k - 1]
  <2>1. k \in Nat /\ k \in 0 .. Len(idx) /\ k # 0 /\ (k # 1 => k - 1 \in 1 .. Len(idx)) /\ (k - 1 = 0 <=> k = 1)
    BY <1>1
  <2>2. i \in 1 .. n /\ p \in 0 .. n /\ p < i /\ (p = 0 <=> k = 1)
    <3>1. i \in 1 .. n
      BY <1>1
    <3>2. CASE k = 1
      BY <1>1, <3>1, <3>2
    <3>3. CASE k # 1
      <4>1. idx[k - 1] \in 1 .. n /\ idx[k - 1] < idx[k]
        BY <1>1, <2>1, <3>3 DEF Ascends
      <4>2. QED BY <1>1, <3>1, <3>3, <4>1
    <3>4. QED BY <3>2, <3>3
  <2>3. /\ spans \in U /\ Apart(n, spans) /\ Inside(spans) = Near(n, before, after, Firsts(k - 1))
        /\ k = 1 => Len(spans) = 0
        /\ k # 1 => /\ Len(spans) # 0 /\ spans[Len(spans)].hi = Hi(n, idx[k - 1], after)
                    /\ spans[Len(spans)].lo <= Lo(idx[k - 1], before)
    <3> HIDE DEF Firsts
    <3>1. QED BY <1>13, <2>1
  <2>4. /\ p = 0 => Len(spans) = 0
        /\ p # 0 => /\ Len(spans) # 0 /\ spans[Len(spans)].hi = Hi(n, p, after)
                    /\ spans[Len(spans)].lo <= Lo(p, before)
    BY <2>2, <2>3
  <2>5. w = Grep!WithSpan(lines, before, after, spans, i)
    BY <1>11 DEF W
  <2>6. spans \in Seq(Span) /\ n = Len(lines)
    BY <2>3 DEF U, n
  <2>7. Apart(n, spans) /\ Inside(spans) = Near(n, before, after, Firsts(k - 1))
    BY <2>3
  <2>8. Firsts(k) = Firsts(k - 1) \cup {i} /\ Firsts(k - 1) \subseteq 1 .. n
    <3>1. \A m \in 1 .. k - 1 : m \in 1 .. Len(idx)
      BY <1>1
    <3>2. 1 .. k = (1 .. k - 1) \cup {k}
      BY <2>1
    <3>3. QED BY <1>1, <3>1, <3>2
  <2> HIDE DEF spans, w, i, p, Firsts
  <2>9. /\ w \in Seq(Span) /\ Apart(n, w) /\ Len(w) # 0
        /\ w[Len(w)].hi = Hi(n, i, after) /\ w[Len(w)].lo <= Lo(i, before)
        /\ Inside(w) = Inside(spans) \cup (Lo(i, before) .. Hi(n, i, after))
    <3>1. i \in 1 .. n /\ p \in 0 .. n /\ p < i /\ n \in Nat /\ Len(lines) = n
      BY <1>1, <2>2, <2>6
    <3>2. Apart(n, spans) /\ spans \in Seq(Span)
      BY <2>6, <2>7
    <3> HIDE DEF H
    <3>3. QED BY <3>1, <3>2, <2>4, <2>5, OneSpanMore, SMTT(60)
  <2>10. Inside(w) = Near(n, before, after, Firsts(k))
    <3> DEFINE fk == Firsts(k - 1)  fl == Firsts(k)
    <3>1. n \in Nat /\ i \in 1 .. n /\ fl = fk \cup {i}
      BY <1>1, <2>2, <2>8
    <3> HIDE DEF fk, fl, H
    <3>2. Near(n, before, after, fl) = Near(n, before, after, fk) \cup (Lo(i, before) .. Hi(n, i, after))
      BY <3>1, NearGrows
    <3>3. QED BY <2>7, <2>9, <3>2, Zenon DEF fk, fl
  <2>11. QED BY <2>1, <2>9, <2>10 DEF U, w, i
<1>14. Len(idx) \in H
  <2> HIDE DEF H
  <2>1. 0 .. Len(idx) \subseteq H
    BY <1>1, <1>12, <1>13, Along
  <2>2. Len(idx) \in 0 .. Len(idx)
    BY <1>1
  <2>3. QED BY <2>1, <2>2
<1>15. Firsts(Len(idx)) = MatchesOf(lines)
  BY <1>1 DEF Elems
<1> HIDE DEF Firsts
<1>16. QED BY <1>3, <1>14, <1>15 DEF U, n

\* The first m spans are apart too, and what lies before a line of theirs is in
\* none of the others.
FirstOf(n, spans, m, hunks) ==
  /\ hunks \in Seq(Span) /\ Len(hunks) = m /\ Apart(n, hunks)
  /\ Inside(hunks) \subseteq Inside(spans)
  /\ m = Len(spans) => hunks = spans
  /\ \A i \in Inside(spans), j \in Inside(hunks) : i < j => i \in Inside(hunks)

LEMMA FirstSpans ==
  ASSUME NEW n \in Nat, NEW spans \in Seq(Span), Apart(n, spans), NEW m \in Nat, m <= Len(spans)
  PROVE  FirstOf(n, spans, m, SubSeq(spans, 1, m))
<1> DEFINE hunks == SubSeq(spans, 1, m)
<1>1. /\ hunks \in Seq(Span) /\ Len(hunks) = m /\ m \in Nat /\ Len(spans) \in Nat
      /\ \A k \in 1 .. m : hunks[k] = spans[k] /\ k \in 1 .. Len(spans)
  OBVIOUS
<1>2. \A k \in 1 .. Len(spans) : spans[k].lo \in Nat /\ spans[k].hi \in Nat
  <2>1. \A k \in 1 .. Len(spans) : spans[k] \in Span
    OBVIOUS
  <2>2. QED BY <2>1 DEF Span
<1> HIDE DEF hunks
<1>3. Apart(n, hunks)
  BY <1>1 DEF Apart
<1>4. Inside(hunks) \subseteq Inside(spans)
  BY <1>1 DEF Inside
<1>5. m = Len(spans) => hunks = spans
  BY DEF hunks
<1>6. ASSUME NEW i \in Inside(spans), NEW j \in Inside(hunks), i < j
      PROVE  i \in Inside(hunks)
  <2>1. PICK a \in 1 .. Len(spans) : i \in spans[a].lo .. spans[a].hi
    BY DEF Inside
  <2>2. PICK b \in 1 .. m : j \in hunks[b].lo .. hunks[b].hi
    BY <1>1 DEF Inside
  <2>3. hunks[b] = spans[b] /\ b \in 1 .. Len(spans)
    BY <1>1
  <2>4. ~(b < a)
    <3>1. SUFFICES ASSUME b < a PROVE FALSE
      OBVIOUS
    <3>2. spans[b].hi + 1 < spans[a].lo
      BY <2>3, <3>1 DEF Apart
    <3>3. QED BY <1>2, <1>6, <2>1, <2>2, <2>3, <3>2
  <2>5. a \in 1 .. m
    BY <1>1, <2>4
  <2>6. hunks[a] = spans[a]
    BY <1>1, <2>5
  <2>7. QED BY <1>1, <2>1, <2>5, <2>6 DEF Inside
<1>7. FirstOf(n, spans, m, hunks)
  BY <1>1, <1>3, <1>4, <1>5, <1>6 DEF FirstOf
<1>8. QED BY <1>7 DEF hunks

\* The lines of some spans, one after the other.
LEMMA LinesOfSpans ==
  ASSUME NEW n \in Nat, NEW hunks \in Seq(Span), Apart(n, hunks), NEW q,
         q = [k \in DOMAIN hunks |-> [m \in 1 .. hunks[k].hi - hunks[k].lo + 1 |-> hunks[k].lo + m - 1]]
  PROVE  /\ FlattenSeq(q) \in Seq(Nat) /\ Ascends(FlattenSeq(q))
         /\ Elems(FlattenSeq(q)) = Inside(hunks)
<1> DEFINE U == Seq(Nat)
<1>1. Len(hunks) \in Nat /\ DOMAIN hunks = 1 .. Len(hunks) /\ \A k \in 1 .. Len(hunks) : hunks[k] \in Span
  OBVIOUS
<1>2. \A k \in 1 .. Len(hunks) : /\ hunks[k].lo \in Nat /\ hunks[k].hi \in Nat
                                 /\ hunks[k].lo <= hunks[k].hi
  BY <1>1 DEF Span, Apart
<1>3. ASSUME NEW k \in 1 .. Len(hunks)
      PROVE  q[k] \in U /\ Ascends(q[k]) /\ Elems(q[k]) = hunks[k].lo .. hunks[k].hi
  <2> DEFINE lo == hunks[k].lo  hi == hunks[k].hi  v == hi - lo + 1
             w == [m \in 1 .. v |-> lo + m - 1]
  <2>1. lo \in Nat /\ hi \in Nat /\ lo <= hi /\ v \in Nat /\ v = hi - lo + 1
    BY <1>2
  <2>2. q[k] = w
    BY <1>1
  <2> HIDE DEF lo, hi, v
  <2>3. w \in [1 .. v -> Nat]
    BY <2>1
  <2>4. w \in U /\ Len(w) = v
    <3>1. w \in U
      BY <2>1, <2>3, SeqDef DEF U
    <3>2. Len(w) = v
      BY <2>1, <2>3
    <3>3. QED BY <3>1, <3>2
  <2>5. \A m \in 1 .. v : w[m] = lo + m - 1
    OBVIOUS
  <2> HIDE DEF w
  <2>6. Ascends(w)
    BY <2>1, <2>4, <2>5 DEF Ascends
  <2>7. Elems(w) = lo .. hi
    <3>1. \A m \in 1 .. v : w[m] \in lo .. hi
      BY <2>1, <2>5
    <3>2. \A x \in lo .. hi : x - lo + 1 \in 1 .. v /\ x = w[x - lo + 1]
      <4>1. TAKE x \in lo .. hi
      <4>2. x - lo + 1 \in 1 .. v
        BY <2>1
      <4>3. w[x - lo + 1] = lo + (x - lo + 1) - 1
        BY <2>5, <4>2
      <4>4. QED BY <2>1, <4>2, <4>3
    <3>3. QED BY <2>4, <3>1, <3>2 DEF Elems
  <2>8. QED BY <2>2, <2>4, <2>6, <2>7 DEF lo, hi
<1>4. q \in Seq(U) /\ Len(q) = Len(hunks)
  <2>1. DOMAIN q = 1 .. Len(hunks)
    BY <1>1
  <2> HIDE DEF U
  <2>2. q \in [1 .. Len(hunks) -> U]
    BY <1>1, <1>3, <2>1
  <2>3. q \in Seq(U)
    BY <1>1, <2>2, SeqDef
  <2>4. Len(q) = Len(hunks)
    BY <1>1, <2>1, <2>3
  <2>5. QED BY <2>3, <2>4
<1>5. Pieces(q)
  <2>1. ASSUME NEW j \in 1 .. Len(hunks), NEW k \in 1 .. Len(hunks), j < k,
               NEW x \in Elems(q[j]), NEW y \in Elems(q[k])
        PROVE  x < y
    <3>1. x \in hunks[j].lo .. hunks[j].hi /\ y \in hunks[k].lo .. hunks[k].hi
      BY <1>3
    <3>2. hunks[j].hi + 1 < hunks[k].lo
      BY <2>1 DEF Apart
    <3>3. QED BY <1>2, <3>1, <3>2
  <2>2. QED BY <1>3, <1>4, <2>1 DEF Pieces
<1>6. /\ FlattenSeq(q) \in Seq(Nat) /\ Ascends(FlattenSeq(q))
      /\ Elems(FlattenSeq(q)) = UNION {Elems(q[k]) : k \in 1 .. Len(q)}
  BY <1>4, <1>5, FlattenAscends DEF U
<1>7. UNION {Elems(q[k]) : k \in 1 .. Len(q)} = Inside(hunks)
  BY <1>3, <1>4 DEF Inside
<1>8. QED BY <1>6, <1>7

LEMMA GrepSets ==
  /\ \A q : Grep!ToSet(q) = {q[i] : i \in DOMAIN q}
  /\ \A S : Grep!Cardinality(S) = Cardinality(S)
<1>1. \A q : Grep!ToSet(q) = {q[i] : i \in DOMAIN q}
  BY DEF Grep!ToSet
<1>2. \A S : Grep!Cardinality(S) = Cardinality(S)
  BY DEF Grep!Cardinality, Cardinality
<1>3. QED BY <1>1, <1>2

\* What is shown around the matches, for any text and any limits.
LEMMA HunksShown ==
  ASSUME NEW T, NEW lines \in Seq(T), NEW before \in Nat, NEW after \in Nat, NEW maxHunks \in Nat
  PROVE  Grep!HunksLikeGrep(lines, before, after, maxHunks)
<1> DEFINE n == Len(lines)
           spans == Grep!Spans(lines, before, after)
           c == Len(spans)
           m == IF c < maxHunks THEN c ELSE maxHunks
           hunks == SubSeq(spans, 1, m)
           idx == Grep!MatchIdx(lines)
           q == [k \in DOMAIN hunks |-> [x \in 1 .. hunks[k].hi - hunks[k].lo + 1 |-> hunks[k].lo + x - 1]]
           shown == FlattenSeq(q)
           marked == Grep!Marked(idx, shown)
           close == {j \in DOMAIN lines :
                      \E i \in DOMAIN lines : lines[i] = "match" /\ j \in i - before .. i + after}
           matches == MatchesOf(lines)
           lit == UNION {h.lo .. h.hi : h \in Grep!ToSet(hunks)}
<1>1. n \in Nat /\ DOMAIN lines = 1 .. n
  OBVIOUS
<1>2. spans \in Seq(Span) /\ Apart(n, spans) /\ Inside(spans) = Near(n, before, after, matches)
  <2> HIDE DEF spans, matches
  <2>1. QED BY SpansAre DEF spans, matches
<1>3. Grep!Context(lines, before, after, maxHunks) = [hunks |-> hunks, marked |-> marked, total |-> Len(idx)]
  BY DEF Grep!Context, Grep!FlattenSeq, FlattenSeq
<1>4. close = Near(n, before, after, matches)
  <2>1. \A i \in 1 .. n, x \in 1 .. n :
          (x \in i - before .. i + after) <=> (x \in Lo(i, before) .. Hi(n, i, after))
    BY <1>1 DEF Lo, Hi
  <2> HIDE DEF n
  <2>2. matches = {i \in 1 .. n : lines[i] = "match"}
    BY <1>1 DEF MatchesOf
  <2>3. QED BY <1>1, <2>1, <2>2 DEF Near
<1> HIDE DEF spans
<1>5. c \in Nat /\ m \in 0 .. c /\ (m < maxHunks => m = c)
  <2>1. c \in Nat
    BY <1>2
  <2> HIDE DEF c
  <2>2. QED BY <2>1
<1> HIDE DEF m, n, matches
<1>6. /\ hunks \in Seq(Span) /\ Len(hunks) = m /\ Apart(n, hunks)
      /\ Inside(hunks) \subseteq Inside(spans)
      /\ m = c => hunks = spans
      /\ \A i \in Inside(spans), j \in Inside(hunks) : i < j => i \in Inside(hunks)
  <2>1. n \in Nat /\ spans \in Seq(Span) /\ Apart(n, spans) /\ m \in Nat /\ m <= Len(spans) /\ hunks = SubSeq(spans, 1, m)
    BY <1>1, <1>2, <1>5
  <2> HIDE DEF hunks, c, close, q, marked, lit, shown, idx
  <2>2. FirstOf(n, spans, m, hunks)
    BY <2>1, FirstSpans
  <2>3. QED BY <2>2, Zenon DEF c, FirstOf
<1> HIDE DEF hunks
<1>7. shown \in Seq(Nat) /\ Ascends(shown) /\ Elems(shown) = Inside(hunks)
  <2> HIDE DEF q, shown
  <2>1. shown = FlattenSeq(q) /\ q = [k \in DOMAIN hunks |-> [x \in 1 .. hunks[k].hi - hunks[k].lo + 1 |-> hunks[k].lo + x - 1]]
    BY DEF q, shown
  <2>2. FlattenSeq(q) \in Seq(Nat) /\ Ascends(FlattenSeq(q)) /\ Elems(FlattenSeq(q)) = Inside(hunks)
    BY <1>1, <1>6, <2>1, LinesOfSpans
  <2>3. QED BY <2>1, <2>2
<1> HIDE DEF shown
<1>8. /\ idx \in Seq(Nat) /\ Ascends(idx) /\ Elems(idx) = matches /\ matches \subseteq 1 .. n
  <2>1. idx \in Seq(1 .. Len(lines)) /\ Ascends(idx) /\ Elems(idx) = MatchesOf(lines)
    BY MatchIdxIs
  <2> HIDE DEF idx
  <2>2. Len(idx) \in Nat /\ idx \in [1 .. Len(idx) -> Nat]
    BY <1>1, <2>1
  <2>3. idx \in Seq(Nat)
    BY <2>2, SeqDef
  <2>4. MatchesOf(lines) \subseteq 1 .. n
    BY <1>1 DEF MatchesOf
  <2>5. QED BY <2>1, <2>3, <2>4 DEF matches
<1> HIDE DEF idx
<1>9. matches \subseteq close
  <2>1. ASSUME NEW i \in matches PROVE i \in Near(n, before, after, matches)
    <3>1. i \in 1 .. n
      BY <1>8
    <3>2. i \in Lo(i, before) .. Hi(n, i, after)
      BY <1>1, <3>1 DEF Lo, Hi
    <3>3. QED BY <3>1, <3>2 DEF Near
  <2>2. QED BY <1>4, <2>1
<1> HIDE DEF close
<1>10. marked \in Seq(Nat) /\ Elems(marked) = matches \cap Inside(hunks)
  <2>1. \A x \in Elems(idx), y \in Elems(shown) : x < y => x \in Elems(shown)
    BY <1>2, <1>4, <1>6, <1>7, <1>8, <1>9
  <2>2. QED BY <1>7, <1>8, <2>1, MarkedAre
<1>11. Len(idx) = Grep!Cardinality(matches)
  <2>1. Len(idx) = Cardinality(Elems(idx))
    BY <1>8, AscendingSize
  <2>2. Grep!Cardinality(matches) = Cardinality(matches)
    BY GrepSets
  <2>3. QED BY <1>8, <2>1, <2>2
<1>12. lit = Inside(hunks)
  <2>1. Grep!ToSet(hunks) = {hunks[i] : i \in 1 .. Len(hunks)}
    BY <1>6, GrepSets
  <2>2. QED BY <2>1 DEF Inside
<1> HIDE DEF lit
<1>13. Grep!ToSet(marked) = Elems(marked)
  <2>1. marked \in Seq(Nat)
    BY <1>7, <1>8, <1>10
  <2>2. DOMAIN marked = 1 .. Len(marked)
    BY <2>1
  <2>3. QED BY <2>2, GrepSets DEF Elems
<1> HIDE DEF marked
<1>14. /\ \A k \in 1 .. Len(hunks) - 1 : hunks[k].hi + 1 < hunks[k + 1].lo
       /\ lit \subseteq close
       /\ Len(hunks) < maxHunks => lit = close
       /\ \A i \in close, j \in lit : i < j => i \in lit
       /\ Grep!ToSet(marked) = matches \cap lit
       /\ Len(idx) = Grep!Cardinality(matches)
  <2>1. \A k \in 1 .. Len(hunks) - 1 : hunks[k].hi + 1 < hunks[k + 1].lo
    <3>1. \A k \in 1 .. Len(hunks) - 1 : k \in 1 .. Len(hunks) /\ k + 1 \in 1 .. Len(hunks) /\ k < k + 1
      BY <1>5, <1>6
    <3>2. QED BY <1>6, <3>1 DEF Apart
  <2>2. lit \subseteq close
    BY <1>2, <1>4, <1>6, <1>12
  <2>3. Len(hunks) < maxHunks => lit = close
    BY <1>2, <1>4, <1>5, <1>6, <1>12
  <2>4. \A i \in close, j \in lit : i < j => i \in lit
    BY <1>2, <1>4, <1>6, <1>12
  <2>5. Grep!ToSet(marked) = matches \cap lit
    BY <1>10, <1>12, <1>13
  <2>6. QED BY <1>11, <2>1, <2>2, <2>3, <2>4, <2>5
<1>15. matches = {i \in DOMAIN lines : lines[i] = "match"}
  BY DEF matches, MatchesOf
<1>16. QED
  <2> DEFINE x == Grep!Context(lines, before, after, maxHunks)
  <2>1. x.hunks = hunks /\ x.marked = marked /\ x.total = Len(idx)
    BY <1>3
  <2> HIDE DEF x
  <2>2. /\ \A k \in 1 .. Len(x.hunks) - 1 : x.hunks[k].hi + 1 < x.hunks[k + 1].lo
        /\ lit \subseteq close
        /\ Len(x.hunks) < maxHunks => lit = close
        /\ \A i \in close, j \in lit : i < j => i \in lit
        /\ Grep!ToSet(x.marked) = matches \cap lit
        /\ x.total = Grep!Cardinality(matches)
    BY <1>14, <2>1, Zenon
  <2>3. lit = UNION {h.lo .. h.hi : h \in Grep!ToSet(x.hunks)}
    BY <2>1 DEF lit
  <2>4. QED BY <1>15, <2>2, <2>3, Zenon DEF Grep!HunksLikeGrep, x, close

-----------------------------------------------------------------------------
\* An input is made of the tokens of its part.
ReaderTypes ==
  /\ which \in DOMAIN TokensOf => s \in Seq(TokensOf[which]) /\ t \in Seq(TokensOf[which])
  /\ cmds \in Seq(Ran)

LEMMA ReaderTypesHold == SpecReaders => []ReaderTypes
<1>1. InitReaders => ReaderTypes
  <2>1. SUFFICES ASSUME InitReaders PROVE ReaderTypes
    OBVIOUS
  <2>2. cmds \in Seq(Ran)
    BY <2>1 DEF InitReaders, Stats!Init
  <2>3. ASSUME which \in DOMAIN TokensOf PROVE s \in Seq(TokensOf[which]) /\ t \in Seq(TokensOf[which])
    <3>1. t \in Seq(TokensOf[which])
      BY <2>1 DEF InitReaders
    <3>2. CASE which # "ansi"
      BY <2>1, <3>2 DEF InitReaders, Beginnings
    <3>3. CASE which = "ansi"
      <4>1. TokensOf[which] = Ansi!Bytes
        BY <3>3 DEF TokensOf
      <4>2. s \in {<<>>, <<"ESC", "[", "1", "m", "x">>, <<"ESC", "]">>, <<"x", "CR">>}
        BY <2>1, <3>3 DEF InitReaders, Beginnings
      <4>3. {"ESC", "[", "1", "m", "x", "]", "CR"} \subseteq Ansi!Bytes
        BY DEF Ansi!Bytes, Ansi!ESC, Ansi!CR
      <4> DEFINE B == Ansi!Bytes
      <4> HIDE DEF B
      <4>4. /\ "ESC" \in B /\ "[" \in B /\ "1" \in B /\ "m" \in B /\ "x" \in B /\ "]" \in B /\ "CR" \in B
        BY <4>3 DEF B
      <4>5. /\ <<>> \in Seq(B) /\ <<"ESC", "[", "1", "m", "x">> \in Seq(B)
            /\ <<"ESC", "]">> \in Seq(B) /\ <<"x", "CR">> \in Seq(B)
        BY <4>4
      <4>6. s \in Seq(B)
        BY <4>2, <4>5, Zenon
      <4>7. QED BY <3>1, <4>1, <4>6 DEF B
    <3>4. QED BY <3>1, <3>2, <3>3
  <2>4. QED BY <2>2, <2>3 DEF ReaderTypes
<1>2. ReaderTypes /\ [NextReaders]_varsReaders => ReaderTypes'
  <2>1. SUFFICES ASSUME ReaderTypes, [NextReaders]_varsReaders PROVE ReaderTypes'
    OBVIOUS
  <2>2. CASE UNCHANGED varsReaders
    BY <2>1, <2>2 DEF varsReaders, ReaderTypes
  <2>3. CASE NextReaders
    <3>1. which' = which
      BY <2>3 DEF NextReaders
    <3>2. (cmds \in Seq(Ran))'
      <4>1. CASE cmds' = cmds
        BY <2>1, <4>1 DEF ReaderTypes
      <4>2. CASE Stats!Next
        <5>1. PICK at \in Starts, key \in Keys : cmds' = Append(cmds, [at |-> at, key |-> key])
          BY <4>2 DEF Stats!Next, Stats!Add
        <5>2. [at |-> at, key |-> key] \in Ran /\ cmds \in Seq(Ran)
          BY <2>1 DEF Ran, ReaderTypes
        <5>3. QED BY <5>1, <5>2
      <4>3. QED BY <2>3, <4>1, <4>2 DEF NextReaders
    <3>3. ASSUME which \in DOMAIN TokensOf
          PROVE  (s \in Seq(TokensOf[which]))' /\ (t \in Seq(TokensOf[which]))'
      <4> DEFINE V == TokensOf[which]
      <4>1. s \in Seq(V) /\ t \in Seq(V) /\ TokensOf[which'] = V
        BY <2>1, <3>1, <3>3 DEF ReaderTypes
      <4>2. /\ s' = s \/ \E c \in V : s' = Append(s, c)
            /\ t' = t \/ \E c \in V : t' = Append(t, c)
        BY <2>3 DEF NextReaders, Grow
      <4> HIDE DEF V
      <4>3. \A q \in Seq(V), c \in V : Append(q, c) \in Seq(V)
        OBVIOUS
      <4>4. s' \in Seq(V)
        BY <4>1, <4>2, <4>3
      <4>5. t' \in Seq(V)
        BY <4>1, <4>2, <4>3
      <4>6. (TokensOf[which])' = V
        BY <3>1 DEF TokensOf, V
      <4>7. QED BY <4>4, <4>5, <4>6
    <3>4. QED BY <3>1, <3>2, <3>3 DEF ReaderTypes
  <2>4. QED BY <2>1, <2>2, <2>3
<1>3. QED BY <1>1, <1>2, PTL DEF SpecReaders

\* The parts share no state: Timeline runs in the composition as on its own.
LEMMA TimelineRuns == SpecReaders => Spec
<1>1. InitReaders => Init
  BY DEF InitReaders
<1>2. [NextReaders]_varsReaders => [Next]_vars
  BY DEF NextReaders, varsReaders
<1>3. QED BY <1>1, <1>2, PTL DEF SpecReaders, Spec

\* The two ends of a long output, as get_output cuts it, do not meet and fit in what
\* was asked for (mcp.go), for an output of any length.
THEOREM CutHonestHolds == SpecReaders => []CutHonest
<1>1. ReaderTypes => CutHonest
  <2>1. SUFFICES ASSUME ReaderTypes, which = "cut", NEW limit \in 1 .. 10
                 PROVE  Grep!CutHonest(s, limit)
    BY DEF CutHonest
  <2>2. s \in Seq(TokensOf["cut"])
    BY <2>1 DEF ReaderTypes, TokensOf
  <2>3. QED BY <2>2, EndsAreCut
<1>2. QED BY <1>1, ReaderTypesHold, PTL

\* The lines a search shows are those near its first matches, each once and in order,
\* and it counts what it leaves out (grep.go), for a text of any length.
THEOREM HunksLikeGrepHolds == SpecReaders => []HunksLikeGrep
<1>1. ReaderTypes => HunksLikeGrep
  <2>1. SUFFICES ASSUME ReaderTypes, which = "grep",
                        NEW before \in 0 .. 2, NEW after \in 0 .. 2, NEW maxHunks \in {1, 2, 5}
                 PROVE  Grep!HunksLikeGrep(s, before, after, maxHunks)
    BY DEF HunksLikeGrep
  <2>2. s \in Seq(TokensOf["grep"])
    BY <2>1 DEF ReaderTypes, TokensOf
  <2>3. before \in Nat /\ after \in Nat /\ maxHunks \in Nat
    OBVIOUS
  <2>4. QED BY <2>2, <2>3, HunksShown
<1>2. QED BY <1>1, ReaderTypesHold, PTL

\* Every command is counted in one bucket of its sparkline (stats.go), if the starts
\* are so close that the product with sparkBuckets does not wrap. StatsRange shows
\* that it does wrap where they are not.
THEOREM SparksInRangeHolds == SpecReaders => [](SpansFit => SparksInRange)
<1>1. ReaderTypes => (SpansFit => SparksInRange)
  BY SparksCounted DEF ReaderTypes, SparksInRange
<1>2. QED BY <1>1, ReaderTypesHold, PTL
=============================================================================
