----------------------------- MODULE FoldLemmas -----------------------------
(***************************************************************************)
(* Induction along a sequence, and functions that are defined along one.   *)
(* f is a step from a state and an element to the next state.              *)
(***************************************************************************)
EXTENDS Integers, Sequences, WellFoundedInduction, TLAPS

\* What holds at the beginning, and from one place on at the next, holds up to
\* the end.
LEMMA Along ==
  ASSUME NEW n \in Nat, NEW G, 0 \in G, \A k \in 1 .. n : k - 1 \in G => k \in G
  PROVE  0 .. n \subseteq G
<1> DEFINE Less == {ss \in Nat \X Nat : ss[1] < ss[2]}
           U == {k \in 0 .. n : k \notin G}
<1>1. IsWellFoundedOn(Less, Nat)
  BY NatLessThanWellFounded DEF OpToRel, Less
<1>2. ASSUME U # {} PROVE FALSE
  <2>1. U \subseteq Nat
    OBVIOUS
  <2> HIDE DEF U
  <2>2. PICK k \in U : \A m \in U : ~(<<m, k>> \in Less)
    <3> HIDE DEF Less
    <3>1. QED BY <1>1, <1>2, <2>1, WFMin
  <2>3. k \in 0 .. n /\ k # 0
    BY DEF U
  <2>4. k \in 1 .. n /\ k - 1 \in 0 .. n /\ k - 1 < k /\ k \in Nat /\ k - 1 \in Nat
    BY <2>3
  <2>5. k - 1 \notin U
    BY <2>2, <2>4
  <2>6. k - 1 \in G
    BY <2>4, <2>5 DEF U
  <2>7. k \in G
    BY <2>4, <2>6
  <2>8. QED BY <2>7 DEF U
<1>3. QED BY <1>2

\* f is a step from one state to the next.
IsStep(f, S, T) == f \in [S \X T -> S]

\* A function defined along a sequence by the step f exists.
LEMMA FoldExists ==
  ASSUME NEW S, NEW T, NEW f, IsStep(f, S, T), NEW s \in S, NEW q \in Seq(T)
  PROVE  \E a \in [0 .. Len(q) -> S] : a[0] = s /\ \A k \in 1 .. Len(q) : a[k] = f[<<a[k - 1], q[k]>>]
<1> DEFINE Upto(n, a) == a \in [0 .. n -> S] /\ a[0] = s
                         /\ \A k \in 1 .. n : a[k] = f[<<a[k - 1], q[k]>>]
           G == {n \in Nat : \E a : Upto(n, a)}
<1>1. 0 \in G
  <2>1. Upto(0, [k \in 0 .. 0 |-> s])
    OBVIOUS
  <2>2. QED BY <2>1
<1>2. ASSUME NEW n \in 1 .. Len(q), n - 1 \in G PROVE n \in G
  <2>1. PICK a : Upto(n - 1, a)
    BY <1>2
  <2> DEFINE x == f[<<a[n - 1], q[n]>>]
             b == [k \in 0 .. n |-> IF k = n THEN x ELSE a[k]]
  <2>2. n \in Nat /\ n - 1 \in 0 .. n - 1 /\ n # 0 /\ \A k \in 0 .. n : k # n => k \in 0 .. n - 1
    OBVIOUS
  <2>3. a[n - 1] \in S /\ q[n] \in T
    BY <2>1, <2>2
  <2>4. x \in S
    BY <2>3 DEF IsStep
  <2> HIDE DEF x
  <2>5. b \in [0 .. n -> S] /\ b[0] = s
    BY <2>1, <2>2, <2>4
  <2>6. \A k \in 1 .. n : b[k] = f[<<b[k - 1], q[k]>>]
    <3>1. TAKE k \in 1 .. n
    <3>2. CASE k = n
      <4>1. b[k] = x /\ b[k - 1] = a[n - 1]
        BY <2>2, <3>2
      <4>2. QED BY <3>2, <4>1 DEF x
    <3>3. CASE k # n
      <4>1. k \in 1 .. n - 1 /\ b[k] = a[k] /\ b[k - 1] = a[k - 1]
        BY <2>2, <3>3
      <4>2. QED BY <2>1, <4>1
    <3>4. QED BY <3>2, <3>3
  <2>7. Upto(n, b)
    BY <2>5, <2>6
  <2> HIDE DEF b, Upto
  <2>8. QED BY <2>2, <2>7
<1>3. Len(q) \in G
  <2> HIDE DEF G
  <2>1. Len(q) \in Nat
    OBVIOUS
  <2>2. 0 .. Len(q) \subseteq G
    BY <1>1, <1>2, <2>1, Along
  <2>3. QED BY <2>1, <2>2
<1>4. QED BY <1>3

LEMMA SubSeqAppends ==
  ASSUME NEW T, NEW q \in Seq(T), NEW k \in 1 .. Len(q)
  PROVE  /\ SubSeq(q, 1, k) = Append(SubSeq(q, 1, k - 1), q[k])
         /\ SubSeq(q, 1, k - 1) \in Seq(T) /\ q[k] \in T
<1>1. SubSeq(q, 1, k - 1) \in Seq(T) /\ q[k] \in T /\ k \in Nat /\ Len(q) \in Nat
  OBVIOUS
<1> DEFINE a == SubSeq(q, 1, k)
           b == Append(SubSeq(q, 1, k - 1), q[k])
<1>2. a \in Seq(T) /\ b \in Seq(T)
  BY <1>1
<1>3. Len(a) = k /\ Len(b) = k
  BY <1>1
<1>4. \A m \in 1 .. k : a[m] = b[m]
  BY <1>1
<1>5. a = b
  <2> HIDE DEF a, b
  <2>1. QED BY <1>2, <1>3, <1>4
<1>6. QED BY <1>1, <1>5

\* What holds of the empty sequence, and of a sequence with one more, of all.
LEMMA SeqInduct ==
  ASSUME NEW T, NEW G, <<>> \in G,
         \A q \in Seq(T), x \in T : q \in G => Append(q, x) \in G
  PROVE  Seq(T) \subseteq G
<1> SUFFICES ASSUME NEW q \in Seq(T) PROVE q \in G
  OBVIOUS
<1> DEFINE H == {k \in 0 .. Len(q) : SubSeq(q, 1, k) \in G}
<1>1. Len(q) \in Nat
  OBVIOUS
<1>2. 0 \in H
  <2>1. SubSeq(q, 1, 0) = <<>>
    OBVIOUS
  <2>2. 0 \in 0 .. Len(q)
    BY <1>1
  <2>3. QED BY <2>1, <2>2, Zenon
<1>3. ASSUME NEW k \in 1 .. Len(q), k - 1 \in H PROVE k \in H
  <2>1. SubSeq(q, 1, k) = Append(SubSeq(q, 1, k - 1), q[k])
    BY SubSeqAppends
  <2>2. SubSeq(q, 1, k - 1) \in Seq(T) /\ q[k] \in T
    BY SubSeqAppends
  <2>3. SubSeq(q, 1, k - 1) \in G
    BY <1>3
  <2>4. SubSeq(q, 1, k) \in G
    BY <2>1, <2>2, <2>3
  <2>5. k \in 0 .. Len(q)
    OBVIOUS
  <2>6. QED BY <2>4, <2>5
<1>4. 0 .. Len(q) \subseteq H
  <2> HIDE DEF H
  <2>1. QED BY <1>1, <1>2, <1>3, Along
<1>5. SubSeq(q, 1, Len(q)) \in G
  <2>1. Len(q) \in 0 .. Len(q)
    BY <1>1
  <2>2. QED BY <1>4, <2>1
<1>6. SubSeq(q, 1, Len(q)) = q
  OBVIOUS
<1>7. QED BY <1>5, <1>6

\* The states of f along q, and the last of them.
Run(f, s, q, a) ==
  /\ a = [k \in 0 .. Len(q) |-> a[k]] /\ a[0] = s
  /\ \A k \in 1 .. Len(q) : a[k] = f[<<a[k - 1], q[k]>>]
End(f, s, q) == (CHOOSE a : Run(f, s, q, a))[Len(q)]

LEMMA RunIs ==
  ASSUME NEW S, NEW T, NEW f, IsStep(f, S, T), NEW s \in S, NEW q \in Seq(T), NEW a,
         Run(f, s, q, a)
  PROVE  a \in [0 .. Len(q) -> S] /\ a[Len(q)] = End(f, s, q)
<1> DEFINE b == CHOOSE c : Run(f, s, q, c)
           G == {k \in 0 .. Len(q) : a[k] \in S /\ a[k] = b[k]}
<1>1. Run(f, s, q, b)
  OBVIOUS
<1> HIDE DEF b
<1>2. Len(q) \in Nat
  OBVIOUS
<1>3. 0 \in G
  BY <1>1, <1>2 DEF Run
<1>4. ASSUME NEW k \in 1 .. Len(q), k - 1 \in G PROVE k \in G
  <2>1. a[k] = f[<<a[k - 1], q[k]>>] /\ b[k] = f[<<b[k - 1], q[k]>>]
    BY <1>1 DEF Run
  <2>2. a[k - 1] \in S /\ a[k - 1] = b[k - 1] /\ q[k] \in T /\ k \in 0 .. Len(q)
    BY <1>4
  <2>3. f[<<a[k - 1], q[k]>>] \in S
    BY <2>2 DEF IsStep
  <2>4. QED BY <2>1, <2>2, <2>3
<1>5. 0 .. Len(q) \subseteq G
  <2> HIDE DEF G
  <2>1. QED BY <1>2, <1>3, <1>4, Along
<1>6. a = [k \in 0 .. Len(q) |-> a[k]]
  BY DEF Run
<1>7. a \in [0 .. Len(q) -> S]
  <2>1. \A k \in 0 .. Len(q) : a[k] \in S
    BY <1>5
  <2>2. QED BY <1>6, <2>1
<1>8. a[Len(q)] = b[Len(q)]
  <2>1. Len(q) \in 0 .. Len(q)
    BY <1>2
  <2>2. QED BY <1>5, <2>1
<1>9. QED BY <1>7, <1>8 DEF End, b

LEMMA EndSteps ==
  ASSUME NEW S, NEW T, NEW f, IsStep(f, S, T), NEW s \in S
  PROVE  /\ End(f, s, <<>>) = s
         /\ \A q \in Seq(T) : End(f, s, q) \in S
         /\ \A q \in Seq(T), x \in T : End(f, s, Append(q, x)) = f[<<End(f, s, q), x>>]
<1>1. \A q \in Seq(T) : \E a : Run(f, s, q, a)
  <2>1. TAKE q \in Seq(T)
  <2>2. PICK a \in [0 .. Len(q) -> S] :
          a[0] = s /\ \A k \in 1 .. Len(q) : a[k] = f[<<a[k - 1], q[k]>>]
    BY FoldExists
  <2>3. Run(f, s, q, a)
    BY <2>2 DEF Run
  <2>4. QED BY <2>3
<1>2. \A q \in Seq(T) : End(f, s, q) \in S
  <2>1. TAKE q \in Seq(T)
  <2>2. PICK a : Run(f, s, q, a)
    BY <1>1
  <2>3. a \in [0 .. Len(q) -> S] /\ a[Len(q)] = End(f, s, q)
    BY <2>2, RunIs
  <2>4. Len(q) \in 0 .. Len(q)
    OBVIOUS
  <2>5. QED BY <2>3, <2>4
<1>3. End(f, s, <<>>) = s
  <2> DEFINE e == <<>>
  <2>0. Len(e) = 0
    OBVIOUS
  <2>1. e \in Seq(T)
    OBVIOUS
  <2> HIDE DEF e
  <2>2. PICK a : Run(f, s, e, a)
    BY <1>1, <2>1
  <2>3. a[Len(e)] = End(f, s, e)
    BY <2>1, <2>2, RunIs
  <2>4. a[0] = s
    BY <2>2 DEF Run
  <2>5. QED BY <2>0, <2>3, <2>4 DEF e
<1>4. ASSUME NEW q \in Seq(T), NEW x \in T PROVE End(f, s, Append(q, x)) = f[<<End(f, s, q), x>>]
  <2> DEFINE r == Append(q, x)
             n == Len(q)
  <2>1. /\ r \in Seq(T) /\ n \in Nat /\ Len(r) = n + 1 /\ r[n + 1] = x
        /\ \A k \in 1 .. n : r[k] = q[k]
    OBVIOUS
  <2> HIDE DEF r
  <2>2. PICK a : Run(f, s, r, a)
    BY <1>1, <2>1
  <2> DEFINE b == [k \in 0 .. n |-> a[k]]
  <2>3. Run(f, s, q, b)
    <3>1. b = [k \in 0 .. n |-> b[k]] /\ b[0] = s
      BY <2>1, <2>2 DEF Run
    <3>2. ASSUME NEW k \in 1 .. n PROVE b[k] = f[<<b[k - 1], q[k]>>]
      <4>1. k \in 1 .. Len(r) /\ k \in 0 .. n /\ k - 1 \in 0 .. n
        BY <2>1
      <4>2. a[k] = f[<<a[k - 1], r[k]>>]
        BY <2>2, <4>1 DEF Run
      <4>3. QED BY <2>1, <4>1, <4>2
    <3> HIDE DEF b
    <3>3. QED BY <3>1, <3>2 DEF Run
  <2>4. b[n] = End(f, s, q) /\ b[n] = a[n]
    <3>1. b[n] = a[n]
      BY <2>1
    <3> HIDE DEF b
    <3>2. b[Len(q)] = End(f, s, q)
      BY <2>3, RunIs
    <3>3. QED BY <3>1, <3>2
  <2>5. a[n + 1] = End(f, s, r)
    <3>1. a[Len(r)] = End(f, s, r)
      BY <2>1, <2>2, RunIs
    <3>2. QED BY <2>1, <3>1
  <2>6. a[n + 1] = f[<<a[n], x>>]
    <3>1. n + 1 \in 1 .. Len(r) /\ (n + 1) - 1 = n
      BY <2>1
    <3>2. a[n + 1] = f[<<a[(n + 1) - 1], r[n + 1]>>]
      BY <2>2, <3>1 DEF Run
    <3>3. QED BY <2>1, <3>1, <3>2
  <2>7. QED BY <2>4, <2>5, <2>6 DEF r
<1>5. QED BY <1>2, <1>3, <1>4
=============================================================================
