----------------------------- MODULE ToolProofs -----------------------------
(***************************************************************************)
(* Proofs about the parts of MCTools, each for all values of its constants.*)
(***************************************************************************)
EXTENDS MCTools, FoldLemmas, SequenceTheorems, TLAPS

-----------------------------------------------------------------------------
(***************************************************************************)
(* Proofs about CapBuf, for all capacities, chunks and streams: TypeOK,    *)
(* HeadAndTail and AtMostTwoCopies, from the invariant Ring.  What makes   *)
(* it inductive is that the start of the ring only leaves cell 0 once the  *)
(* ring is full, so that a segment either fills free cells from 0 on or    *)
(* takes the place of the oldest bytes.                                    *)
(***************************************************************************)

\* How many bytes have gone past the head into the ring.
Passed == total - p - Len(head)

\* The inductive invariant, in parts: the head, the fill of the ring, what its
\* cells hold in the order they are read, and the segments of one write.
Counts ==
  /\ headCap \in HeadCaps /\ tailCap \in TailCaps
  /\ total \in 0..MaxTotal /\ p \in 0..MaxChunk /\ p <= total
  /\ tail \in [0..tailCap - 1 -> 0..MaxTotal]

Headed ==
  /\ head = [j \in 1..Lesser(headCap, total) |-> j]
  /\ p > 0 => headCap <= total - p /\ p < tailCap

Filled ==
  /\ tailLen = Lesser(Passed, tailCap)
  /\ tailStart \in Nat
  /\ tailLen < tailCap \/ tailCap = 0 => tailStart = 0
  /\ tailCap > 0 => tailStart < tailCap

Recent == \A k \in 0..tailLen - 1 :
            tail[(tailStart + k) % tailCap] = total - p - tailLen + k + 1

Twice ==
  /\ copies \in 0..2
  /\ copies = 1 /\ p > 0 => tailLen = tailCap /\ tailStart = 0
  /\ copies = 2 => p = 0

Ring == Counts /\ Headed /\ Filled /\ Recent /\ Twice

-----------------------------------------------------------------------------
\* Arithmetic round a ring of c cells.
LEMMA Round ==
  ASSUME NEW c \in Nat \ {0}, NEW a \in Nat
  PROVE  /\ a < c => a % c = a
         /\ a < c => (a + c) % c = a
OBVIOUS

\* The head is a sequence of the length the capacity allows.
LEMMA HeadLen ==
  ASSUME NEW n \in Nat, NEW s, s = [j \in 1..n |-> j]
  PROVE  s \in Seq(Nat) /\ Len(s) = n /\ \A j \in 1..n : s[j] = j
BY SeqDef

\* The capacities of a buffer, and what Counts and Headed give at once.
LEMMA Caps == Counts => headCap \in Nat /\ tailCap \in Nat /\ total \in Nat /\ p \in Nat
BY CapsAssumption DEF CapsAssumption, Counts

LEMMA HeadIs ==
  ASSUME Counts, Headed
  PROVE  /\ head \in Seq(Nat) /\ Len(head) = Lesser(headCap, total)
         /\ Len(head) \in Nat /\ Len(head) <= headCap /\ Len(head) <= total
         /\ \A j \in 1..Len(head) : head[j] = j
         /\ Passed \in Nat
         /\ Passed > 0 \/ p > 0 => Len(head) = headCap
<1>1. headCap \in Nat /\ total \in Nat /\ p \in Nat /\ p <= total
  BY Caps DEF Counts
<1>2. Lesser(headCap, total) \in Nat
  BY <1>1 DEF Lesser
<1>3. head \in Seq(Nat) /\ Len(head) = Lesser(headCap, total) /\ \A j \in 1..Len(head) : head[j] = j
  BY <1>2, HeadLen DEF Headed
<1>4. Passed \in Nat /\ (Passed > 0 \/ p > 0 => Len(head) = headCap)
  BY <1>1, <1>3 DEF Headed, Lesser, Passed
<1>5. QED
  BY <1>1, <1>3, <1>4 DEF Lesser

\* A new buffer.
LEMMA RingInit == Init => Ring
<1> SUFFICES ASSUME Init PROVE Ring
  OBVIOUS
<1>1. headCap \in Nat /\ tailCap \in Nat
  BY CapsAssumption DEF CapsAssumption, Init
<1>2. Len(head) = 0 /\ head = [j \in 1..0 |-> j]
  BY DEF Init
<1>3. Counts
  BY <1>1, CapsAssumption DEF CapsAssumption, Init, Counts
<1>4. Headed
  BY <1>1, <1>2 DEF Init, Headed, Lesser
<1>5. Filled
  <2>1. total = 0 /\ p = 0 /\ tailLen = 0 /\ tailStart = 0
    BY DEF Init
  <2>2. Passed = 0
    BY <1>2, <2>1 DEF Passed
  <2>3. QED BY <1>1, <2>1, <2>2 DEF Filled, Lesser
<1>6. Recent /\ Twice
  BY DEF Init, Recent, Twice
<1>7. QED BY <1>3, <1>4, <1>5, <1>6 DEF Ring

\* What a chunk adds to the head makes the head of the longer stream.
LEMMA WriteHead ==
  ASSUME Ring, NEW n \in 1..MaxChunk, Write(n)
  PROVE  /\ head' = [j \in 1..Lesser(headCap, total + n) |-> j]
         /\ Lesser(headCap, total + n) = Len(head) + Lesser(headCap - Len(head), n)
<1> DEFINE h == Lesser(headCap - Len(head), n)
           more == [j \in 1..h |-> total + j]
<1> HIDE DEF h, more
<1>1. headCap \in Nat /\ total \in Nat /\ n \in Nat
  BY Caps, CapsAssumption DEF CapsAssumption, Ring
<1>2. head \in Seq(Nat) /\ Len(head) = Lesser(headCap, total) /\ \A j \in 1..Len(head) : head[j] = j
  BY HeadIs DEF Ring
<1>3. h \in Nat /\ Len(head) \in Nat
  BY <1>1, <1>2 DEF Lesser, h
<1>4. Lesser(headCap, total + n) = Len(head) + h
  BY <1>1, <1>2 DEF Lesser, h
<1>5. more \in Seq(Nat) /\ Len(more) = h /\ \A j \in 1..h : more[j] = total + j
  <2>1. more \in [1..h -> Nat]
    BY <1>1, <1>3 DEF more
  <2>2. QED BY <2>1, <1>3, SeqDef DEF more
<1>6. head' = head \o more
  BY DEF Write, h, more
<1>7. /\ head' \in Seq(Nat) /\ Len(head') = Len(head) + h
      /\ \A j \in 1..Len(head) + h : head'[j] = IF j <= Len(head) THEN head[j] ELSE more[j - Len(head)]
  BY <1>2, <1>5, <1>6, ConcatProperties
<1>8. \A j \in 1..Len(head) + h : head'[j] = j
  <2> TAKE j \in 1..Len(head) + h
  <2>1. CASE j <= Len(head)
    BY <2>1, <1>2, <1>3, <1>7
  <2>2. CASE j > Len(head)
    <3>1. j - Len(head) \in 1..h /\ Len(head) = total
      BY <2>2, <1>1, <1>2, <1>3 DEF Lesser, h
    <3>2. QED BY <3>1, <2>2, <1>1, <1>3, <1>5, <1>7
  <2>3. QED BY <2>1, <2>2, <1>3
<1>9. head' = [j \in 1..Len(head) + h |-> j]
  BY <1>3, <1>7, <1>8, LenProperties
<1>10. QED BY <1>4, <1>9 DEF h

\* A chunk's start: it stays within the bounds, fills the head and, when it is
\* long enough, the whole ring.
LEMMA RingWrite ==
  ASSUME Ring, NEW n \in 1..MaxChunk, Write(n)
  PROVE  Ring'
<1> DEFINE h    == Lesser(headCap - Len(head), n)
           rest == n - h
<1> HIDE DEF h, rest
<1>1. /\ headCap \in Nat /\ tailCap \in Nat /\ total \in Nat /\ n \in Nat
      /\ MaxTotal \in Nat /\ MaxChunk \in Nat /\ p = 0 /\ n <= MaxChunk /\ n > 0
  BY Caps, CapsAssumption DEF CapsAssumption, Ring, Write
<1>2. /\ Len(head) = Lesser(headCap, total) /\ Len(head) \in Nat
      /\ Len(head) <= headCap /\ Len(head) <= total
  BY HeadIs DEF Ring
<1>3. /\ h \in Nat /\ rest \in Nat /\ h <= n
      /\ rest > 0 => Len(head) + h = headCap
      /\ rest = n - h
  BY <1>1, <1>2 DEF Lesser, h, rest
<1>4. /\ total' = total + n /\ total + n <= MaxTotal
      /\ copies' = 0 /\ headCap' = headCap /\ tailCap' = tailCap
  BY DEF Write
<1>5. head' = [j \in 1..Lesser(headCap, total + n) |-> j]
  BY WriteHead
<1>5a. Len(head') = Len(head) + h
  <2>1. Lesser(headCap, total + n) = Len(head) + h
    BY WriteHead DEF h
  <2>2. QED BY <1>2, <1>3, <1>5, <2>1, HeadLen
<1>6. Twice'
  BY <1>4 DEF Twice
<1>7. CASE rest > 0 /\ rest >= tailCap
  <2>1. tailStart' = 0 /\ tailLen' = tailCap /\ p' = 0
    BY <1>7 DEF Write, ReplaceTail, h, rest
  <2>1a. tail' = [j \in 0..tailCap - 1 |-> total' - tailCap + 1 + j]
    BY <1>7 DEF Write, ReplaceTail, h, rest
  <2>2. Counts'
    <3>1. \A j \in 0..tailCap - 1 : total' - tailCap + 1 + j \in 0..MaxTotal
      BY <1>1, <1>3, <1>4, <1>7
    <3>2. tail' \in [0..tailCap - 1 -> 0..MaxTotal]
      BY <2>1a, <3>1
    <3>3. QED BY <3>2, <2>1, <1>1, <1>4 DEF Counts, Ring
  <2>3. Headed'
    BY <1>4, <1>5, <2>1 DEF Headed
  <2>4. Filled'
    <3>1. Passed' >= tailCap /\ Passed' \in Int
      BY <1>1, <1>2, <1>3, <1>4, <1>5a, <1>7, <2>1 DEF Passed
    <3>2. QED BY <3>1, <2>1, <1>1, <1>4 DEF Filled, Lesser
  <2>5. Recent'
    <3> SUFFICES ASSUME NEW k \in 0..tailLen' - 1
                 PROVE  tail'[(tailStart' + k) % tailCap'] = total' - p' - tailLen' + k + 1
      BY DEF Recent
    <3>1. k \in 0..tailCap - 1 /\ tailStart' + k = k
      BY <1>1, <2>1
    <3>2. tailCap \in Nat \ {0} /\ k \in Nat /\ k < tailCap
      BY <1>1, <3>1
    <3>3. k % tailCap = k
      BY <3>2, Round
    <3>4. QED BY <3>1, <3>3, <2>1, <2>1a, <1>1, <1>4
  <2>6. QED BY <1>6, <2>2, <2>3, <2>4, <2>5 DEF Ring
<1>8. CASE ~(rest > 0 /\ rest >= tailCap)
  <2>1. p' = rest /\ tail' = tail /\ tailStart' = tailStart /\ tailLen' = tailLen
    BY <1>8 DEF Write, h, rest
  <2>2. Passed' = Passed
    BY <1>1, <1>2, <1>3, <1>4, <1>5a, <2>1 DEF Passed
  <2>3. Counts'
    BY <1>1, <1>3, <1>4, <2>1 DEF Counts, Ring
  <2>4. Headed'
    BY <1>1, <1>2, <1>3, <1>4, <1>5, <1>8, <2>1 DEF Headed
  <2>5. Filled'
    BY <1>4, <2>1, <2>2 DEF Filled, Ring
  <2>6. Recent'
    <3>1. CASE Passed = 0
      <4>1. tailLen = 0
        BY <3>1, <1>1 DEF Ring, Filled, Lesser
      <4>2. QED BY <4>1, <2>1 DEF Recent
    <3>2. CASE Passed # 0
      <4>1. h = 0
        BY <3>2, <1>1, <1>2, HeadIs DEF Ring, h, Lesser
      <4>2. total' - p' = total - p
        BY <4>1, <1>1, <1>3, <1>4, <2>1
      <4>3. QED BY <4>2, <1>4, <2>1 DEF Recent, Ring
    <3>3. QED BY <3>1, <3>2
  <2>7. QED BY <1>6, <2>3, <2>4, <2>5, <2>6 DEF Ring
<1>9. QED BY <1>7, <1>8

\* A segment, in a ring that has room and in a full one.
LEMMA RingSegment ==
  ASSUME Ring, CopySegment
  PROVE  Ring'
<1> DEFINE idx  == (tailStart + tailLen) % tailCap
           n    == Lesser(tailCap - idx, p)
           over == tailLen + n - tailCap
           start == IF over > 0 THEN (tailStart + over) % tailCap ELSE tailStart
<1>1. /\ headCap \in Nat /\ tailCap \in Nat /\ total \in Nat /\ p \in Nat
      /\ MaxTotal \in Nat /\ MaxChunk \in Nat
      /\ p > 0 /\ p <= MaxChunk /\ total <= MaxTotal
  BY Caps, CapsAssumption DEF CapsAssumption, Ring, CopySegment, Counts
<1>2. p < tailCap /\ tailCap \in Nat \ {0} /\ headCap <= total - p
  BY <1>1 DEF Ring, Headed
<1>3. Passed \in Nat /\ tailLen = Lesser(Passed, tailCap) /\ Len(head) = headCap
  BY <1>1, HeadIs DEF Ring, Filled
<1>4. tailLen \in Nat /\ tailLen <= tailCap /\ tailStart \in Nat /\ tailStart < tailCap
  BY <1>1, <1>2, <1>3 DEF Ring, Filled, Lesser
<1>5. idx = IF tailLen < tailCap THEN tailLen ELSE tailStart
  <2>1. CASE tailLen < tailCap
    <3>1. tailStart = 0
      BY <2>1 DEF Ring, Filled
    <3>2. tailLen % tailCap = tailLen
      BY <1>2, <1>4, <2>1, Round
    <3>3. tailStart + tailLen = tailLen
      BY <3>1, <1>4
    <3>4. QED BY <2>1, <3>2, <3>3
  <2>2. CASE tailLen = tailCap
    <3>1. (tailStart + tailCap) % tailCap = tailStart
      BY <1>2, <1>4, Round
    <3>2. QED BY <2>2, <3>1, <1>2, <1>4
  <2>3. QED BY <1>2, <1>4, <2>1, <2>2
<1>6. tail' = [j \in DOMAIN tail |->
                 IF j \in idx..idx + n - 1 THEN total - p + 1 + (j - idx) ELSE tail[j]]
  BY DEF CopySegment
<1>7. /\ tailLen' = Lesser(tailLen + n, tailCap)
      /\ tailStart' = start
      /\ p' = p - n /\ copies' = copies + 1
      /\ headCap' = headCap /\ tailCap' = tailCap /\ head' = head /\ total' = total
  BY DEF CopySegment
<1>8. tail \in [0..tailCap - 1 -> 0..MaxTotal]
  BY DEF Ring, Counts
<1> HIDE DEF idx, n, over, start
<1>9. /\ idx \in Nat /\ idx < tailCap
      /\ n \in Nat /\ n > 0 /\ n <= p /\ n <= tailCap - idx
      /\ n = p \/ n = tailCap - idx
  BY <1>1, <1>2, <1>4, <1>5 DEF n, Lesser
<1>10. Counts'
  <2>1. \A j \in 0..tailCap - 1 : j \in idx..idx + n - 1 => total - p + 1 + (j - idx) \in 0..MaxTotal
    BY <1>1, <1>2, <1>9
  <2>2. tail' \in [0..tailCap - 1 -> 0..MaxTotal]
    BY <2>1, <1>6, <1>8
  <2>3. p' \in 0..MaxChunk /\ p' <= total'
    BY <1>1, <1>7, <1>9 DEF Ring, Counts
  <2>4. QED BY <2>2, <2>3, <1>7 DEF Counts, Ring
<1>11. Headed'
  BY <1>1, <1>2, <1>7, <1>9 DEF Headed, Ring
<1>12. Passed' = Passed + n
  BY <1>1, <1>3, <1>7, <1>9 DEF Passed
<1>13. CASE tailLen < tailCap
  <2>1. tailStart = 0 /\ idx = tailLen
    BY <1>5, <1>13 DEF Ring, Filled
  <2>2. tailLen' = tailLen + n /\ tailStart' = 0 /\ tailLen' <= tailCap
    BY <1>2, <1>4, <1>7, <1>9, <2>1 DEF over, start, Lesser
  <2>3. Filled'
    <3>1. tailLen' = Lesser(Passed', tailCap')
      BY <1>2, <1>3, <1>4, <1>7, <1>9, <1>12, <1>13, <2>2 DEF Lesser
    <3>2. QED BY <3>1, <2>2, <1>2, <1>7 DEF Filled
  <2>4. Recent'
    <3> SUFFICES ASSUME NEW k \in 0..tailLen' - 1
                 PROVE  tail'[(tailStart' + k) % tailCap'] = total' - p' - tailLen' + k + 1
      BY DEF Recent
    <3>1. k \in Nat /\ k < tailCap /\ k < tailLen + n /\ k \in 0..tailCap - 1
      BY <1>2, <1>4, <1>9, <2>2
    <3>2. k % tailCap = k /\ tailStart' + k = k /\ tailStart + k = k
      BY <3>1, <1>2, <2>1, <2>2, Round
    <3>3. total' - p' - tailLen' + k + 1 = total - p - tailLen + k + 1
      BY <3>1, <1>1, <1>4, <1>7, <1>9, <2>2
    <3>4. CASE k < tailLen
      <4>1. tail[k] = total - p - tailLen + k + 1
        BY <3>1, <3>2, <3>4, <1>4 DEF Ring, Recent
      <4>2. tail'[k] = tail[k]
        BY <3>1, <3>4, <1>4, <1>6, <1>8, <1>9, <2>1
      <4>3. QED BY <4>1, <4>2, <3>2, <3>3, <1>7
    <3>5. CASE k >= tailLen
      <4>1. tail'[k] = total - p + 1 + (k - tailLen)
        BY <3>1, <3>5, <1>4, <1>6, <1>8, <1>9, <2>1
      <4>2. QED BY <4>1, <3>1, <3>2, <3>3, <1>1, <1>4, <1>7
    <3>6. QED BY <3>1, <3>4, <3>5, <1>4
  <2>5. Twice'
    <3>1. copies = 0 \/ copies = 1
      BY <1>1 DEF Ring, Twice
    <3>2. copies = 0
      BY <3>1, <1>1, <1>2, <1>13 DEF Ring, Twice
    <3>3. p' > 0 => tailLen' = tailCap'
      BY <1>1, <1>2, <1>4, <1>7, <1>9, <2>1, <2>2
    <3>4. QED BY <3>2, <3>3, <2>2, <1>7 DEF Twice
  <2>6. QED BY <1>10, <1>11, <2>3, <2>4, <2>5 DEF Ring
<1>14. CASE tailLen = tailCap
  <2>1. idx = tailStart /\ over = n
    BY <1>4, <1>5, <1>9, <1>14 DEF over
  <2>2. tailLen' = tailCap
    BY <1>2, <1>4, <1>7, <1>9, <1>14 DEF Lesser
  <2>3. \/ tailStart + n < tailCap /\ start = tailStart + n
        \/ tailStart + n = tailCap /\ start = 0
    <3>1. start = (tailStart + n) % tailCap
      BY <1>9, <2>1 DEF start
    <3>2. tailStart + n \in Nat /\ tailStart + n <= tailCap
      BY <1>2, <1>4, <1>9, <2>1
    <3>3. CASE tailStart + n < tailCap
      BY <3>1, <3>2, <3>3, <1>2, Round
    <3>4. CASE tailStart + n = tailCap
      <4>1. (0 + tailCap) % tailCap = 0
        BY <1>2, Round
      <4>2. QED BY <4>1, <3>1, <3>4, <1>2
    <3>5. QED BY <3>2, <3>3, <3>4, <1>2
  <2>3a. start \in Nat /\ start < tailCap
    BY <2>3, <1>2, <1>4, <1>9
  <2>4. Filled'
    <3>1. tailLen' = Lesser(Passed', tailCap')
      BY <1>2, <1>3, <1>7, <1>9, <1>12, <1>14, <2>2 DEF Lesser
    <3>2. tailStart' \in Nat /\ tailStart' < tailCap'
      BY <1>7, <2>3a
    <3>3. ~(tailLen' < tailCap') /\ ~(tailCap' = 0)
      BY <1>2, <1>7, <2>2
    <3>4. QED BY <3>1, <3>2, <3>3 DEF Filled
  <2>5. Recent'
    <3> SUFFICES ASSUME NEW k \in 0..tailLen' - 1
                 PROVE  tail'[(tailStart' + k) % tailCap'] = total' - p' - tailLen' + k + 1
      BY DEF Recent
    <3>1. k \in Nat /\ k < tailCap
      BY <1>2, <2>2
    <3>2. total' - p' - tailLen' + k + 1 = total - p - tailCap + n + k + 1
      BY <3>1, <1>1, <1>2, <1>7, <1>9, <2>2
    <3> DEFINE cell == (start + k) % tailCap
    <3>3. /\ cell \in 0..tailCap - 1
          /\ cell = tailStart + n + k \/ cell = tailStart + n + k - tailCap
      <4>1. CASE start + k < tailCap
        <5>1. cell = start + k
          BY <4>1, <3>1, <1>2, <2>2, <2>3a, Round
        <5>2. QED BY <4>1, <5>1, <3>1, <1>2, <1>4, <1>9, <2>1, <2>2, <2>3, <2>3a
      <4>2. CASE start + k >= tailCap
        <5> DEFINE a == start + k - tailCap
        <5>1. a \in Nat /\ a < tailCap /\ start + k = a + tailCap
          BY <4>2, <3>1, <1>2, <2>2, <2>3a
        <5> HIDE DEF a
        <5>2. cell = a
          BY <5>1, <1>2, Round
        <5>3. QED BY <4>2, <5>1, <5>2, <3>1, <1>2, <1>4, <1>9, <2>1, <2>2, <2>3, <2>3a
      <4>3. QED BY <4>1, <4>2, <3>1, <1>2, <2>2, <2>3a
    <3> HIDE DEF cell
    <3>4. CASE cell \in tailStart..tailStart + n - 1
      <4>1. tail'[cell] = total - p + 1 + (cell - tailStart)
        BY <3>3, <3>4, <1>6, <1>8, <2>1
      <4>2. cell = tailStart + n + k - tailCap
        BY <3>1, <3>3, <3>4, <1>2, <1>4, <1>9
      <4>3. QED BY <4>1, <4>2, <3>1, <3>2, <1>1, <1>2, <1>4, <1>7, <1>9 DEF cell
    <3>5. CASE cell \notin tailStart..tailStart + n - 1
      <4>1. tail'[cell] = tail[cell]
        BY <3>3, <3>5, <1>6, <1>8, <2>1
      <4>2. n + k \in 0..tailLen - 1 /\ (tailStart + (n + k)) % tailCap = cell
        <5>1. CASE cell = tailStart + n + k
          <6>1. tailStart + (n + k) = cell /\ cell \in Nat /\ cell < tailCap
            BY <5>1, <3>1, <3>3, <1>2, <1>4, <1>9
          <6>2. QED BY <6>1, <3>1, <1>2, <1>4, <1>9, <1>14, Round
        <5>2. CASE cell = tailStart + n + k - tailCap
          <6>1. /\ tailStart + (n + k) = cell + tailCap /\ cell \in Nat /\ cell < tailStart
                /\ n + k < tailCap
            BY <5>2, <3>1, <3>3, <3>5, <1>2, <1>4, <1>9
          <6>2. (cell + tailCap) % tailCap = cell
            BY <6>1, <1>2, <1>4, Round
          <6>3. QED BY <6>1, <6>2, <3>1, <1>2, <1>9, <1>14
        <5>3. QED BY <3>3, <5>1, <5>2
      <4>3. tail[cell] = total - p - tailLen + (n + k) + 1
        BY <4>2 DEF Ring, Recent
      <4>4. QED BY <4>1, <4>3, <3>1, <3>2, <1>1, <1>2, <1>7, <1>9, <1>14 DEF cell
    <3>6. QED BY <3>4, <3>5
  <2>6. Twice'
    <3>1. copies \in 0..1 /\ (copies = 1 => tailStart = 0)
      BY <1>1 DEF Ring, Twice
    <3>2. copies = 1 => p' = 0
      BY <3>1, <1>1, <1>2, <1>7, <1>9, <2>1
    <3>3. copies = 0 /\ p' > 0 => tailStart' = 0
      BY <1>1, <1>2, <1>4, <1>7, <1>9, <2>1, <2>3, <2>3a
    <3>4. copies' = copies + 1
      BY <1>7
    <3>5. tailLen' = tailCap'
      BY <1>7, <2>2
    <3>6. CASE copies = 0
      BY <3>3, <3>4, <3>5, <3>6 DEF Twice
    <3>7. CASE copies = 1
      BY <3>2, <3>4, <3>7 DEF Twice
    <3>8. QED BY <3>1, <3>6, <3>7
  <2>7. QED BY <1>10, <1>11, <2>4, <2>5, <2>6 DEF Ring
<1>15. QED BY <1>2, <1>4, <1>13, <1>14

\* Ring is inductive.
THEOREM RingInvariant == Spec => []Ring
<1>1. Ring /\ [Next]_vars => Ring'
  <2> SUFFICES ASSUME Ring, [Next]_vars PROVE Ring'
    OBVIOUS
  <2>1. ASSUME NEW n \in 1..MaxChunk, Write(n) PROVE Ring'
    BY <2>1, RingWrite
  <2>2. CASE CopySegment
    BY <2>2, RingSegment
  <2>3. CASE UNCHANGED vars
    BY <2>3 DEF vars, Ring, Counts, Headed, Filled, Recent, Twice, Passed
  <2>4. QED BY <2>1, <2>2, <2>3 DEF Next
<1>2. QED BY RingInit, <1>1, PTL DEF Spec

-----------------------------------------------------------------------------
\* What is in a buffer has the shape the code's fields are declared with.
THEOREM CapBufTypes == Spec => []TypeOK
<1>1. Ring => TypeOK
  <2> SUFFICES ASSUME Ring PROVE TypeOK
    OBVIOUS
  <2>1. headCap \in Nat /\ tailCap \in Nat /\ total \in Nat /\ p \in Nat /\ MaxTotal \in Nat
    BY Caps, CapsAssumption DEF CapsAssumption, Ring
  <2>2. Len(head) \in Nat /\ Len(head) <= headCap /\ Len(head) <= total
    BY HeadIs DEF Ring
  <2>3. head \in Seq(1..MaxTotal)
    <3>1. head \in [1..Len(head) -> 1..MaxTotal]
      <4>1. head \in [1..Len(head) -> Nat] /\ \A j \in 1..Len(head) : head[j] = j
        BY HeadIs, LenProperties DEF Ring
      <4>2. total <= MaxTotal
        BY <2>1 DEF Ring, Counts
      <4>3. QED BY <4>1, <4>2, <2>1, <2>2
    <3>2. QED BY <3>1, <2>2, SeqDef
  <2>4. Passed \in Nat
    BY HeadIs DEF Ring
  <2>5. tailStart \in 0..tailCap /\ tailLen \in 0..tailCap /\ (tailCap > 0 => tailStart < tailCap)
    BY <2>1, <2>4 DEF Ring, Filled, Lesser
  <2>6. QED BY <2>1, <2>2, <2>3, <2>5 DEF Ring, Counts, TypeOK
<1>2. QED BY RingInvariant, <1>1, PTL

\* A write never takes a third copy, and the second is its last (capBuf.Write).
THEOREM TwoCopies == Spec => []AtMostTwoCopies
<1>1. Ring => AtMostTwoCopies
  BY DEF Ring, Twice, AtMostTwoCopies
<1>2. QED BY RingInvariant, <1>1, PTL

\* Between two writes the buffer holds the first headCap and the last tailCap
\* bytes of the stream in order, and its marker counts what is missing between.
THEOREM HeadAndTailHold == Spec => []HeadAndTail
<1>1. Ring => HeadAndTail
  <2> SUFFICES ASSUME Ring, p = 0
               PROVE  /\ Len(Kept) = Lesser(total, headCap + tailCap)
                      /\ \A j \in DOMAIN Kept : Kept[j] = IF j <= headCap THEN j ELSE j + Dropped
                      /\ Truncated <=> total > headCap + tailCap
    BY DEF HeadAndTail
  <2> DEFINE recent == [j \in 1..tailLen |-> tail[(tailStart + j - 1) % tailCap]]
  <2>1. headCap \in Nat /\ tailCap \in Nat /\ total \in Nat
    BY Caps DEF Ring
  <2>2. /\ head \in Seq(Nat) /\ Len(head) = Lesser(headCap, total) /\ Len(head) \in Nat
        /\ \A j \in 1..Len(head) : head[j] = j
    BY HeadIs DEF Ring
  <2>3. Passed = total - Len(head) /\ tailLen = Lesser(total - Len(head), tailCap) /\ tailStart \in Nat
    BY <2>1, <2>2 DEF Ring, Filled, Passed
  <2>4. tailLen \in Nat /\ (tailLen > 0 => Len(head) = headCap)
    BY <2>1, <2>2, <2>3 DEF Lesser
  <2>5. \A j \in 1..tailLen : recent[j] = total - tailLen + j
    <3> TAKE j \in 1..tailLen
    <3>1. j - 1 \in 0..tailLen - 1 /\ tailStart + (j - 1) = tailStart + j - 1
      BY <2>3, <2>4
    <3>2. tail[(tailStart + (j - 1)) % tailCap] = total - p - tailLen + (j - 1) + 1
      BY <3>1 DEF Ring, Recent
    <3>3. QED BY <3>1, <3>2, <2>1, <2>4
  <2>6. recent \in Seq(Nat) /\ Len(recent) = tailLen
    <3>1. total - tailLen \in Nat
      BY <2>1, <2>2, <2>3, <2>4 DEF Lesser
    <3>2. \A j \in 1..tailLen : total - tailLen + j \in Nat
      BY <3>1, <2>4
    <3>3. \A j \in 1..tailLen : recent[j] \in Nat
      BY <3>2, <2>5
    <3>4. recent \in [1..tailLen -> Nat]
      BY <3>3
    <3>5. QED BY <3>4, <2>4, SeqDef
  <2> HIDE DEF recent
  <2>7. Kept = head \o recent
    BY DEF Kept, recent
  <2>8. /\ Kept \in Seq(Nat) /\ Len(Kept) = Len(head) + tailLen
        /\ \A j \in 1..Len(head) + tailLen :
             Kept[j] = IF j <= Len(head) THEN head[j] ELSE recent[j - Len(head)]
    BY <2>2, <2>6, <2>7, ConcatProperties
  <2>9. Len(Kept) = Lesser(total, headCap + tailCap)
    BY <2>1, <2>2, <2>3, <2>8 DEF Lesser
  <2>10. \A j \in DOMAIN Kept : Kept[j] = IF j <= headCap THEN j ELSE j + Dropped
    <3>1. DOMAIN Kept = 1..Len(head) + tailLen
      BY <2>8, LenProperties
    <3>2. SUFFICES ASSUME NEW j \in 1..Len(head) + tailLen
                   PROVE  Kept[j] = IF j <= headCap THEN j ELSE j + Dropped
      BY <3>1
    <3>3. CASE j <= Len(head)
      <4>1. j \in 1..Len(head) /\ j <= headCap
        BY <3>3, <2>1, <2>2, <2>4 DEF Lesser
      <4>2. Kept[j] = head[j]
        BY <3>3, <2>8
      <4>3. QED BY <4>1, <4>2, <2>2
    <3>4. CASE j > Len(head)
      <4>1. j - Len(head) \in 1..tailLen /\ Len(head) = headCap
        BY <3>4, <2>2, <2>4
      <4>2. Kept[j] = total - tailLen + (j - Len(head))
        BY <3>4, <4>1, <2>2, <2>4, <2>5, <2>8
      <4>3. QED BY <3>4, <4>1, <4>2, <2>1, <2>2, <2>4 DEF Dropped
    <3>5. QED BY <3>3, <3>4, <2>2, <2>4
  <2>11. Truncated <=> total > headCap + tailCap
    BY <2>1, <2>2, <2>3, <2>4 DEF Truncated, Dropped, Lesser
  <2>12. QED BY <2>9, <2>10, <2>11
<1>2. QED BY RingInvariant, <1>1, PTL

-----------------------------------------------------------------------------
(***************************************************************************)
(* Proofs about Upgrade, for any number of users and versions: there is    *)
(* always a binary, and what is installed passed its checks.               *)
(***************************************************************************)

Working == {"place", "fetch", "sanity", "swap", "aside", "in"}

UpgradeTypes ==
  /\ windows \in BOOLEAN
  /\ exe \in {"installed", "good", Upgrade!Nothing}
  /\ old \in {"installed", "good", Upgrade!Nothing}
  /\ pc \in [Users -> Upgrade!Ends \cup Working]
  /\ tmp \in [Users -> Upgrade!Contents \cup {Upgrade!Nothing}]

\* What an upgrade under way relies on: a staged binary has passed the checksum,
\* and from the sanity run on it is the release; its place is taken until it
\* moves what is there aside.
Staged(u) ==
  /\ pc[u] = "sanity" => tmp[u] \in {"good", "broken"}
  /\ pc[u] \in {"swap", "aside", "in"} => tmp[u] = "good"
  /\ pc[u] = "swap" => ~windows
  /\ pc[u] \in {"aside", "in"} => windows
  /\ pc[u] \in Working \ {"in"} => exe # Upgrade!Nothing
  /\ pc[u] = "in" => exe = Upgrade!Nothing

\* On Windows one upgrade at a time is under way.
OneOnWindows ==
  windows => \A u, w \in Users : pc[u] \in Working /\ pc[w] \in Working => u = w

\* The place is empty only on Windows, between two renames or for good when the
\* process died there or could move neither file; the old binary is kept then.
Gap ==
  exe = Upgrade!Nothing => /\ windows /\ old # Upgrade!Nothing
                   /\ \E u \in Users : pc[u] \in {"in", "died", "stranded"}

UpgradeInv == UpgradeTypes /\ OneOnWindows /\ Gap /\ \A u \in Users : Staged(u)

\* Nobody has begun, and there is a binary.
LEMMA UpgradeInit == Upgrade!Init => UpgradeInv
BY DEF Upgrade!Init, UpgradeInv, UpgradeTypes, OneOnWindows, Gap, Staged, Upgrade!Ends,
   Working, Upgrade!Nothing, Upgrade!Contents

\* A step of one user leaves the others where they are.
LEMMA OthersStay ==
  ASSUME UpgradeInv, NEW u \in Users, NEW s, Upgrade!Become(u, s)
  PROVE  pc'[u] = s /\ \A w \in Users \ {u} : pc'[w] = pc[w]
BY DEF UpgradeInv, UpgradeTypes, Upgrade!Become

\* Where a user can be, and where the binaries can be, after each step.
LEMMA UpgradeNext == UpgradeInv /\ [Upgrade!Next]_(Upgrade!vars) => UpgradeInv'
<1> SUFFICES ASSUME UpgradeInv, [Upgrade!Next]_(Upgrade!vars) PROVE UpgradeInv'
  OBVIOUS
<1> USE DEF Upgrade!Nothing, Upgrade!Contents, Upgrade!Ends, Working
<1>1. CASE UNCHANGED Upgrade!vars
  BY <1>1 DEF Upgrade!vars, UpgradeInv, UpgradeTypes, OneOnWindows, Gap, Staged
<1>2. ASSUME NEW u \in Users, Upgrade!Step(u), windows' = windows PROVE UpgradeInv'
  <2>1. CASE Upgrade!Decide(u)
    <3>1. PICK s \in {"failed", "refused", "told", "place"} : Upgrade!Become(u, s)
      BY <2>1 DEF Upgrade!Decide, Upgrade!Decision
    <3>2. QED
      BY <1>2, <2>1, <3>1, OthersStay
      DEF Upgrade!Decide, Upgrade!files, UpgradeInv, UpgradeTypes, OneOnWindows, Gap,
      Staged, Upgrade!Become
  <2>2. CASE Upgrade!Place(u)
    BY <1>2, <2>2 DEF Upgrade!Place, UpgradeInv, UpgradeTypes, OneOnWindows, Gap,
       Staged, Upgrade!Become
  <2>3. CASE Upgrade!Fetch(u)
    BY <1>2, <2>3 DEF Upgrade!Fetch, Upgrade!files, UpgradeInv, UpgradeTypes,
       OneOnWindows, Gap, Staged, Upgrade!Become
  <2>4. CASE Upgrade!Sanity(u)
    BY <1>2, <2>4 DEF Upgrade!Sanity, Upgrade!files, UpgradeInv, UpgradeTypes,
       OneOnWindows, Gap, Staged, Upgrade!Become
  <2>5. CASE Upgrade!Swap(u)
    BY <1>2, <2>5 DEF Upgrade!Swap, UpgradeInv, UpgradeTypes, OneOnWindows, Gap,
       Staged, Upgrade!Become
  <2>6. CASE Upgrade!Aside(u)
    BY <1>2, <2>6 DEF Upgrade!Aside, Upgrade!files, UpgradeInv, UpgradeTypes,
       OneOnWindows, Gap, Staged, Upgrade!Become
  <2>7. CASE Upgrade!MoveIn(u)
    BY <1>2, <2>7 DEF Upgrade!MoveIn, Upgrade!files, UpgradeInv, UpgradeTypes,
       OneOnWindows, Gap, Staged, Upgrade!Become
  <2>8. CASE Upgrade!Dies(u)
    BY <1>2, <2>8 DEF Upgrade!Dies, Upgrade!files, UpgradeInv, UpgradeTypes,
       OneOnWindows, Gap, Staged, Upgrade!Become
  <2>9. QED
    BY <1>2, <2>1, <2>2, <2>3, <2>4, <2>5, <2>6, <2>7, <2>8 DEF Upgrade!Step
<1>3. QED BY <1>1, <1>2 DEF Upgrade!Next

\* However many users upgrade at once, and wherever each of them fails or dies,
\* there is a binary at its place (on Windows possibly moved aside) and what is
\* installed was verified or was there before (upgrade.go).
THEOREM UpgradeInstallsHolds == Upgrade!Spec => []UpgradeInstalls
<1>1. UpgradeInv => UpgradeInstalls
  BY DEF UpgradeInv, UpgradeTypes, Gap, Staged, UpgradeInstalls, Upgrade!UpgradeInstalls,
     Upgrade!BinaryInPlace, Upgrade!OnlyVerified,
     Upgrade!Nothing, Upgrade!Ends
<1>2. QED BY <1>1, UpgradeInit, UpgradeNext, PTL DEF Upgrade!Spec
-----------------------------------------------------------------------------
(***************************************************************************)
(* Proof about Hangup: the pending command is stored with all that was     *)
(* read of it, however much the shell writes and whenever the hangup comes *)
(* and the terminal is closed.                                             *)
(***************************************************************************)

HangupTypes ==
  /\ shell \in {"alive", "told", "deaf"} \cup Hangup!Gone
  /\ written \in Nat /\ fed \in Nat /\ chunk \in Nat
  /\ loop \in {"read", "write", "ended", "flushed", "returned"}
  /\ hup \in {"waiting", "grace", "over"}
  /\ master \in BOOLEAN /\ outer \in BOOLEAN /\ lost \in Nat

\* What the loop has taken and has in hand was written.
InHand ==
  /\ fed <= written
  /\ loop # "write" => chunk = 0
  /\ fed + chunk <= written

Reading == loop \in {"read", "write"}

\* Nothing is lost before the three seconds are over.  Once the master is closed
\* what is neither fed nor in hand is lost; and the loop that ended with the
\* terminal there was told so by the shell's end, with nothing left to read, or by
\* the closing.
HangupInv ==
  /\ HangupTypes /\ InHand
  /\ hup # "over" => lost = 0
  /\ hup = "over" => master
  /\ Reading /\ master => hup = "over"
  /\ master /\ outer => fed + chunk + lost = written
  /\ ~Reading /\ outer => master \/ shell \in Hangup!Gone
  /\ ~Reading /\ outer => fed + lost = written

\* Nothing is written yet.
LEMMA HangupInit == Hangup!Init => HangupInv
<1> SUFFICES ASSUME Hangup!Init PROVE HangupInv
  OBVIOUS
<1>1. HangupTypes
  BY DEF Hangup!Init, HangupTypes
<1>2. InHand
  BY DEF Hangup!Init, InHand
<1>3. Reading /\ ~master /\ hup = "waiting" /\ lost = 0
  BY DEF Hangup!Init, Reading
<1>4. QED BY <1>1, <1>2, <1>3 DEF HangupInv

\* Every step of the shell, the hangup thread and the loop.
LEMMA HangupNext == HangupInv /\ [Hangup!Next]_(Hangup!vars) => HangupInv'
<1> SUFFICES ASSUME HangupInv, [Hangup!Next]_(Hangup!vars) PROVE HangupInv'
  OBVIOUS
<1> USE DEF Hangup!Gone, Reading, HangupInv, HangupTypes, InHand
<1>1. CASE UNCHANGED Hangup!vars
  BY <1>1 DEF Hangup!vars
<1>2. CASE Hangup!ShellWrites
  BY <1>2 DEF Hangup!ShellWrites
<1>3. CASE Hangup!ShellExits
  BY <1>3 DEF Hangup!ShellExits
<1>4. CASE Hangup!HangupComes
  <2>1. outer' \in BOOLEAN /\ (outer' => outer)
    <3>1. outer' = outer \/ outer' = FALSE
      BY <1>4 DEF Hangup!HangupComes
    <3>2. CASE outer' = outer
      BY <3>2
    <3>3. CASE outer' = FALSE
      BY <3>3
    <3>4. QED BY <3>1, <3>2, <3>3
  <2>2. /\ shell' \in {"alive", "told", "deaf"} \cup Hangup!Gone
        /\ shell' \in Hangup!Gone <=> shell \in Hangup!Gone
        /\ shell' = "exited" => shell = "exited"
    BY <1>4 DEF Hangup!HangupComes
  <2>3. hup = "waiting" /\ hup' = "grace" /\ UNCHANGED <<written, fed, chunk, loop, master, lost>>
    BY <1>4 DEF Hangup!HangupComes
  <2>4. QED BY <2>1, <2>2, <2>3
<1>5. CASE Hangup!GraceEnds
  BY <1>5 DEF Hangup!GraceEnds
<1>6. CASE Hangup!Read
  <2>1. /\ loop = "read" /\ ~master /\ loop' = "write"
        /\ UNCHANGED <<shell, written, fed, hup, master, outer, lost>>
    BY <1>6 DEF Hangup!Read
  <2>2. chunk' \in Nat /\ chunk' > 0 /\ fed + chunk' <= written
    <3>1. chunk' \in 1..written - fed
      BY <1>6 DEF Hangup!Read
    <3>2. fed \in Nat /\ written \in Nat
      OBVIOUS
    <3> HIDE DEF HangupInv, HangupTypes, InHand
    <3>3. \A a, b \in Nat : \A n \in 1..a - b : n \in Nat /\ n > 0 /\ b + n <= a
      OBVIOUS
    <3>4. QED BY <3>1, <3>2, <3>3
  <2>3. QED BY <2>1, <2>2
<1>7. CASE Hangup!ReadFails
  BY <1>7 DEF Hangup!ReadFails
<1>8. CASE Hangup!PassOn
  BY <1>8 DEF Hangup!PassOn
<1>9. CASE Hangup!Flush
  BY <1>9 DEF Hangup!Flush
<1>10. CASE Hangup!Wait
  BY <1>10 DEF Hangup!Wait
<1>11. QED
  BY <1>1, <1>2, <1>3, <1>4, <1>5, <1>6, <1>7, <1>8, <1>9, <1>10 DEF Hangup!Next,
     Hangup!Loop

\* Whenever the terminal is closed under the loop, the flush stores all that was
\* written but what nobody had read by then (record_unix.go, record.go).
THEOREM HangupStoresReadHolds == Hangup!Spec => []HangupStoresRead
<1>1. HangupInv => HangupStoresRead
  BY DEF HangupInv, Reading, HangupStoresRead, Hangup!HangupStoresRead
<1>2. QED BY <1>1, HangupInit, HangupNext, PTL DEF Hangup!Spec
-----------------------------------------------------------------------------
(***************************************************************************)
(* Proofs about Exec, for any amount of output and any signals: what was   *)
(* read of it in time is kept and passed on, and the exit code mirrored.   *)
(***************************************************************************)

ExecTypes ==
  /\ main \in {"start", "wait", "grace", "cut", "record", "done", "killed"}
  /\ child \in {"none", "alive", "gone"}
  /\ wrote \in [Exec!Streams -> Nat] /\ own \in [Exec!Streams -> Nat]
  /\ taken \in [Exec!Streams -> Nat] /\ shown \in [Exec!Streams -> Nat]
  /\ unread \in [Exec!Streams -> Nat]
  /\ copier \in [Exec!Streams -> {"reading", "writing", "ended"}]
  /\ straggler \in BOOLEAN /\ copyErr \in BOOLEAN /\ closed \in BOOLEAN
  /\ cut \in BOOLEAN /\ quiet \in BOOLEAN
  /\ exit \in Nat
  /\ result \in [code : Nat, stored : {"no", "no store", "ignored", "failed", "yes"}]

\* All that the child wrote to the stream has been kept, but what was left.
Whole(s) == taken[s] + unread[s] >= own[s]

\* A copier that waits for input has passed on all it took, unless it passes
\* nothing on; and nothing is taken that was not written, or left before the
\* pipes are closed.
CopierInv(s) ==
  /\ own[s] <= wrote[s] /\ taken[s] <= wrote[s]
  /\ ~closed => unread[s] = 0
  /\ copier[s] = "reading" => quiet \/ shown[s] = taken[s]
  /\ main # "killed" /\ ~copyErr /\ copier[s] = "ended" => quiet \/ shown[s] = taken[s]
  /\ main # "killed" /\ ~copyErr =>
       (copier[s] = "ended" \/ closed \/ Exec!Ended => Whole(s))
  /\ Exec!Ended => copier[s] = "ended" \/ child = "none"

\* The phases of runExec: before the start there is no child, after the wait it
\* is gone; the grace period is what closes the pipes.
PhaseInv ==
  /\ main = "start" => /\ child = "none" /\ ~copyErr /\ ~quiet
                       /\ \A s \in Exec!Streams : wrote[s] = 0
  /\ child = "none" /\ main # "killed" =>
       /\ main \in {"start", "record", "done"} /\ ~straggler /\ ~closed
       /\ \A s \in Exec!Streams : copier[s] = "reading" /\ taken[s] = wrote[s]
  /\ main \in {"grace", "cut"} => child = "gone"
  /\ Exec!Ended => child # "alive"
  /\ closed => main \in {"cut", "record", "done", "killed"}
  /\ Exec!ExitMirrored

ExecInv == ExecTypes /\ PhaseInv /\ \A s \in Exec!Streams : CopierInv(s)

\* Nothing is started.
LEMMA ExecInit == Exec!Init => ExecInv
<1> SUFFICES ASSUME Exec!Init PROVE ExecInv
  OBVIOUS
<1>1. ExecTypes
  BY DEF Exec!Init, ExecTypes
<1>2. PhaseInv
  BY DEF Exec!Init, PhaseInv, Exec!Ended, Exec!ExitMirrored
<1>3. \A s \in Exec!Streams : CopierInv(s)
  BY DEF Exec!Init, CopierInv, Exec!Ended, Whole
<1>4. QED BY <1>1, <1>2, <1>3 DEF ExecInv

\* Steps of the child and of what it leaves behind.
LEMMA ChildNext ==
  ASSUME ExecInv,
         \/ Exec!ChildForks \/ Exec!ChildExits \/ Exec!StragglerExits
         \/ \E s \in Exec!Streams : Exec!ChildWrites(s) \/ Exec!ChildBreaks(s) \/ Exec!StragglerWrites(s)
  PROVE  ExecInv'
<1>1. ExecTypes /\ PhaseInv /\ \A s \in Exec!Streams : CopierInv(s)
  BY DEF ExecInv
<1> USE <1>1
<1>2. CASE Exec!ChildForks
  <2>1. ExecTypes'
    BY <1>2 DEF Exec!ChildForks, ExecTypes, Exec!pipes
  <2>2. PhaseInv'
    BY <1>2 DEF Exec!ChildForks, ExecTypes, PhaseInv, Exec!Ended, Exec!ExitMirrored,
       Exec!pipes
  <2>3. ASSUME NEW t \in Exec!Streams PROVE CopierInv(t)'
    BY <1>2 DEF Exec!ChildForks, ExecTypes, PhaseInv, CopierInv, Exec!Ended, Whole,
       Exec!pipes
  <2>4. QED BY <2>1, <2>2, <2>3 DEF ExecInv
<1>3. CASE Exec!ChildExits
  <2>1. exit' \in Nat
    <3>1. exit' \in {0, 1, Exec!Interrupted}
      BY <1>3 DEF Exec!ChildExits, Exec!Codes
    <3>2. QED BY <3>1 DEF Exec!Interrupted
  <2>2. /\ child = "alive" /\ child' = "gone"
        /\ UNCHANGED <<main, straggler, Exec!pipes, cut, unread, quiet, result>>
    BY <1>3 DEF Exec!ChildExits
  <2>3. ExecTypes'
    BY <2>1, <2>2 DEF ExecTypes, Exec!pipes
  <2>4. PhaseInv'
    BY <1>3 DEF Exec!ChildExits, ExecTypes, PhaseInv, Exec!Ended, Exec!ExitMirrored,
       Exec!pipes
  <2>5. ASSUME NEW t \in Exec!Streams PROVE CopierInv(t)'
    BY <1>3 DEF Exec!ChildExits, ExecTypes, PhaseInv, CopierInv, Exec!Ended, Whole,
       Exec!pipes, Exec!Codes, Exec!Interrupted
  <2>6. QED BY <2>3, <2>4, <2>5 DEF ExecInv
<1>4. CASE Exec!StragglerExits
  <2>1. ExecTypes'
    BY <1>4 DEF Exec!StragglerExits, ExecTypes, Exec!pipes
  <2>2. PhaseInv'
    BY <1>4 DEF Exec!StragglerExits, ExecTypes, PhaseInv, Exec!Ended,
       Exec!ExitMirrored, Exec!pipes
  <2>3. ASSUME NEW t \in Exec!Streams PROVE CopierInv(t)'
    BY <1>4 DEF Exec!StragglerExits, ExecTypes, PhaseInv, CopierInv, Exec!Ended, Whole,
       Exec!pipes
  <2>4. QED BY <2>1, <2>2, <2>3 DEF ExecInv
<1>5. ASSUME NEW s \in Exec!Streams, Exec!ChildWrites(s) PROVE ExecInv'
  <2>1. /\ wrote' \in [Exec!Streams -> Nat] /\ wrote'[s] = wrote[s] + 1
        /\ \A t \in Exec!Streams \ {s} : wrote'[t] = wrote[t]
        /\ own' \in [Exec!Streams -> Nat] /\ own'[s] = wrote[s] + 1
        /\ \A t \in Exec!Streams \ {s} : own'[t] = own[t]
    <3>1. wrote[s] \in Nat
      BY DEF ExecTypes
    <3>2. wrote' = [wrote EXCEPT ![s] = wrote[s] + 1]
      BY <1>5 DEF Exec!ChildWrites
    <3>3. wrote'[s] = wrote[s] + 1
      BY <3>2 DEF ExecTypes
    <3>4. own' = [own EXCEPT ![s] = wrote[s] + 1]
      BY <1>5, <3>3 DEF Exec!ChildWrites
    <3> PICK n \in Nat : n = wrote[s] + 1
      BY <3>1
    <3>5. QED BY <3>2, <3>3, <3>4 DEF ExecTypes
  <2>2. ExecTypes'
    BY <1>5, <2>1 DEF Exec!ChildWrites, ExecTypes
  <2>3. PhaseInv'
    BY <1>5, <2>1 DEF Exec!ChildWrites, ExecTypes, PhaseInv, Exec!Ended,
       Exec!ExitMirrored
  <2>4. ASSUME NEW t \in Exec!Streams PROVE CopierInv(t)'
    <3>1. /\ child = "alive" /\ copier[s] # "ended"
          /\ UNCHANGED <<main, child, taken, shown, copier, copyErr, closed, unread, quiet>>
      BY <1>5 DEF Exec!ChildWrites
    <3>2. CopierInv(t) /\ ~Exec!Ended /\ (main # "killed" => ~closed)
      BY <3>1 DEF PhaseInv, Exec!Ended
    <3>3. wrote[t] \in Nat /\ own[t] \in Nat /\ taken[t] \in Nat
      BY DEF ExecTypes
    <3>4. QED BY <2>1, <3>1, <3>2, <3>3 DEF CopierInv, Exec!Ended, Whole
  <2>5. QED BY <2>2, <2>3, <2>4 DEF ExecInv
<1>6. ASSUME NEW s \in Exec!Streams, Exec!ChildBreaks(s) PROVE ExecInv'
  <2>1. ExecTypes'
    BY <1>6 DEF Exec!ChildBreaks, ExecTypes, Exec!pipes, Exec!Broken
  <2>2. PhaseInv'
    BY <1>6 DEF Exec!ChildBreaks, ExecTypes, PhaseInv, Exec!Ended, Exec!ExitMirrored,
       Exec!pipes, Exec!Broken
  <2>3. ASSUME NEW t \in Exec!Streams PROVE CopierInv(t)'
    BY <1>6 DEF Exec!ChildBreaks, ExecTypes, PhaseInv, CopierInv, Exec!Ended, Whole,
       Exec!pipes, Exec!Broken
  <2>4. QED BY <2>1, <2>2, <2>3 DEF ExecInv
<1>7. ASSUME NEW s \in Exec!Streams, Exec!StragglerWrites(s) PROVE ExecInv'
  <2>1. /\ wrote' \in [Exec!Streams -> Nat] /\ wrote'[s] = wrote[s] + 1
        /\ \A t \in Exec!Streams \ {s} : wrote'[t] = wrote[t]
    <3>1. wrote[s] \in Nat
      BY DEF ExecTypes
    <3>2. wrote' = [wrote EXCEPT ![s] = wrote[s] + 1]
      BY <1>7 DEF Exec!StragglerWrites
    <3> PICK n \in Nat : n = wrote[s] + 1
      BY <3>1
    <3>3. QED BY <3>2 DEF ExecTypes
  <2>2. ExecTypes'
    BY <1>7, <2>1 DEF Exec!StragglerWrites, ExecTypes
  <2>3. PhaseInv'
    BY <1>7 DEF Exec!StragglerWrites, ExecTypes, PhaseInv, Exec!Ended, Exec!ExitMirrored
  <2>4. ASSUME NEW t \in Exec!Streams PROVE CopierInv(t)'
    <3>1. UNCHANGED <<main, child, own, taken, shown, copier, copyErr, closed, unread, quiet>>
      BY <1>7 DEF Exec!StragglerWrites
    <3>2. wrote[t] \in Nat /\ own[t] \in Nat /\ taken[t] \in Nat
      BY DEF ExecTypes
    <3>3. QED BY <2>1, <3>1, <3>2 DEF CopierInv, Exec!Ended, Whole
  <2>5. QED BY <2>2, <2>3, <2>4 DEF ExecInv
<1>8. QED BY <1>2, <1>3, <1>4, <1>5, <1>6, <1>7

\* Steps of the copiers.
LEMMA CopierNext ==
  ASSUME ExecInv, NEW s \in Exec!Streams, Exec!Copying(s) \/ Exec!PassFails(s) \/ Exec!PassKills(s)
  PROVE  ExecInv'
<1>1. ExecTypes /\ PhaseInv /\ \A t \in Exec!Streams : CopierInv(t)
  BY DEF ExecInv
<1> USE <1>1
<1>2. CASE Exec!Tap(s)
  <2>1. /\ taken' \in [Exec!Streams -> Nat] /\ taken[s] < taken'[s] /\ taken'[s] <= wrote[s]
        /\ \A t \in Exec!Streams \ {s} : taken'[t] = taken[t]
    <3>1. PICK n \in taken[s] + 1 .. wrote[s] : taken' = [taken EXCEPT ![s] = n]
      BY <1>2 DEF Exec!Tap
    <3>2. \A a, b \in Nat : \A k \in a + 1 .. b : k \in Nat /\ a < k /\ k <= b
      OBVIOUS
    <3>3. n \in Nat /\ taken[s] < n /\ n <= wrote[s]
      BY <3>1, <3>2 DEF ExecTypes
    <3>4. QED BY <3>1, <3>3 DEF ExecTypes
  <2>2. ExecTypes'
    BY <1>2, <2>1 DEF Exec!Tap, ExecTypes
  <2>3. /\ copier[s] = "reading" /\ ~closed /\ taken[s] < wrote[s]
        /\ UNCHANGED <<main, child, exit, straggler, wrote, own, shown, copyErr, closed,
                       cut, unread, quiet, result>>
    BY <1>2 DEF Exec!Tap
  <2>4. /\ copier'[s] = IF quiet THEN "reading" ELSE "writing"
        /\ \A t \in Exec!Streams \ {s} : copier'[t] = copier[t]
    BY <1>2 DEF Exec!Tap, ExecTypes
  <2>5. \A t \in Exec!Streams : /\ taken[t] \in Nat /\ wrote[t] \in Nat /\ own[t] \in Nat
                           /\ shown[t] \in Nat /\ taken'[t] \in Nat
    BY <2>1 DEF ExecTypes
  <2>6. child # "none" \/ main = "killed"
    BY <2>3, <2>5 DEF PhaseInv
  <2>7. PhaseInv'
    BY <2>3, <2>5, <2>6 DEF PhaseInv, Exec!Ended, Exec!ExitMirrored
  <2>8. ASSUME NEW t \in Exec!Streams PROVE CopierInv(t)'
    <3>1. CopierInv(t) /\ CopierInv(s)
      OBVIOUS
    <3>2. CASE t = s
      BY <2>1, <2>3, <2>4, <2>5, <2>6, <3>1, <3>2 DEF CopierInv, Exec!Ended, Whole,
         PhaseInv
    <3>3. CASE t # s
      BY <2>1, <2>3, <2>4, <2>5, <3>1, <3>3 DEF CopierInv, Exec!Ended, Whole
    <3>4. QED BY <3>2, <3>3
  <2>9. QED BY <2>2, <2>7, <2>8 DEF ExecInv
<1>3. CASE Exec!PassOn(s)
  <2>1. ExecTypes'
    BY <1>3 DEF Exec!PassOn, ExecTypes
  <2>2. PhaseInv'
    BY <1>3 DEF Exec!PassOn, ExecTypes, PhaseInv, Exec!Ended, Exec!ExitMirrored
  <2>3. ASSUME NEW t \in Exec!Streams PROVE CopierInv(t)'
    BY <1>3 DEF Exec!PassOn, ExecTypes, PhaseInv, CopierInv, Exec!Ended, Whole
  <2>4. QED BY <2>1, <2>2, <2>3 DEF ExecInv
<1>4. CASE Exec!Drained(s)
  <2>1. ExecTypes'
    BY <1>4 DEF Exec!Drained, ExecTypes
  <2>2. PhaseInv'
    BY <1>4 DEF Exec!Drained, ExecTypes, PhaseInv, Exec!Ended, Exec!ExitMirrored
  <2>3. ASSUME NEW t \in Exec!Streams PROVE CopierInv(t)'
    <3>1. /\ child # "none" /\ copier[s] = "reading"
          /\ closed \/ taken[s] = wrote[s]
          /\ copier'[s] = "ended" /\ \A u \in Exec!Streams \ {s} : copier'[u] = copier[u]
          /\ UNCHANGED <<main, child, wrote, own, taken, shown, copyErr, closed, unread, quiet>>
      BY <1>4 DEF Exec!Drained, ExecTypes
    <3>2. CopierInv(t)
      OBVIOUS
    <3>3. wrote[t] \in Nat /\ own[t] \in Nat /\ taken[t] \in Nat /\ unread[t] \in Nat
      BY DEF ExecTypes
    <3>4. QED BY <3>1, <3>2, <3>3 DEF CopierInv, Exec!Ended, Whole
  <2>4. QED BY <2>1, <2>2, <2>3 DEF ExecInv
<1>5. CASE Exec!PassFails(s)
  <2>1. ExecTypes'
    BY <1>5 DEF Exec!PassFails, ExecTypes
  <2>2. PhaseInv'
    BY <1>5 DEF Exec!PassFails, ExecTypes, PhaseInv, Exec!Ended, Exec!ExitMirrored
  <2>3. ASSUME NEW t \in Exec!Streams PROVE CopierInv(t)'
    BY <1>5 DEF Exec!PassFails, ExecTypes, PhaseInv, CopierInv, Exec!Ended, Whole
  <2>4. QED BY <2>1, <2>2, <2>3 DEF ExecInv
<1>6. CASE Exec!PassKills(s)
  <2>1. ExecTypes'
    BY <1>6 DEF Exec!PassKills, ExecTypes
  <2>2. PhaseInv'
    BY <1>6 DEF Exec!PassKills, ExecTypes, PhaseInv, Exec!Ended, Exec!ExitMirrored
  <2>3. ASSUME NEW t \in Exec!Streams PROVE CopierInv(t)'
    BY <1>6 DEF Exec!PassKills, ExecTypes, PhaseInv, CopierInv, Exec!Ended, Whole
  <2>4. QED BY <2>1, <2>2, <2>3 DEF ExecInv
<1>7. QED BY <1>2, <1>3, <1>4, <1>5, <1>6 DEF Exec!Copying

\* Steps of runExec and of the goroutine that forwards signals.
LEMMA MainNext ==
  ASSUME ExecInv,
         \/ Exec!Start \/ Exec!StartFails \/ Exec!Reap \/ Exec!CopiersDone \/ Exec!GraceEnds \/ Exec!Record
         \/ Exec!Signal \/ Exec!Forward
  PROVE  ExecInv'
<1>1. ExecTypes /\ PhaseInv /\ \A s \in Exec!Streams : CopierInv(s)
  BY DEF ExecInv
<1> USE <1>1
<1>2. CASE Exec!Start
  <2>1. ExecTypes'
    BY <1>2 DEF Exec!Start, ExecTypes, Exec!pipes
  <2>2. PhaseInv'
    BY <1>2 DEF Exec!Start, ExecTypes, PhaseInv, Exec!Ended, Exec!ExitMirrored,
       Exec!pipes
  <2>3. ASSUME NEW t \in Exec!Streams PROVE CopierInv(t)'
    BY <1>2 DEF Exec!Start, ExecTypes, PhaseInv, CopierInv, Exec!Ended, Whole,
       Exec!pipes
  <2>4. QED BY <2>1, <2>2, <2>3 DEF ExecInv
<1>3. CASE Exec!StartFails
  <2>1. ExecTypes'
    BY <1>3 DEF Exec!StartFails, ExecTypes, Exec!Streams, Exec!NotRun
  <2>2. PhaseInv'
    BY <1>3 DEF Exec!StartFails, ExecTypes, PhaseInv, Exec!Ended, Exec!ExitMirrored,
       Exec!Streams, Exec!NotRun
  <2>3. ASSUME NEW t \in Exec!Streams PROVE CopierInv(t)'
    <3>1. /\ main = "start" /\ main' = "record" /\ wrote' = taken' /\ own' = taken'
          /\ taken' = [taken EXCEPT !["err"] = 1]
          /\ shown' = IF quiet' THEN shown ELSE taken'
          /\ UNCHANGED <<child, copier, copyErr, closed, unread>>
      BY <1>3 DEF Exec!StartFails
    <3>2. /\ taken[t] = 0 /\ ~closed /\ child = "none" /\ copier[t] = "reading"
          /\ taken'[t] \in Nat /\ unread[t] \in Nat
      BY <3>1 DEF PhaseInv, ExecTypes, Exec!Streams
    <3>3. quiet' \/ shown' = taken'
      BY <3>1
    <3>4. QED BY <3>1, <3>2, <3>3 DEF CopierInv, Exec!Ended, Whole
  <2>4. QED BY <2>1, <2>2, <2>3 DEF ExecInv
<1>4. CASE Exec!Reap
  <2>1. ExecTypes'
    BY <1>4 DEF Exec!Reap, ExecTypes, Exec!pipes
  <2>2. PhaseInv'
    BY <1>4 DEF Exec!Reap, ExecTypes, PhaseInv, Exec!Ended, Exec!ExitMirrored,
       Exec!pipes
  <2>3. ASSUME NEW t \in Exec!Streams PROVE CopierInv(t)'
    BY <1>4 DEF Exec!Reap, ExecTypes, PhaseInv, CopierInv, Exec!Ended, Whole, Exec!pipes
  <2>4. QED BY <2>1, <2>2, <2>3 DEF ExecInv
<1>5. CASE Exec!CopiersDone
  <2>1. ExecTypes'
    BY <1>5 DEF Exec!CopiersDone, ExecTypes, Exec!pipes, Exec!AllEnded,
       Exec!ExitCodeOf, Exec!NotRun
  <2>2. PhaseInv'
    BY <1>5 DEF Exec!CopiersDone, ExecTypes, PhaseInv, Exec!Ended, Exec!ExitMirrored,
       Exec!pipes, Exec!AllEnded, Exec!ExitCodeOf, Exec!NotRun
  <2>3. ASSUME NEW t \in Exec!Streams PROVE CopierInv(t)'
    BY <1>5 DEF Exec!CopiersDone, ExecTypes, PhaseInv, CopierInv, Exec!Ended, Whole,
       Exec!pipes, Exec!AllEnded, Exec!ExitCodeOf, Exec!NotRun
  <2>4. QED BY <2>1, <2>2, <2>3 DEF ExecInv
<1>6. CASE Exec!GraceEnds
  <2> /\ unread' = [s \in Exec!Streams |->
                      IF copier[s] = "ended" THEN 0 ELSE wrote[s] - taken[s]]
      /\ main = "grace" /\ main' = "cut" /\ closed' = TRUE
      /\ UNCHANGED <<child, wrote, own, taken, shown, copier, copyErr, quiet>>
    BY <1>6 DEF Exec!GraceEnds, Exec!LeftInPipes
  <2>a. ASSUME NEW s \in Exec!Streams
        PROVE  /\ unread'[s] \in Nat
               /\ copier[s] # "ended" => taken[s] + unread'[s] = wrote[s]
    <3>1. /\ wrote[s] \in Nat /\ taken[s] \in Nat /\ taken[s] <= wrote[s]
          /\ unread'[s] = IF copier[s] = "ended" THEN 0 ELSE wrote[s] - taken[s]
      BY DEF ExecTypes, CopierInv
    <3>2. QED BY <3>1
  <2>b. unread' \in [Exec!Streams -> Nat]
    BY <2>a
  <2>1. ExecTypes'
    BY <1>6, <2>b DEF Exec!GraceEnds, ExecTypes
  <2>2. PhaseInv'
    BY <1>6 DEF Exec!GraceEnds, ExecTypes, PhaseInv, Exec!Ended, Exec!ExitMirrored
  <2>3. ASSUME NEW t \in Exec!Streams PROVE CopierInv(t)'
    <3>1. CopierInv(t) /\ wrote[t] \in Nat /\ own[t] \in Nat /\ taken[t] \in Nat /\ unread[t] \in Nat
      BY DEF ExecTypes
    <3>2. unread'[t] \in Nat /\ (copier[t] # "ended" => taken[t] + unread'[t] = wrote[t])
      BY <2>a
    <3>3. ~closed /\ (copier[t] = "ended" /\ ~copyErr => taken[t] >= own[t])
      BY <3>1 DEF CopierInv, Whole, PhaseInv
    <3>4. ~copyErr => taken[t] + unread'[t] >= own[t]
      BY <3>1, <3>2, <3>3 DEF CopierInv
    <3>5. QED BY <3>1, <3>4 DEF CopierInv, Exec!Ended, Whole
  <2>4. QED BY <2>1, <2>2, <2>3 DEF ExecInv
<1>7. CASE Exec!Record
  <2>1. ExecTypes'
    BY <1>7 DEF Exec!Record, ExecTypes, Exec!pipes
  <2>2. PhaseInv'
    BY <1>7 DEF Exec!Record, ExecTypes, PhaseInv, Exec!Ended, Exec!ExitMirrored,
       Exec!pipes
  <2>3. ASSUME NEW t \in Exec!Streams PROVE CopierInv(t)'
    BY <1>7 DEF Exec!Record, ExecTypes, PhaseInv, CopierInv, Exec!Ended, Whole,
       Exec!pipes
  <2>4. QED BY <2>1, <2>2, <2>3 DEF ExecInv
<1>8. CASE Exec!Signal
  <2>1. ExecTypes'
    BY <1>8 DEF Exec!Signal, ExecTypes, Exec!pipes
  <2>2. PhaseInv'
    BY <1>8 DEF Exec!Signal, ExecTypes, PhaseInv, Exec!Ended, Exec!ExitMirrored,
       Exec!pipes
  <2>3. ASSUME NEW t \in Exec!Streams PROVE CopierInv(t)'
    BY <1>8 DEF Exec!Signal, ExecTypes, PhaseInv, CopierInv, Exec!Ended, Whole,
       Exec!pipes
  <2>4. QED BY <2>1, <2>2, <2>3 DEF ExecInv
<1>9. CASE Exec!Forward
  <2>1. ExecTypes'
    BY <1>9 DEF Exec!Forward, ExecTypes, Exec!pipes
  <2>2. PhaseInv'
    BY <1>9 DEF Exec!Forward, ExecTypes, PhaseInv, Exec!Ended, Exec!ExitMirrored,
       Exec!pipes
  <2>3. ASSUME NEW t \in Exec!Streams PROVE CopierInv(t)'
    BY <1>9 DEF Exec!Forward, ExecTypes, PhaseInv, CopierInv, Exec!Ended, Whole,
       Exec!pipes
  <2>4. QED BY <2>1, <2>2, <2>3 DEF ExecInv
<1>10. QED BY <1>2, <1>3, <1>4, <1>5, <1>6, <1>7, <1>8, <1>9

\* Every step keeps the invariant.
LEMMA ExecNext == ExecInv /\ [Exec!Next]_(Exec!vars) => ExecInv'
<1>1. ASSUME ExecInv, UNCHANGED Exec!vars PROVE ExecInv'
  <2>1. ExecTypes'
    BY <1>1 DEF Exec!vars, ExecInv, ExecTypes
  <2>2. PhaseInv'
    BY <1>1 DEF Exec!vars, ExecInv, PhaseInv, Exec!Ended, Exec!ExitMirrored
  <2>3. ASSUME NEW s \in Exec!Streams PROVE CopierInv(s)'
    BY <1>1 DEF Exec!vars, ExecInv, CopierInv, Exec!Ended, Whole
  <2>4. QED BY <2>1, <2>2, <2>3 DEF ExecInv
<1>2. QED BY <1>1, ChildNext, CopierNext, MainNext DEF Exec!Next, Exec!Ours, Exec!Theirs

\* Whatever holds the pipes, whichever signals come and whenever the grace
\* period ends, all the child wrote is in the buffer when exec is done but what
\* was left in the pipes at that end, what is in the buffer is on the terminal,
\* and the exit code is the child's (exec.go, runExec and exitCodeOf).
THEOREM ExecMirrorsHolds == Exec!Spec => []ExecMirrors
<1>1. ExecInv => ExecMirrors
  BY DEF ExecInv, ExecTypes, PhaseInv, CopierInv, ExecMirrors, Exec!ExecMirrors, Exec!OutputKept,
     Exec!Ended, Whole
<1>2. QED BY <1>1, ExecInit, ExecNext, PTL DEF Exec!Spec
-----------------------------------------------------------------------------
(***************************************************************************)
(* Proof about Migrate, for any number of processes that open, die and try *)
(* again: the version tells which migrations have run, and they lose no    *)
(* text.  As in the run, a database below version AloneBelow, at least 2,  *)
(* is opened by one process at a time.                                     *)
(***************************************************************************)

\* The statements of the migrations, one by one.
LEMMA Statements ==
  /\ Len(Migrate!migrations) = 4
  /\ Len(Migrate!migrations[1]) = 5 /\ Len(Migrate!migrations[2]) = 1
  /\ Len(Migrate!migrations[3]) = 6 /\ Len(Migrate!migrations[4]) = 1
  /\ Migrate!migrations[1][1] = Migrate!Add("machine")
  /\ Migrate!migrations[1][2] = Migrate!Add("host")
  /\ Migrate!migrations[1][3] = Migrate!Add("origin_seq")
  /\ Migrate!migrations[1][4] = Migrate!Ensure("idx_origin")
  /\ Migrate!migrations[1][5] = Migrate!Ensure("import_state")
  /\ Migrate!migrations[2][1] = Migrate!Ensure("sync_state")
  /\ Migrate!migrations[3][1] = Migrate!Add("plain_z")
  /\ Migrate!migrations[3][2] = Migrate!Do("fill")
  /\ Migrate!migrations[3][3] = Migrate!Do("drop") /\ Migrate!migrations[3][4] = Migrate!Add("view")
  /\ Migrate!migrations[3][5] = Migrate!Do("create")
  /\ Migrate!migrations[3][6] = Migrate!Do("rebuild")
  /\ Migrate!migrations[4][1] = Migrate!Add("note")
BY DEF Migrate!migrations

\* How they are numbered.
LEMMA StatementsOf ==
  /\ DOMAIN Migrate!migrations[1] = {1, 2, 3, 4, 5} /\ DOMAIN Migrate!migrations[2] = {1}
  /\ DOMAIN Migrate!migrations[3] = {1, 2, 3, 4, 5, 6} /\ DOMAIN Migrate!migrations[4] = {1}
BY DEF Migrate!migrations

\* What each migration adds.
LEMMA NamesAre ==
  /\ Migrate!Names(1) = {"machine", "host", "origin_seq", "idx_origin", "import_state"}
  /\ Migrate!Names(2) = {"sync_state"}
  /\ Migrate!Names(3) = {"plain_z", "view"}
  /\ Migrate!Names(4) = {"note"}
<1>1. Migrate!Names(1) = {"machine", "host", "origin_seq", "idx_origin", "import_state"}
  BY Statements, StatementsOf DEF Migrate!Names, Migrate!Add, Migrate!Ensure
<1>2. Migrate!Names(2) = {"sync_state"}
  BY Statements, StatementsOf DEF Migrate!Names, Migrate!Ensure
<1>3. Migrate!Names(3) = {"plain_z", "view"}
  BY Statements, StatementsOf DEF Migrate!Names, Migrate!Add, Migrate!Do
<1>4. Migrate!Names(4) = {"note"}
  BY Statements, StatementsOf DEF Migrate!Names, Migrate!Add
<1>5. QED BY <1>1, <1>2, <1>3, <1>4

\* The schema of a version is that of the one before and what the migration adds.
LEMMA SchemaStep ==
  /\ Migrate!SchemaAt(0) = Migrate!Base
  /\ \A n \in 0..3 : Migrate!SchemaAt(n + 1) = Migrate!SchemaAt(n) \cup Migrate!Names(n + 1)
  /\ \A n \in 0..4 : Migrate!Base \subseteq Migrate!SchemaAt(n)
<1>1. Migrate!SchemaAt(0) = Migrate!Base
  <2>1. 1..0 = {}
    OBVIOUS
  <2>2. QED BY <2>1 DEF Migrate!SchemaAt
<1>2. ASSUME NEW n \in 0..3
      PROVE  Migrate!SchemaAt(n + 1) = Migrate!SchemaAt(n) \cup Migrate!Names(n + 1)
  <2>1. 1..n + 1 = 1..n \cup {n + 1}
    OBVIOUS
  <2>2. UNION {Migrate!Names(m) : m \in 1..n + 1}
          = (UNION {Migrate!Names(m) : m \in 1..n}) \cup Migrate!Names(n + 1)
    BY <2>1
  <2>3. QED BY <2>2 DEF Migrate!SchemaAt
<1>3. QED BY <1>1, <1>2 DEF Migrate!SchemaAt

\* A migration never meets what a later version has: its first statement fails.
LEMMA LaterHas ==
  /\ \A n \in 3..4 : "plain_z" \in Migrate!SchemaAt(n)
  /\ "note" \in Migrate!SchemaAt(4)
<1>1. /\ "plain_z" \in Migrate!SchemaAt(3)
      /\ Migrate!SchemaAt(4) = Migrate!SchemaAt(3) \cup Migrate!Names(4)
  <2>1. /\ Migrate!SchemaAt(2 + 1) = Migrate!SchemaAt(2) \cup Migrate!Names(2 + 1)
        /\ Migrate!SchemaAt(3 + 1) = Migrate!SchemaAt(3) \cup Migrate!Names(3 + 1)
    BY SchemaStep
  <2>2. QED BY <2>1, NamesAre
<1>2. QED BY <1>1, NamesAre

-----------------------------------------------------------------------------
(***************************************************************************)
(* What the transaction of migration n + 1 has done before its k-th        *)
(* statement; migration 3 moves the plain text out of the index, which it  *)
(* drops and creates anew.                                                 *)
(***************************************************************************)
Added(n, k) ==
  {Migrate!migrations[n + 1][j].of :
     j \in {j \in 1..k - 1 : Migrate!migrations[n + 1][j].op # "do"}}

HasBefore(n, k) ==
  (Migrate!SchemaAt(n) \cup Added(n, k)) \ (IF n = 2 /\ k \in 4..5 THEN {"commands_fts"} ELSE {})

PlainBefore(n, k) ==
  IF n = 2 /\ k = 3 THEN {"index", "column"}
  ELSE IF n = 2 /\ k > 3 THEN {"column"} ELSE Migrate!PlainAt(n)

Last(n) == Len(Migrate!migrations[n + 1])

\* How many statements each migration has.
LEMMA LastIs == Last(0) = 5 /\ Last(1) = 1 /\ Last(2) = 6 /\ Last(3) = 1
<1>1. 0 + 1 = 1 /\ 1 + 1 = 2 /\ 2 + 1 = 3 /\ 3 + 1 = 4
  OBVIOUS
<1>2. QED BY <1>1, Statements DEF Last

\* The transaction of a migration begins with the schema of its version, and
\* ends with that of the next one.
LEMMA BeginAndEnd ==
  ASSUME NEW n \in 0..3
  PROVE  /\ Last(n) \in Nat /\ Last(n) >= 1
         /\ HasBefore(n, 1) = Migrate!SchemaAt(n) /\ PlainBefore(n, 1) = Migrate!PlainAt(n)
         /\ HasBefore(n, Last(n) + 1) = Migrate!SchemaAt(n + 1)
         /\ PlainBefore(n, Last(n) + 1) = Migrate!PlainAt(n + 1)
<1>1. n \in {0, 1, 2, 3}
  OBVIOUS
<1>2. /\ n = 0 => Last(n) = 5
      /\ n = 1 => Last(n) = 1
      /\ n = 2 => Last(n) = 6
      /\ n = 3 => Last(n) = 1
  BY LastIs
<1>3. HasBefore(n, 1) = Migrate!SchemaAt(n) /\ PlainBefore(n, 1) = Migrate!PlainAt(n)
  <2>1. Added(n, 1) = {}
    <3>1. 1..1 - 1 = {}
      OBVIOUS
    <3>2. QED BY <3>1 DEF Added
  <2>2. QED BY <2>1 DEF HasBefore, PlainBefore
<1>4. PlainBefore(n, Last(n) + 1) = Migrate!PlainAt(n + 1)
  BY <1>1, <1>2 DEF PlainBefore, Migrate!PlainAt
<1>5. Added(n, Last(n) + 1) = Migrate!Names(n + 1)
  <2> DEFINE done == {j \in 1..(Last(n) + 1) - 1 : Migrate!migrations[n + 1][j].op # "do"}
             all == {j \in DOMAIN Migrate!migrations[n + 1] :
                       Migrate!migrations[n + 1][j].op # "do"}
  <2>1. DOMAIN Migrate!migrations[n + 1] = 1..Last(n)
    <3>1. /\ {1, 2, 3, 4, 5} = 1..5 /\ {1} = 1..1 /\ {1, 2, 3, 4, 5, 6} = 1..6
          /\ 0 + 1 = 1 /\ 1 + 1 = 2 /\ 2 + 1 = 3 /\ 3 + 1 = 4
      OBVIOUS
    <3>2. CASE n = 0
      BY <1>2, <3>1, <3>2, StatementsOf
    <3>3. CASE n = 1
      BY <1>2, <3>1, <3>3, StatementsOf
    <3>4. CASE n = 2
      BY <1>2, <3>1, <3>4, StatementsOf
    <3>5. CASE n = 3
      BY <1>2, <3>1, <3>5, StatementsOf
    <3>6. QED BY <1>1, <3>2, <3>3, <3>4, <3>5
  <2>2. 1..(Last(n) + 1) - 1 = 1..Last(n)
    BY <1>1, <1>2
  <2>3. done = all
    BY <2>1, <2>2
  <2>4. Added(n, Last(n) + 1) = {Migrate!migrations[n + 1][j].of : j \in done}
    BY DEF Added
  <2>5. Migrate!Names(n + 1) = {Migrate!migrations[n + 1][j].of : j \in all}
    BY DEF Migrate!Names
  <2> HIDE DEF done, all
  <2>6. QED BY <2>3, <2>4, <2>5
<1>6. HasBefore(n, Last(n) + 1) = Migrate!SchemaAt(n + 1)
  BY <1>1, <1>2, <1>5, SchemaStep DEF HasBefore
<1>7. QED BY <1>1, <1>2, <1>3, <1>4, <1>6

\* What has been added grows by what the statement adds.
LEMMA AddedNext ==
  ASSUME NEW n \in 0..3, NEW k \in Nat \ {0}
  PROVE  Added(n, k + 1) = Added(n, k) \cup
           (IF Migrate!migrations[n + 1][k].op = "do" THEN {}
            ELSE {Migrate!migrations[n + 1][k].of})
<1> DEFINE before == {j \in 1..k - 1 : Migrate!migrations[n + 1][j].op # "do"}
           upto == {j \in 1..(k + 1) - 1 : Migrate!migrations[n + 1][j].op # "do"}
<1>1. 1..(k + 1) - 1 = 1..k - 1 \cup {k}
  OBVIOUS
<1>2. upto = before \cup (IF Migrate!migrations[n + 1][k].op = "do" THEN {} ELSE {k})
  BY <1>1
<1>3. /\ Added(n, k) = {Migrate!migrations[n + 1][j].of : j \in before}
      /\ Added(n, k + 1) = {Migrate!migrations[n + 1][j].of : j \in upto}
  BY DEF Added
<1> HIDE DEF before, upto
<1>4. QED BY <1>2, <1>3

\* A record with the three fields of db.
Database(d) == d = [ver |-> d.ver, has |-> d.has, plain |-> d.plain]

Verbs == {"fill", "drop", "create", "rebuild"}

\* What each kind of statement does.
LEMMA Effects ==
  ASSUME Database(work), NEW s
  PROVE  /\ s.op # "do" /\ s.of \notin Verbs =>
              /\ Database(Migrate!Effect(s)) /\ Migrate!Effect(s).ver = work.ver
              /\ Migrate!Effect(s).has = work.has \cup {s.of}
              /\ Migrate!Effect(s).plain = work.plain
         /\ s = Migrate!Do("fill") /\ "index" \in work.plain =>
              /\ Database(Migrate!Effect(s)) /\ Migrate!Effect(s).ver = work.ver
              /\ Migrate!Effect(s).has = work.has
              /\ Migrate!Effect(s).plain = work.plain \cup {"column"}
         /\ s = Migrate!Do("drop") =>
              /\ Database(Migrate!Effect(s)) /\ Migrate!Effect(s).ver = work.ver
              /\ Migrate!Effect(s).has = work.has \ {"commands_fts"}
              /\ Migrate!Effect(s).plain = work.plain \ {"index"}
         /\ s = Migrate!Do("create") =>
              /\ Database(Migrate!Effect(s)) /\ Migrate!Effect(s).ver = work.ver
              /\ Migrate!Effect(s).has = work.has \cup {"commands_fts"}
              /\ Migrate!Effect(s).plain = work.plain
         /\ s = Migrate!Do("rebuild") => Migrate!Effect(s) = work
<1>1. ASSUME s.op # "do", s.of \notin Verbs
      PROVE  /\ Database(Migrate!Effect(s)) /\ Migrate!Effect(s).ver = work.ver
             /\ Migrate!Effect(s).has = work.has \cup {s.of}
             /\ Migrate!Effect(s).plain = work.plain
  <2>1. Migrate!Effect(s) = [work EXCEPT !.has = @ \cup {s.of}]
    BY <1>1 DEF Migrate!Effect, Verbs
  <2>2. QED BY <1>1, <2>1 DEF Database
<1>2. ASSUME s = Migrate!Do("fill"), "index" \in work.plain
      PROVE  /\ Database(Migrate!Effect(s)) /\ Migrate!Effect(s).ver = work.ver
             /\ Migrate!Effect(s).has = work.has
             /\ Migrate!Effect(s).plain = work.plain \cup {"column"}
  <2>1. s.op = "do" /\ s.of = "fill"
    BY <1>2 DEF Migrate!Do
  <2>2. Migrate!Effect(s) = [work EXCEPT !.plain = @ \cup {"column"}]
    BY <1>2, <2>1 DEF Migrate!Effect
  <2>3. QED BY <2>2 DEF Database
<1>3. ASSUME s = Migrate!Do("drop")
      PROVE  /\ Database(Migrate!Effect(s)) /\ Migrate!Effect(s).ver = work.ver
             /\ Migrate!Effect(s).has = work.has \ {"commands_fts"}
             /\ Migrate!Effect(s).plain = work.plain \ {"index"}
  <2>1. s.op = "do" /\ s.of = "drop"
    BY <1>3 DEF Migrate!Do
  <2>2. Migrate!Effect(s) = [work EXCEPT !.has = @ \ {"commands_fts"}, !.plain = @ \ {"index"}]
    BY <2>1 DEF Migrate!Effect
  <2>3. QED BY <2>2 DEF Database
<1>4. ASSUME s = Migrate!Do("create")
      PROVE  /\ Database(Migrate!Effect(s)) /\ Migrate!Effect(s).ver = work.ver
             /\ Migrate!Effect(s).has = work.has \cup {"commands_fts"}
             /\ Migrate!Effect(s).plain = work.plain
  <2>1. s.op = "do" /\ s.of = "create"
    BY <1>4 DEF Migrate!Do
  <2>2. Migrate!Effect(s) = [work EXCEPT !.has = @ \cup {"commands_fts"}]
    BY <2>1 DEF Migrate!Effect
  <2>3. QED BY <2>2 DEF Database
<1>5. ASSUME s = Migrate!Do("rebuild") PROVE Migrate!Effect(s) = work
  <2>1. s.op = "do" /\ s.of = "rebuild"
    BY <1>5 DEF Migrate!Do
  <2>2. QED BY <2>1 DEF Migrate!Effect
<1>6. QED BY <1>1, <1>2, <1>3, <1>4, <1>5

\* A statement that runs where it belongs does what its migration means.
LEMMA StatementDone ==
  ASSUME Database(work), NEW n \in 0..3, NEW k \in 1..Last(n),
         work.has = HasBefore(n, k), work.plain = PlainBefore(n, k)
  PROVE  LET e == Migrate!Effect(Migrate!migrations[n + 1][k])
         IN  /\ Database(e) /\ e.ver = work.ver
             /\ e.has = HasBefore(n, k + 1) /\ e.plain = PlainBefore(n, k + 1)
<1> DEFINE s == Migrate!migrations[n + 1][k]
<1>1. /\ Last(n) \in Nat /\ k \in Nat \ {0} /\ n \in {0, 1, 2, 3}
      /\ n = 0 => Last(n) = 5 /\ n + 1 = 1
      /\ n = 1 => Last(n) = 1 /\ n + 1 = 2
      /\ n = 2 => Last(n) = 6 /\ n + 1 = 3
      /\ n = 3 => Last(n) = 1 /\ n + 1 = 4
  BY BeginAndEnd, LastIs
<1>2. /\ n = 0 => k \in {1, 2, 3, 4, 5}
      /\ n \in {1, 3} => k = 1
      /\ n = 2 => k \in {1, 2, 3, 4, 5, 6}
  BY <1>1
<1>3. n # 2 => s.op # "do" /\ s.of \notin Verbs
  <2>1. CASE n = 0
    <3>1. s = Migrate!migrations[1][k] /\ k \in {1, 2, 3, 4, 5}
      BY <1>1, <1>2, <2>1
    <3> HIDE DEF s
    <3>2. \/ s = Migrate!Add("machine") \/ s = Migrate!Add("host") \/ s = Migrate!Add("origin_seq")
          \/ s = Migrate!Ensure("idx_origin") \/ s = Migrate!Ensure("import_state")
      BY <3>1, Statements
    <3>3. s.op # "do" /\ s.of \notin Verbs
      BY <3>2 DEF Migrate!Add, Migrate!Ensure, Verbs
    <3>4. QED BY <3>3
  <2>2. CASE n = 1
    <3>1. s = Migrate!migrations[2][1]
      BY <1>1, <1>2, <2>2
    <3> HIDE DEF s
    <3>2. s = Migrate!Ensure("sync_state")
      BY <3>1, Statements
    <3>3. s.op # "do" /\ s.of \notin Verbs
      BY <3>2 DEF Migrate!Ensure, Verbs
    <3>4. QED BY <3>3
  <2>3. CASE n = 3
    <3>1. s = Migrate!migrations[4][1]
      BY <1>1, <1>2, <2>3
    <3> HIDE DEF s
    <3>2. s = Migrate!Add("note")
      BY <3>1, Statements
    <3>3. s.op # "do" /\ s.of \notin Verbs
      BY <3>2 DEF Migrate!Add, Verbs
    <3>4. QED BY <3>3
  <2>4. QED BY <1>1, <2>1, <2>2, <2>3
<1>4. ASSUME n = 2
      PROVE  /\ k = 1 => s = Migrate!Add("plain_z")
             /\ k = 2 => s = Migrate!Do("fill")
             /\ k = 3 => s = Migrate!Do("drop")
             /\ k = 4 => s = Migrate!Add("view")
             /\ k = 5 => s = Migrate!Do("create")
             /\ k = 6 => s = Migrate!Do("rebuild")
  BY <1>1, <1>4, Statements
<1>5. Added(n, k + 1) = Added(n, k) \cup (IF s.op = "do" THEN {} ELSE {s.of})
  BY <1>1, AddedNext
<1>6. "commands_fts" \in Migrate!SchemaAt(2)
  BY SchemaStep DEF Migrate!Base
<1> HIDE DEF s
<1> DEFINE e == Migrate!Effect(s)
<1>7. CASE n # 2
  <2>1. Database(e) /\ e.ver = work.ver /\ e.has = work.has \cup {s.of} /\ e.plain = work.plain
    BY <1>3, <1>7, Effects
  <2>2. Added(n, k + 1) = Added(n, k) \cup {s.of}
    BY <1>3, <1>5, <1>7
  <2> HIDE DEF e
  <2>3. QED BY <1>7, <2>1, <2>2 DEF HasBefore, PlainBefore, s, e
<1>8. CASE n = 2 /\ k \in {1, 4}
  <2>1. s.op = "add" /\ s.of \in {"plain_z", "view"}
    BY <1>4, <1>8 DEF Migrate!Add
  <2>2. s.op # "do" /\ s.of \notin Verbs
    BY <2>1 DEF Verbs
  <2>3. Database(e) /\ e.ver = work.ver /\ e.has = work.has \cup {s.of} /\ e.plain = work.plain
    BY <2>2, Effects
  <2> HIDE DEF e
  <2>4. Added(n, k + 1) = Added(n, k) \cup {s.of}
    BY <1>5, <2>1
  <2>5. e.has = HasBefore(n, k + 1)
    BY <1>6, <1>8, <2>1, <2>3, <2>4 DEF HasBefore
  <2>6. e.plain = PlainBefore(n, k + 1)
    BY <1>8, <2>3 DEF PlainBefore
  <2>7. QED BY <2>3, <2>5, <2>6 DEF e, s
<1>9. CASE n = 2 /\ k \in {2, 3, 5, 6}
  <2>1. s.op = "do"
    BY <1>4, <1>9 DEF Migrate!Do
  <2>2. Added(n, k + 1) = Added(n, k)
    BY <1>5, <2>1
  <2>3. CASE k = 2
    <3>1. work.plain = {"index"} /\ s = Migrate!Do("fill")
      BY <1>4, <1>9, <2>3 DEF PlainBefore, Migrate!PlainAt
    <3>2. Database(e) /\ e.ver = work.ver /\ e.has = work.has /\ e.plain = {"index", "column"}
      BY <3>1, Effects
    <3> HIDE DEF e
    <3>3. QED BY <1>9, <2>2, <2>3, <3>2 DEF HasBefore, PlainBefore, e, s
  <2>4. CASE k = 3
    <3>1. work.plain = {"index", "column"} /\ s = Migrate!Do("drop")
      BY <1>4, <1>9, <2>4 DEF PlainBefore
    <3>2. /\ Database(e) /\ e.ver = work.ver
          /\ e.has = work.has \ {"commands_fts"} /\ e.plain = {"column"}
      BY <3>1, Effects
    <3> HIDE DEF e
    <3>3. QED BY <1>9, <2>2, <2>4, <3>2 DEF HasBefore, PlainBefore, e, s
  <2>5. CASE k = 5
    <3>1. /\ Database(e) /\ e.ver = work.ver
          /\ e.has = work.has \cup {"commands_fts"} /\ e.plain = work.plain
      BY <1>4, <1>9, <2>5, Effects
    <3> HIDE DEF e
    <3>2. QED BY <1>6, <1>9, <2>2, <2>5, <3>1 DEF HasBefore, PlainBefore, e, s
  <2>6. CASE k = 6
    <3>1. e = work
      BY <1>4, <1>9, <2>6, Effects
    <3> HIDE DEF e
    <3>2. QED BY <1>9, <2>2, <2>6, <3>1 DEF HasBefore, PlainBefore, e, s
  <2>7. QED BY <1>9, <2>3, <2>4, <2>5, <2>6
<1>10. QED BY <1>1, <1>2, <1>7, <1>8, <1>9

-----------------------------------------------------------------------------
(***************************************************************************)
(* The inductive invariant.  A process that migrates has read a version    *)
(* that is committed, but perhaps no longer the last one: below version    *)
(* AloneBelow that cannot be, for it is alone; above it its transaction    *)
(* fails at the first statement and undoes nothing of the others.  One     *)
(* that read the last version has in its transaction what the statements   *)
(* before the next one do.                                                 *)
(***************************************************************************)
States == {"idle", "opened", "begin", "tx", "vacuum", "ready", "busy", "failed", "refused"}

MigrateTypes ==
  /\ Database(db) /\ db.ver \in 0..4 /\ Database(work)
  /\ at \in [Procs -> States]
  /\ v \in [Procs -> 0..4] /\ startV \in [Procs -> 0..4] /\ i \in [Procs -> Nat]

Committed ==
  /\ db.plain = Migrate!PlainAt(db.ver)
  /\ \/ db.has = Migrate!SchemaAt(db.ver)
     \/ db.ver = 0 /\ db.has = {} /\ \A r \in Procs : at[r] = "idle"

Lock ==
  /\ holder \subseteq Procs
  /\ \A r \in holder : at[r] = "tx"
  /\ \A r \in Procs : at[r] = "tx" => holder = {r}

Behind ==
  \A r \in Migrate!Migrating :
    /\ v[r] \in 0..3 /\ v[r] <= db.ver
    /\ v[r] < AloneBelow => v[r] = db.ver /\ Migrate!Migrating = {r}

UpToDate(r) ==
  /\ v[r] = db.ver /\ i[r] \in 1..Last(v[r]) + 1
  /\ work.has = HasBefore(v[r], i[r]) /\ work.plain = PlainBefore(v[r], i[r])

TooLate(r) == v[r] < db.ver /\ i[r] = 1 /\ work = db

Transaction == \A r \in Procs : at[r] = "tx" => UpToDate(r) \/ TooLate(r)

MigrateInv == MigrateTypes /\ Committed /\ Lock /\ Behind /\ Transaction

\* The invariant says that the version tells which migrations have run.
LEMMA InvMigrateOnce == MigrateInv => Migrate!MigrateOnce
BY DEF MigrateInv, Committed, Migrate!MigrateOnce, Migrate!VersionTracks,
   Migrate!PlainKept

\* It holds of any database to be opened.
LEMMA InitMigrate ==
  ASSUME Versions \subseteq 0..4, Migrate!Init
  PROVE  MigrateInv
<1>1. PICK n \in Versions :
        /\ db = [ver |-> db.ver, has |-> db.has, plain |-> db.plain]
        /\ db.ver = n /\ db.plain = Migrate!PlainAt(n)
        /\ db.has = Migrate!SchemaAt(n) \/ (n = 0 /\ db.has = {})
  BY DEF Migrate!Init
<1>2. n \in 0..4
  OBVIOUS
<1>3. MigrateTypes
  BY <1>1, <1>2 DEF Migrate!Init, MigrateTypes, Database, States
<1>4. Committed
  BY <1>1 DEF Migrate!Init, Committed
<1>5. Lock /\ Behind /\ Transaction
  BY DEF Migrate!Init, Lock, Migrate!Nobody, Behind, Migrate!Migrating, Transaction
<1>6. QED BY <1>3, <1>4, <1>5 DEF MigrateInv

\* A transaction that comes too late fails at its first statement.
LEMMA TooLateFails ==
  ASSUME MigrateInv, AloneBelow \in Nat \ {0, 1}, NEW r \in Procs, at[r] = "tx", TooLate(r)
  PROVE  Migrate!Fails(Migrate!Statement(r)) /\ i[r] <= Len(Migrate!migrations[v[r] + 1])
<1>1. /\ v[r] \in 0..3 /\ db.ver \in 0..4 /\ v[r] < db.ver /\ ~(v[r] < AloneBelow)
      /\ i[r] = 1 /\ work = db
  BY DEF MigrateInv, MigrateTypes, Behind, Migrate!Migrating, TooLate
<1>2. (v[r] = 2 /\ db.ver \in 3..4) \/ (v[r] = 3 /\ db.ver = 4)
  BY <1>1
<1>3. work.has = Migrate!SchemaAt(db.ver)
  BY <1>1, <1>2 DEF MigrateInv, Committed
<1>4. CASE v[r] = 2 /\ db.ver \in 3..4
  <2>1. Migrate!Statement(r) = Migrate!Add("plain_z") /\ Len(Migrate!migrations[v[r] + 1]) = 6
    <3>1. v[r] + 1 = 3
      BY <1>4
    <3>2. QED BY <1>1, <3>1, Statements DEF Migrate!Statement
  <2>2. QED BY <1>1, <1>3, <1>4, <2>1, LaterHas DEF Migrate!Fails, Migrate!Add
<1>5. CASE v[r] = 3 /\ db.ver = 4
  <2>1. Migrate!Statement(r) = Migrate!Add("note") /\ Len(Migrate!migrations[v[r] + 1]) = 1
    <3>1. v[r] + 1 = 4
      BY <1>5
    <3>2. QED BY <1>1, <3>1, Statements DEF Migrate!Statement
  <2>2. QED BY <1>1, <1>3, <1>5, <2>1, LaterHas DEF Migrate!Fails, Migrate!Add
<1>6. QED BY <1>2, <1>4, <1>5

\* What Open does to a database whose schema it finds: nothing.
LEMMA OpenSame ==
  ASSUME MigrateTypes, Committed, NEW r \in Procs, Migrate!Open(r)
  PROVE  /\ Database(db') /\ db'.ver = db.ver /\ db'.plain = db.plain
         /\ db'.has = Migrate!SchemaAt(db.ver)
<1>1. db' = [db EXCEPT !.has = @ \cup Migrate!Base]
  BY DEF Migrate!Open
<1>2. /\ Database(db') /\ db'.ver = db.ver /\ db'.plain = db.plain
      /\ db'.has = db.has \cup Migrate!Base
  BY <1>1 DEF MigrateTypes, Database
<1>3. Migrate!Base \subseteq Migrate!SchemaAt(db.ver) /\ Migrate!SchemaAt(0) = Migrate!Base
  BY SchemaStep DEF MigrateTypes
<1>4. QED BY <1>2, <1>3 DEF Committed

\* Every step keeps it: the variables.
LEMMA TypesNext ==
  ASSUME MigrateInv, AloneBelow \in Nat \ {0, 1}, [Migrate!Next]_(Migrate!vars)
  PROVE  MigrateTypes'
<1> USE DEF MigrateInv, States
<1>1. ASSUME NEW r \in Procs, Migrate!Open(r) PROVE MigrateTypes'
  BY <1>1, OpenSame DEF Migrate!Open, MigrateTypes
<1>2. ASSUME NEW r \in Procs, Migrate!ReadVersion(r) PROVE MigrateTypes'
  BY <1>2 DEF Migrate!ReadVersion, MigrateTypes, Migrate!After
<1>3. ASSUME NEW r \in Procs, Migrate!Begin(r) PROVE MigrateTypes'
  BY <1>3 DEF Migrate!Begin, MigrateTypes
<1>4. ASSUME NEW r \in Procs, Migrate!Exec(r) PROVE MigrateTypes'
  <2>1. UpToDate(r) /\ v[r] \in 0..3
    BY <1>4, TooLateFails DEF Migrate!Exec, Transaction, Behind, Migrate!Migrating
  <2>2. i[r] \in 1..Last(v[r])
    BY <1>4, <2>1, BeginAndEnd DEF UpToDate, Migrate!Exec, Last
  <2>3. Database(Migrate!Effect(Migrate!Statement(r)))
    BY <2>1, <2>2, StatementDone DEF UpToDate, MigrateTypes, Migrate!Statement
  <2>4. QED BY <1>4, <2>3 DEF Migrate!Exec, MigrateTypes
<1>5. ASSUME NEW r \in Procs, Migrate!Rollback(r) PROVE MigrateTypes'
  BY <1>5 DEF Migrate!Rollback, MigrateTypes
<1>6. ASSUME NEW r \in Procs, Migrate!Commit(r) PROVE MigrateTypes'
  <2>1. v[r] \in 0..3
    BY <1>6 DEF Migrate!Commit, Behind, Migrate!Migrating
  <2>2. v[r] + 1 \in 0..4
    BY <2>1
  <2>3. Database(db') /\ db'.ver = v[r] + 1 /\ work' = db'
    BY <1>6 DEF Migrate!Commit, MigrateTypes, Database
  <2>4. v' \in [Procs -> 0..4] /\ at' \in [Procs -> States]
    BY <1>6, <2>2 DEF Migrate!Commit, MigrateTypes, Migrate!After
  <2>5. QED BY <1>6, <2>2, <2>3, <2>4 DEF Migrate!Commit, MigrateTypes
<1>7. ASSUME NEW r \in Procs, Migrate!Busy(r) \/ Migrate!Vacuum(r) PROVE MigrateTypes'
  BY <1>7 DEF Migrate!Busy, Migrate!Vacuum, MigrateTypes
<1>8. ASSUME NEW r \in Procs, Migrate!Ends(r) PROVE MigrateTypes'
  BY <1>8 DEF Migrate!Ends, MigrateTypes
<1>9. CASE UNCHANGED Migrate!vars
  BY <1>9 DEF Migrate!vars, MigrateTypes
<1>10. QED BY <1>1, <1>2, <1>3, <1>4, <1>5, <1>6, <1>7, <1>8, <1>9 DEF Migrate!Next,
Migrate!Step

\* What a transaction that may commit has done is all of its migration.
LEMMA CommitIs ==
  ASSUME MigrateInv, AloneBelow \in Nat \ {0, 1}, NEW r \in Procs, Migrate!Commit(r)
  PROVE  /\ v[r] \in 0..3 /\ v[r] = db.ver
         /\ Database(db') /\ db'.ver = v[r] + 1
         /\ db'.has = Migrate!SchemaAt(v[r] + 1) /\ db'.plain = Migrate!PlainAt(v[r] + 1)
<1>1. v[r] \in 0..3 /\ i[r] \in Nat
  BY DEF MigrateInv, MigrateTypes, Migrate!Commit, Behind, Migrate!Migrating
<1>2. Last(v[r]) \in Nat /\ Last(v[r]) < i[r]
  BY <1>1, BeginAndEnd DEF Migrate!Commit, Last
<1>3. UpToDate(r)
  <2>1. ~TooLate(r)
    BY <1>1, <1>2, TooLateFails DEF Migrate!Commit, Last
  <2>2. QED BY <2>1 DEF Migrate!Commit, MigrateInv, Transaction
<1>4. i[r] = Last(v[r]) + 1
  BY <1>1, <1>2, <1>3 DEF UpToDate
<1>5. work.has = Migrate!SchemaAt(v[r] + 1) /\ work.plain = Migrate!PlainAt(v[r] + 1)
  BY <1>1, <1>3, <1>4, BeginAndEnd DEF UpToDate
<1>6. db' = [work EXCEPT !.ver = v[r] + 1] /\ Database(work)
  BY DEF Migrate!Commit, MigrateInv, MigrateTypes
<1>7. Database(db') /\ db'.ver = v[r] + 1 /\ db'.has = work.has /\ db'.plain = work.plain
  BY <1>6 DEF Database
<1>8. QED BY <1>1, <1>3, <1>5, <1>7 DEF UpToDate

\* What is committed, who holds the lock.
LEMMA CommittedNext ==
  ASSUME MigrateInv, AloneBelow \in Nat \ {0, 1}, [Migrate!Next]_(Migrate!vars)
  PROVE  Committed' /\ Lock'
<1> USE DEF MigrateInv
<1>1. ASSUME NEW r \in Procs, Migrate!Open(r) PROVE Committed' /\ Lock'
  BY <1>1, OpenSame DEF Migrate!Open, Committed, Lock, MigrateTypes, Migrate!Nobody
<1>2. ASSUME NEW r \in Procs, at[r] # "idle", db' = db, at' \in [Procs -> States],
             \A q \in Procs \ {r} : at'[q] = at[q]
      PROVE  Committed'
  BY <1>2 DEF Committed, MigrateTypes
<1>3. ASSUME NEW r \in Procs, Migrate!ReadVersion(r) \/ Migrate!Busy(r) \/ Migrate!Vacuum(r)
      PROVE  Committed' /\ Lock'
  <2>1. at[r] \notin {"idle", "tx"} /\ at'[r] # "tx" /\ db' = db /\ holder' = holder
        /\ \A q \in Procs \ {r} : at'[q] = at[q]
    BY <1>3 DEF Migrate!ReadVersion, Migrate!Busy, Migrate!Vacuum, Migrate!After,
       MigrateTypes
  <2>2. QED BY <1>2, <1>3, <2>1, TypesNext DEF Migrate!Next, Migrate!Step, Lock,
  MigrateTypes
<1>4. ASSUME NEW r \in Procs, Migrate!Begin(r) PROVE Committed' /\ Lock'
  BY <1>4 DEF Migrate!Begin, Committed, Lock, Migrate!Nobody, MigrateTypes
<1>5. ASSUME NEW r \in Procs, Migrate!Exec(r) PROVE Committed' /\ Lock'
  BY <1>5 DEF Migrate!Exec, Committed, Lock
<1>6. ASSUME NEW r \in Procs, Migrate!Rollback(r) PROVE Committed' /\ Lock'
  BY <1>6 DEF Migrate!Rollback, Committed, Lock, Migrate!Nobody, MigrateTypes
<1>7. ASSUME NEW r \in Procs, Migrate!Commit(r) PROVE Committed' /\ Lock'
  <2>1. Committed'
    BY <1>7, CommitIs DEF Committed
  <2>2. Lock'
    BY <1>7 DEF Migrate!Commit, Lock, Migrate!Nobody, MigrateTypes, Migrate!After
  <2>3. QED BY <2>1, <2>2
<1>8. ASSUME NEW r \in Procs, Migrate!Ends(r) PROVE Committed' /\ Lock'
  BY <1>8 DEF Migrate!Ends, Committed, Lock, Migrate!Nobody, MigrateTypes
<1>9. CASE UNCHANGED Migrate!vars
  BY <1>9 DEF Migrate!vars, Committed, Lock
<1>10. QED BY <1>1, <1>3, <1>4, <1>5, <1>6, <1>7, <1>8, <1>9 DEF Migrate!Next,
Migrate!Step

\* A process that joins the ones that migrate, or commits and goes on, is
\* alone where it has to be.
LEMMA BehindNext ==
  ASSUME MigrateInv, AloneBelow \in Nat \ {0, 1}, [Migrate!Next]_(Migrate!vars)
  PROVE  Behind'
<1> USE DEF MigrateInv
<1>1. ASSUME Migrate!Migrating' \subseteq Migrate!Migrating, v' = v, db'.ver = db.ver PROVE Behind'
  BY <1>1 DEF Behind
<1>2. ASSUME NEW r \in Procs, Migrate!Open(r) PROVE Behind'
  <2>1. Migrate!Migrating' \subseteq Migrate!Migrating /\ v' = v
    BY <1>2 DEF Migrate!Open, Migrate!Migrating, MigrateTypes
  <2>2. db'.ver = db.ver
    BY <1>2, OpenSame
  <2>3. QED BY <1>1, <2>1, <2>2
<1>3. ASSUME NEW r \in Procs, Migrate!ReadVersion(r) PROVE Behind'
  <2>1. /\ db' = db /\ db.ver \in 0..4
        /\ at' = [at EXCEPT ![r] = Migrate!After(r, db.ver, db.ver)]
        /\ v' = [v EXCEPT ![r] = db.ver]
        /\ db.ver < AloneBelow => Migrate!Migrating = {}
        /\ \A q \in Migrate!Migrating : v[q] >= AloneBelow
    BY <1>3 DEF Migrate!ReadVersion, MigrateTypes
  <2>2. r \notin Migrate!Migrating
    BY <1>3 DEF Migrate!ReadVersion, Migrate!Migrating
  <2>3. /\ Migrate!Migrating' \subseteq Migrate!Migrating \cup {r}
        /\ r \in Migrate!Migrating' => db.ver \in 0..3
    <3>1. Migrate!After(r, db.ver, db.ver) = "begin" => db.ver < 4
      BY <2>1, Statements DEF Migrate!After
    <3>2. Migrate!After(r, db.ver, db.ver) # "tx"
      BY DEF Migrate!After
    <3>3. \A q \in Procs \ {r} : at'[q] = at[q]
      BY <2>1 DEF MigrateTypes
    <3>4. at'[r] = Migrate!After(r, db.ver, db.ver)
      BY <2>1 DEF MigrateTypes
    <3>5. QED BY <2>1, <3>1, <3>2, <3>3, <3>4 DEF Migrate!Migrating
  <2>4. v'[r] = db.ver /\ \A q \in Migrate!Migrating : v'[q] = v[q]
    BY <2>1, <2>2 DEF MigrateTypes, Migrate!Migrating
  <2>5. \A q \in Migrate!Migrating : v[q] \in 0..3 /\ v[q] <= db.ver /\ ~(v[q] < AloneBelow)
    BY <2>1 DEF Behind, MigrateTypes
  <2>6. ASSUME NEW q \in Migrate!Migrating'
        PROVE  /\ v'[q] \in 0..3 /\ v'[q] <= db'.ver
               /\ v'[q] < AloneBelow => v'[q] = db'.ver /\ Migrate!Migrating' = {q}
    <3>1. CASE q = r
      BY <2>1, <2>3, <2>4, <2>6, <3>1
    <3>2. CASE q # r
      BY <2>1, <2>3, <2>4, <2>5, <2>6, <3>2
    <3>3. QED BY <3>1, <3>2
  <2>7. QED BY <2>6 DEF Behind
<1>4. ASSUME NEW r \in Procs, Migrate!Begin(r) \/ Migrate!Busy(r) \/ Migrate!Exec(r)
               \/ Migrate!Rollback(r) \/ Migrate!Vacuum(r) \/ Migrate!Ends(r)
      PROVE  Behind'
  <2>1. v' = v /\ db' = db
    BY <1>4 DEF Migrate!Begin, Migrate!Busy, Migrate!Exec, Migrate!Rollback,
       Migrate!Vacuum, Migrate!Ends
  <2>2. Migrate!Migrating' \subseteq Migrate!Migrating
    BY <1>4 DEF Migrate!Begin, Migrate!Busy, Migrate!Exec, Migrate!Rollback,
       Migrate!Vacuum, Migrate!Ends, Migrate!Migrating, MigrateTypes
  <2>3. QED BY <1>1, <2>1, <2>2
<1>5. ASSUME NEW r \in Procs, Migrate!Commit(r) PROVE Behind'
  <2>1. v[r] \in 0..3 /\ v[r] = db.ver /\ db'.ver = v[r] + 1
    BY <1>5, CommitIs
  <2>2. /\ v' = [v EXCEPT ![r] = v[r] + 1]
        /\ at' = [at EXCEPT ![r] = Migrate!After(r, v'[r], startV[r])]
        /\ r \in Migrate!Migrating
    BY <1>5 DEF Migrate!Commit, Migrate!Migrating
  <2>3. v'[r] = v[r] + 1 /\ \A q \in Procs \ {r} : v'[q] = v[q] /\ at'[q] = at[q]
    BY <2>2 DEF MigrateTypes
  <2>4. Migrate!Migrating' \subseteq Migrate!Migrating
    BY <2>2, <2>3 DEF Migrate!Migrating
  <2>5. r \in Migrate!Migrating' => v'[r] < 4
    <3>1. at'[r] = Migrate!After(r, v'[r], startV[r])
      BY <2>2 DEF MigrateTypes
    <3>2. r \in Migrate!Migrating' => at'[r] \in {"begin", "tx"}
      BY DEF Migrate!Migrating
    <3>3. QED BY <3>1, <3>2, Statements DEF Migrate!After
  <2>6. ASSUME NEW q \in Migrate!Migrating'
        PROVE  /\ v'[q] \in 0..3 /\ v'[q] <= db'.ver
               /\ v'[q] < AloneBelow => v'[q] = db'.ver /\ Migrate!Migrating' = {q}
    <3>1. CASE q = r
      <4>1. v'[q] \in 0..3 /\ v'[q] = db'.ver
        BY <2>1, <2>3, <2>5, <2>6, <3>1
      <4>2. v'[q] < AloneBelow => v[r] < AloneBelow
        BY <2>1, <2>3, <3>1
      <4>3. v[r] < AloneBelow => Migrate!Migrating = {r}
        BY <2>2 DEF Behind
      <4>4. QED BY <2>4, <2>6, <3>1, <4>1, <4>2, <4>3
    <3>2. CASE q # r
      <4>1. q \in Migrate!Migrating /\ v'[q] = v[q] /\ v[q] \in 0..3 /\ v[q] <= db.ver
        BY <2>3, <2>4, <2>6, <3>2 DEF Behind, Migrate!Migrating
      <4>2. ~(v[q] < AloneBelow)
        BY <2>2, <3>2, <4>1 DEF Behind
      <4>3. QED BY <2>1, <4>1, <4>2
    <3>3. QED BY <3>1, <3>2
  <2>7. QED BY <2>6 DEF Behind
<1>6. CASE UNCHANGED Migrate!vars
  BY <1>1, <1>6 DEF Migrate!vars, Migrate!Migrating
<1>7. QED BY <1>2, <1>3, <1>4, <1>5, <1>6 DEF Migrate!Next, Migrate!Step

\* The transaction that goes on.
LEMMA TransactionNext ==
  ASSUME MigrateInv, AloneBelow \in Nat \ {0, 1}, [Migrate!Next]_(Migrate!vars)
  PROVE  Transaction'
<1> USE DEF MigrateInv
<1>1. ASSUME \A r \in Procs : at'[r] = "tx" =>
               at[r] = "tx" /\ i'[r] = i[r] /\ v'[r] = v[r],
             (\E r \in Procs : at'[r] = "tx") => db' = db /\ work' = work
      PROVE  Transaction'
  BY <1>1 DEF Transaction, UpToDate, TooLate
<1>2. ASSUME NEW r \in Procs, Migrate!Open(r) \/ Migrate!ReadVersion(r) \/ Migrate!Busy(r) \/ Migrate!Vacuum(r)
      PROVE  Transaction'
  <2>1. \A q \in Procs : at'[q] = "tx" => at[q] = "tx" /\ i'[q] = i[q] /\ v'[q] = v[q]
    BY <1>2 DEF Migrate!Open, Migrate!ReadVersion, Migrate!Busy, Migrate!Vacuum,
       Migrate!After, MigrateTypes
  <2>2. (\E q \in Procs : at'[q] = "tx") => db' = db /\ work' = work
    BY <1>2, <2>1 DEF Migrate!Open, Migrate!ReadVersion, Migrate!Busy, Migrate!Vacuum,
       Lock, Migrate!Nobody
  <2>3. QED BY <1>1, <2>1, <2>2
<1>3. ASSUME NEW r \in Procs, Migrate!Begin(r) PROVE Transaction'
  <2>1. /\ at' = [at EXCEPT ![r] = "tx"] /\ i' = [i EXCEPT ![r] = 1] /\ v' = v
        /\ work' = db /\ db' = db /\ holder = {} /\ at[r] = "begin"
    BY <1>3 DEF Migrate!Begin, Migrate!Nobody
  <2>2. v[r] \in 0..3 /\ v[r] <= db.ver /\ db.ver \in 0..4
    BY <2>1 DEF Behind, Migrate!Migrating, MigrateTypes
  <2>3. db.has = Migrate!SchemaAt(db.ver) /\ db.plain = Migrate!PlainAt(db.ver)
    BY <2>1 DEF Committed
  <2>4. i'[r] = 1 /\ v'[r] = v[r] /\ \A q \in Procs \ {r} : at'[q] # "tx"
    BY <2>1 DEF MigrateTypes, Lock
  <2>5. CASE v[r] = db.ver
    <3>1. 1 \in 1..Last(v[r]) + 1 /\ db.has = HasBefore(v[r], 1) /\ db.plain = PlainBefore(v[r], 1)
      BY <2>2, <2>3, <2>5, BeginAndEnd
    <3>2. UpToDate(r)'
      BY <2>1, <2>4, <2>5, <3>1 DEF UpToDate
    <3>3. QED BY <2>4, <3>2 DEF Transaction
  <2>6. CASE v[r] < db.ver
    BY <2>1, <2>4, <2>6 DEF Transaction, TooLate
  <2>7. QED BY <2>2, <2>5, <2>6
<1>4. ASSUME NEW r \in Procs, Migrate!Exec(r) PROVE Transaction'
  <2>1. UpToDate(r) /\ v[r] \in 0..3
    BY <1>4, TooLateFails DEF Migrate!Exec, Transaction, Behind, Migrate!Migrating
  <2>2. i[r] \in 1..Last(v[r])
    BY <1>4, <2>1, BeginAndEnd DEF UpToDate, Migrate!Exec, Last
  <2>3. /\ Migrate!Effect(Migrate!Statement(r)).has = HasBefore(v[r], i[r] + 1)
        /\ Migrate!Effect(Migrate!Statement(r)).plain = PlainBefore(v[r], i[r] + 1)
    BY <2>1, <2>2, StatementDone DEF UpToDate, MigrateTypes, Migrate!Statement
  <2>4. i[r] + 1 \in 1..Last(v[r]) + 1
    BY <2>1, <2>2, BeginAndEnd
  <2>5. i'[r] = i[r] + 1 /\ v'[r] = v[r] /\ db' = db /\ work' = Migrate!Effect(Migrate!Statement(r))
    BY <1>4 DEF Migrate!Exec, MigrateTypes
  <2>6. UpToDate(r)'
    BY <2>1, <2>3, <2>4, <2>5 DEF UpToDate
  <2>7. \A q \in Procs \ {r} : at'[q] # "tx"
    BY <1>4 DEF Migrate!Exec, Lock
  <2>8. QED BY <2>6, <2>7 DEF Transaction
<1>5. ASSUME NEW r \in Procs, Migrate!Rollback(r) \/ Migrate!Commit(r) PROVE Transaction'
  <2>1. \A q \in Procs : at'[q] # "tx"
    BY <1>5 DEF Migrate!Rollback, Migrate!Commit, Migrate!After, Lock, MigrateTypes
  <2>2. QED BY <2>1 DEF Transaction
<1>6. ASSUME NEW r \in Procs, Migrate!Ends(r) PROVE Transaction'
  <2>1. \A q \in Procs : at'[q] = "tx" => at[q] = "tx" /\ q # r /\ i'[q] = i[q] /\ v'[q] = v[q]
    BY <1>6 DEF Migrate!Ends, MigrateTypes
  <2>2. (\E q \in Procs : at'[q] = "tx") => db' = db /\ work' = work
    BY <1>6, <2>1 DEF Migrate!Ends, Lock
  <2>3. QED BY <1>1, <2>1, <2>2
<1>7. CASE UNCHANGED Migrate!vars
  BY <1>1, <1>7 DEF Migrate!vars
<1>8. QED BY <1>2, <1>3, <1>4, <1>5, <1>6, <1>7 DEF Migrate!Next, Migrate!Step

\* For any number of processes that open the database, any of which may end
\* anywhere, with those that find it below version AloneBelow opening it one
\* at a time: its version tells which migrations have run, so that it can be
\* opened again, and the plain text of no command is lost (store.go, migrate).
THEOREM MigrateOnceHolds ==
  AloneBelow \in Nat \ {0, 1} /\ Versions \subseteq 0..4 => (Migrate!Spec => []MigrateOnce)
<1> SUFFICES ASSUME AloneBelow \in Nat \ {0, 1}, Versions \subseteq 0..4
             PROVE  Migrate!Spec => []MigrateOnce
  OBVIOUS
<1>1. MigrateInv /\ [Migrate!Next]_(Migrate!vars) => MigrateInv'
  BY TypesNext, CommittedNext, BehindNext, TransactionNext DEF MigrateInv
<1>2. QED BY <1>1, InitMigrate, InvMigrateOnce, PTL DEF Migrate!Spec, MigrateOnce

-----------------------------------------------------------------------------
(***************************************************************************)
(* Proofs about Feed, for any limits and chunks of any length: it makes no *)
(* difference where the stream is cut into chunks.                         *)
(***************************************************************************)

Bytes == Feed!Bytes
EchoByte == Bytes \cup {"<prompt>", "<input>"}

Echoes == {e \in Seq(EchoByte) : Len(e) <= EchoCap}

ParserState ==
  [st : {"norm", "esc", "osc", "oscEsc", "csi"}, osc : Seq(Bytes), csi : Seq(Bytes),
   capturing : BOOLEAN, alt : BOOLEAN, phase : {"none", "prompt", "input"}, input : BOOLEAN,
   over : BOOLEAN, echo : Echoes]

Event == [kind : {"echo", "start", "end", "output"}, bytes : Seq(EchoByte)]

\* The parser in the midst of a chunk; text is scanned in one state only.
Midst == {s \in [p : ParserState, ev : Seq(Event), out : Seq(Bytes), text : Seq(Bytes)] :
            s.p.st # "norm" => s.text = <<>>}

\* It has no text that is scanned and not passed on.
Settled == {s \in Midst : s.text = <<>>}

-----------------------------------------------------------------------------
(***************************************************************************)
(* The operators keep the types.                                           *)
(***************************************************************************)

LEMMA ByteTypes ==
  /\ Feed!ESC \in Bytes /\ Feed!BEL \in Bytes /\ "[" \in Bytes /\ "]" \in Bytes /\ "\\" \in Bytes
  /\ Feed!ESC # Feed!BEL /\ Bytes \subseteq EchoByte
  /\ \A e \in Seq(Bytes) : e \in Seq(EchoByte)
<1>1. Bytes \subseteq EchoByte
  BY DEF EchoByte
<1>2. \A S, D : S \subseteq D => \A e \in Seq(S) : e \in Seq(D)
  OBVIOUS
<1>3. QED BY <1>1, <1>2 DEF Bytes, Feed!Bytes, Feed!ESC, Feed!BEL

LEMMA EchoTypes ==
  /\ <<>> \in Echoes /\ EchoCap \in Nat
  /\ \A e \in Echoes : e \in Seq(EchoByte) /\ Len(e) \in Nat /\ Len(e) <= EchoCap /\ e \o <<>> = e
  /\ \A x, y \in Seq(EchoByte) : /\ x \o y \in Seq(EchoByte) /\ Len(x) \in Nat
                                  /\ Len(x \o y) = Len(x) + Len(y)
  /\ \A x, y, z \in Seq(EchoByte) : (x \o y) \o z = x \o (y \o z)
<1>1. EchoCap \in Nat
  BY ParserAssumption
<1>2. <<>> \in Seq(EchoByte) /\ Len(<<>>) = 0
  OBVIOUS
<1>3. \A e \in Seq(EchoByte) : e \o <<>> = e /\ Len(e) \in Nat
  OBVIOUS
<1>4. \A x, y \in Seq(EchoByte) : /\ x \o y \in Seq(EchoByte) /\ Len(x) \in Nat
                                  /\ Len(x \o y) = Len(x) + Len(y)
  OBVIOUS
<1>5. \A x, y, z \in Seq(EchoByte) : (x \o y) \o z = x \o (y \o z)
  OBVIOUS
<1>6. QED BY <1>1, <1>2, <1>3, <1>4, <1>5 DEF Echoes

LEMMA ParserIs ==
  ASSUME NEW q \in ParserState
  PROVE  /\ q = [st |-> q.st, osc |-> q.osc, csi |-> q.csi, capturing |-> q.capturing,
                 alt |-> q.alt, phase |-> q.phase, input |-> q.input, over |-> q.over,
                 echo |-> q.echo]
         /\ q.capturing \in BOOLEAN /\ q.alt \in BOOLEAN /\ q.input \in BOOLEAN
         /\ q.over \in BOOLEAN /\ q.echo \in Echoes
         /\ q.st \in {"norm", "esc", "osc", "oscEsc", "csi"}
         /\ q.osc \in Seq(Bytes) /\ q.csi \in Seq(Bytes)
         /\ q.phase \in {"none", "prompt", "input"}
BY DEF ParserState

\* The fields besides the echo, the buffers and the state.
SameRest(q, r) ==
  q.capturing = r.capturing /\ q.alt = r.alt /\ q.phase = r.phase /\ q.input = r.input

LEMMA SameParser ==
  ASSUME NEW q \in ParserState, NEW r \in ParserState, SameRest(q, r),
         q.st = r.st, q.osc = r.osc, q.csi = r.csi, q.over = r.over, q.echo = r.echo
  PROVE  q = r
BY ParserIs DEF SameRest

\* What adding to the echo makes of it: whether it is full, and its bytes.
FullOf(full, e, x) == full = TRUE \/ Len(e) + Len(x) > EchoCap
EchoOf(full, e, x) ==
  IF full = TRUE THEN e ELSE IF Len(e) + Len(x) > EchoCap THEN <<>> ELSE e \o x

LEMMA EchoAddIs ==
  ASSUME NEW q \in ParserState, NEW x \in Seq(EchoByte)
  PROVE  /\ Feed!EchoAdd(q, x) \in ParserState
         /\ Feed!EchoAdd(q, x).over = FullOf(q.over, q.echo, x)
         /\ Feed!EchoAdd(q, x).echo = EchoOf(q.over, q.echo, x)
         /\ SameRest(Feed!EchoAdd(q, x), q)
         /\ Feed!EchoAdd(q, x).st = q.st /\ Feed!EchoAdd(q, x).osc = q.osc
         /\ Feed!EchoAdd(q, x).csi = q.csi
<1> DEFINE r == [q EXCEPT !.over = TRUE, !.echo = <<>>]
           t == [q EXCEPT !.echo = q.echo \o x]
<1>1. q.echo \in Echoes /\ q.echo \in Seq(EchoByte) /\ Len(q.echo) \in Nat /\ Len(x) \in Nat /\ EchoCap \in Nat
      /\ <<>> \in Echoes
  BY EchoTypes, ParserIs
<1>2. /\ r \in ParserState /\ r.over = TRUE /\ r.echo = <<>> /\ SameRest(r, q)
      /\ r.st = q.st /\ r.osc = q.osc /\ r.csi = q.csi
  BY <1>1 DEF ParserState, SameRest
<1>3. ASSUME Len(q.echo) + Len(x) <= EchoCap PROVE q.echo \o x \in Echoes
  BY <1>1, <1>3, EchoTypes DEF Echoes
<1>4. ASSUME q.echo \o x \in Echoes
      PROVE  /\ t \in ParserState /\ t.over = q.over /\ t.echo = q.echo \o x /\ SameRest(t, q)
             /\ t.st = q.st /\ t.osc = q.osc /\ t.csi = q.csi
  BY <1>4 DEF ParserState, SameRest
<1>5. CASE q.over = TRUE
  <2>1. Feed!EchoAdd(q, x) = q
    BY <1>5 DEF Feed!EchoAdd
  <2>2. FullOf(q.over, q.echo, x) = TRUE /\ EchoOf(q.over, q.echo, x) = q.echo
    BY <1>5 DEF FullOf, EchoOf
  <2>3. QED BY <1>5, <2>1, <2>2 DEF SameRest
<1>6. CASE q.over = FALSE /\ Len(q.echo) + Len(x) > EchoCap
  <2>1. Feed!EchoAdd(q, x) = r
    BY <1>6 DEF Feed!EchoAdd
  <2>2. FullOf(q.over, q.echo, x) = TRUE /\ EchoOf(q.over, q.echo, x) = <<>>
    BY <1>6 DEF FullOf, EchoOf
  <2> HIDE DEF r
  <2>3. QED BY <1>2, <2>1, <2>2
<1>7. CASE q.over = FALSE /\ ~(Len(q.echo) + Len(x) > EchoCap)
  <2>1. Feed!EchoAdd(q, x) = t
    BY <1>7 DEF Feed!EchoAdd
  <2>2. FullOf(q.over, q.echo, x) = FALSE /\ EchoOf(q.over, q.echo, x) = q.echo \o x
    BY <1>7 DEF FullOf, EchoOf
  <2>3. q.echo \o x \in Echoes
    BY <1>1, <1>3, <1>7
  <2> HIDE DEF t
  <2>4. QED BY <1>4, <1>7, <2>1, <2>2, <2>3
<1>8. q.over = TRUE \/ q.over = FALSE
  BY ParserIs
<1>9. QED BY <1>5, <1>6, <1>7, <1>8

LEMMA MoreBytes ==
  ASSUME NEW e \in Seq(EchoByte), NEW x \in Seq(EchoByte), NEW y \in Seq(EchoByte)
  PROVE  /\ Len(e) + Len(x) > EchoCap => Len(e) + Len(x \o y) > EchoCap
         /\ (Len(e \o x) + Len(y) > EchoCap) <=> (Len(e) + Len(x \o y) > EchoCap)
         /\ (e \o x) \o y = e \o (x \o y) /\ x \o y \in Seq(EchoByte)
<1>1. Len(e) \in Nat /\ Len(x) \in Nat /\ Len(y) \in Nat /\ EchoCap \in Nat
  BY EchoTypes
<1>2. Len(x \o y) = Len(x) + Len(y) /\ Len(e \o x) = Len(e) + Len(x)
  BY EchoTypes
<1>3. (e \o x) \o y = e \o (x \o y) /\ x \o y \in Seq(EchoByte)
  BY EchoTypes
<1>4. QED BY <1>1, <1>2, <1>3

\* Adding in two pieces is adding at once, and adding nothing leaves all as it is.
LEMMA EchoAddPieces ==
  ASSUME NEW q \in ParserState, NEW x \in Seq(EchoByte), NEW y \in Seq(EchoByte)
  PROVE  /\ Feed!EchoAdd(Feed!EchoAdd(q, x), y) = Feed!EchoAdd(q, x \o y)
         /\ Feed!EchoAdd(q, <<>>) = q
<1> DEFINE r == Feed!EchoAdd(q, x)
           t == Feed!EchoAdd(r, y)
           u == Feed!EchoAdd(q, x \o y)
           n == Feed!EchoAdd(q, <<>>)
<1>1. /\ q.over = TRUE \/ q.over = FALSE
      /\ q.echo \in Seq(EchoByte) /\ x \o y \in Seq(EchoByte)
      /\ (q.echo \o x) \o y = q.echo \o (x \o y)
      /\ <<>> \in Seq(EchoByte) /\ q.echo \o <<>> = q.echo /\ ~(Len(q.echo) + Len(<<>>) > EchoCap)
  <2>1. (q.over = TRUE \/ q.over = FALSE) /\ q.echo \in Echoes
    BY ParserIs
  <2>2. /\ q.echo \in Seq(EchoByte) /\ Len(q.echo) \in Nat /\ Len(q.echo) <= EchoCap
        /\ q.echo \o <<>> = q.echo
    BY <2>1, EchoTypes
  <2>3. <<>> \in Seq(EchoByte) /\ Len(<<>>) = 0 /\ EchoCap \in Nat
    BY EchoTypes DEF Echoes
  <2>4. ~(Len(q.echo) + Len(<<>>) > EchoCap)
    BY <2>2, <2>3
  <2>5. (q.echo \o x) \o y = q.echo \o (x \o y) /\ x \o y \in Seq(EchoByte)
    BY <2>2, MoreBytes
  <2>6. QED BY <2>1, <2>2, <2>3, <2>4, <2>5, Zenon
<1>2. /\ r \in ParserState /\ SameRest(r, q) /\ r.st = q.st /\ r.osc = q.osc /\ r.csi = q.csi
      /\ r.over = FullOf(q.over, q.echo, x) /\ r.echo = EchoOf(q.over, q.echo, x)
  BY EchoAddIs
<1>3. /\ u \in ParserState /\ SameRest(u, q) /\ u.st = q.st /\ u.osc = q.osc /\ u.csi = q.csi
      /\ u.over = FullOf(q.over, q.echo, x \o y) /\ u.echo = EchoOf(q.over, q.echo, x \o y)
  BY <1>1, EchoAddIs
<1>4. /\ n \in ParserState /\ SameRest(n, q) /\ n.st = q.st /\ n.osc = q.osc /\ n.csi = q.csi
      /\ n.over = FullOf(q.over, q.echo, <<>>) /\ n.echo = EchoOf(q.over, q.echo, <<>>)
  BY <1>1, EchoAddIs
<1> HIDE DEF r, u, n
<1>5. /\ t \in ParserState /\ SameRest(t, r) /\ t.st = r.st /\ t.osc = r.osc /\ t.csi = r.csi
      /\ t.over = FullOf(r.over, r.echo, y) /\ t.echo = EchoOf(r.over, r.echo, y)
  BY <1>2, EchoAddIs
<1> HIDE DEF t
<1>6. FullOf(q.over, q.echo, <<>>) = q.over /\ EchoOf(q.over, q.echo, <<>>) = q.echo
  <2>1. CASE q.over = TRUE
    BY <2>1 DEF FullOf, EchoOf
  <2>2. CASE q.over = FALSE
    BY <1>1, <2>2, Zenon DEF FullOf, EchoOf
  <2>3. QED BY <1>1, <2>1, <2>2
<1>7. /\ FullOf(FullOf(q.over, q.echo, x), EchoOf(q.over, q.echo, x), y) = FullOf(q.over, q.echo, x \o y)
      /\ EchoOf(FullOf(q.over, q.echo, x), EchoOf(q.over, q.echo, x), y) = EchoOf(q.over, q.echo, x \o y)
  <2>1. CASE q.over = TRUE
    BY <2>1 DEF FullOf, EchoOf
  <2>2. CASE q.over = FALSE /\ Len(q.echo) + Len(x) > EchoCap
    <3>1. Len(q.echo) + Len(x \o y) > EchoCap
      BY <1>1, <2>2, MoreBytes
    <3>2. QED BY <2>2, <3>1, Zenon DEF FullOf, EchoOf
  <2>3. CASE q.over = FALSE /\ ~(Len(q.echo) + Len(x) > EchoCap)
    <3>1. FullOf(q.over, q.echo, x) = FALSE /\ EchoOf(q.over, q.echo, x) = q.echo \o x
      BY <2>3, Zenon DEF FullOf, EchoOf
    <3>2. (Len(q.echo \o x) + Len(y) > EchoCap) <=> (Len(q.echo) + Len(x \o y) > EchoCap)
      BY <1>1, MoreBytes
    <3>3. FullOf(FALSE, q.echo \o x, y) = FullOf(FALSE, q.echo, x \o y)
      BY <3>2, Zenon DEF FullOf
    <3>4. EchoOf(FALSE, q.echo \o x, y) = EchoOf(FALSE, q.echo, x \o y)
      BY <1>1, <3>2, Zenon DEF EchoOf
    <3>5. QED BY <2>3, <3>1, <3>3, <3>4, Zenon
  <2>4. QED BY <1>1, <2>1, <2>2, <2>3
<1>8. n = q
  BY <1>4, <1>6, SameParser
<1>9. t = u
  <2>1. t.over = u.over /\ t.echo = u.echo
    BY <1>2, <1>3, <1>5, <1>7
  <2>2. SameRest(t, u) /\ t.st = u.st /\ t.osc = u.osc /\ t.csi = u.csi
    BY <1>2, <1>3, <1>5 DEF SameRest
  <2>3. QED BY <1>3, <1>5, <2>1, <2>2, SameParser
<1>10. QED BY <1>8, <1>9 DEF n, t, u, r

-----------------------------------------------------------------------------
(***************************************************************************)
(* What a byte does once the text before it has been passed on: to the     *)
(* parser, to the output and to the events, as the parser alone determines *)
(* it.                                                                     *)
(***************************************************************************)

\* What emitting bytes makes of the parser, and what of them is output.
EmitP(q, x) ==
  IF q.capturing /\ ~q.alt THEN q
  ELSE IF q.phase # "none" THEN Feed!EchoAdd(q, x) ELSE q
EmitOut(q, x) == IF q.capturing /\ ~q.alt THEN x ELSE <<>>

LEMMA EmitPTypes ==
  ASSUME NEW q \in ParserState, NEW x \in Seq(EchoByte)
  PROVE  /\ EmitP(q, x) \in ParserState /\ SameRest(EmitP(q, x), q)
         /\ EmitP(q, x).st = q.st /\ EmitP(q, x).osc = q.osc /\ EmitP(q, x).csi = q.csi
BY EchoAddIs DEF EmitP, SameRest

LEMMA EmitPPieces ==
  ASSUME NEW q \in ParserState, NEW x \in Seq(EchoByte), NEW y \in Seq(EchoByte)
  PROVE  EmitP(EmitP(q, x), y) = EmitP(q, x \o y) /\ EmitP(q, <<>>) = q
<1>1. Feed!EchoAdd(q, x).capturing = q.capturing /\ Feed!EchoAdd(q, x).alt = q.alt
      /\ Feed!EchoAdd(q, x).phase = q.phase
  BY EchoAddIs DEF SameRest
<1>2. Feed!EchoAdd(Feed!EchoAdd(q, x), y) = Feed!EchoAdd(q, x \o y) /\ Feed!EchoAdd(q, <<>>) = q
  BY EchoAddPieces
<1>3. QED BY <1>1, <1>2, Zenon DEF EmitP

LEMMA EmitIs ==
  ASSUME NEW s \in Midst, NEW x \in Seq(Bytes)
  PROVE  /\ Feed!Emit(s, x).p = EmitP(s.p, x)
         /\ Feed!Emit(s, x).out = s.out \o EmitOut(s.p, x)
         /\ Feed!Emit(s, x).ev = s.ev /\ Feed!Emit(s, x).text = s.text
         /\ EmitP(s.p, x) \in ParserState /\ EmitOut(s.p, x) \in Seq(Bytes)
         /\ Feed!Emit(s, x) \in Midst
<1>1. s.p \in ParserState /\ s.out \in Seq(Bytes) /\ s.out \o <<>> = s.out /\ x \in Seq(EchoByte)
      /\ s.out \o x \in Seq(Bytes) /\ <<>> \in Seq(Bytes)
  BY ByteTypes DEF Midst
<1>2. /\ EmitP(s.p, x) \in ParserState /\ EmitP(s.p, x).st = s.p.st
      /\ EmitOut(s.p, x) \in Seq(Bytes)
  BY <1>1, EmitPTypes DEF EmitOut
<1>3. /\ Feed!Emit(s, x).p = EmitP(s.p, x)
      /\ Feed!Emit(s, x).out = s.out \o EmitOut(s.p, x)
      /\ Feed!Emit(s, x).ev = s.ev /\ Feed!Emit(s, x).text = s.text
  <2>1. CASE s.p.capturing /\ ~s.p.alt
    BY <2>1 DEF Feed!Emit, EmitP, EmitOut, Midst
  <2>2. CASE ~(s.p.capturing /\ ~s.p.alt) /\ s.p.phase # "none"
    BY <1>1, <2>2 DEF Feed!Emit, EmitP, EmitOut, Midst
  <2>3. CASE ~(s.p.capturing /\ ~s.p.alt) /\ s.p.phase = "none"
    BY <1>1, <2>3 DEF Feed!Emit, EmitP, EmitOut, Midst
  <2>4. QED BY <2>1, <2>2, <2>3
<1>4. Feed!Emit(s, x) \in Midst
  <2>1. s.p.st # "norm" => s.text = <<>>
    BY DEF Midst
  <2>2. CASE s.p.capturing /\ ~s.p.alt
    BY <1>1, <2>1, <2>2 DEF Feed!Emit, Midst
  <2>3. CASE ~(s.p.capturing /\ ~s.p.alt) /\ s.p.phase # "none"
    <3>1. Feed!EchoAdd(s.p, x) \in ParserState /\ Feed!EchoAdd(s.p, x).st = s.p.st
      BY <1>1, EchoAddIs
    <3>2. QED BY <2>1, <2>3, <3>1 DEF Feed!Emit, Midst
  <2>4. CASE ~(s.p.capturing /\ ~s.p.alt) /\ s.p.phase = "none"
    BY <2>4 DEF Feed!Emit
  <2>5. QED BY <2>2, <2>3, <2>4
<1>5. QED BY <1>2, <1>3, <1>4

LEMMA EmitTextIs ==
  ASSUME NEW s \in Midst
  PROVE  /\ Feed!EmitText(s) \in Settled
         /\ Feed!EmitText(s).p = EmitP(s.p, s.text)
         /\ Feed!EmitText(s).out = s.out \o EmitOut(s.p, s.text)
         /\ Feed!EmitText(s).ev = s.ev
         /\ s.text = <<>> => Feed!EmitText(s).p = s.p /\ Feed!EmitText(s).out = s.out
<1> DEFINE e == Feed!Emit(s, s.text)
           r == [e EXCEPT !.text = <<>>]
<1>1. s.text \in Seq(Bytes) /\ s.p \in ParserState /\ <<>> \in Seq(Bytes) /\ <<>> \in Seq(EchoByte)
  BY DEF Midst
<1>2. /\ e.p = EmitP(s.p, s.text) /\ e.out = s.out \o EmitOut(s.p, s.text) /\ e.ev = s.ev /\ e \in Midst
  BY <1>1, EmitIs
<1> HIDE DEF e
<1>3. r \in Settled /\ r.p = e.p /\ r.out = e.out /\ r.ev = e.ev
  BY <1>1, <1>2 DEF Midst, Settled
<1>4. Feed!EmitText(s) = r
  BY DEF Feed!EmitText, e
<1> HIDE DEF r
<1>5. ASSUME s.text = <<>> PROVE EmitP(s.p, s.text) = s.p /\ s.out \o EmitOut(s.p, s.text) = s.out
  <2>1. EmitP(s.p, <<>>) = s.p
    BY <1>1, EmitPPieces
  <2>2. EmitOut(s.p, <<>>) = <<>>
    BY DEF EmitOut
  <2>3. s.out \o <<>> = s.out
    BY DEF Midst
  <2>4. QED BY <1>5, <2>1, <2>2, <2>3
<1>6. QED BY <1>2, <1>3, <1>4, <1>5

\* Parsers that differ in state and buffers only.
Alike(q, r) == SameRest(q, r) /\ q.over = r.over /\ q.echo = r.echo

LEMMA AlikeEmits ==
  ASSUME NEW q \in ParserState, NEW r \in ParserState, Alike(q, r), NEW x \in Seq(EchoByte)
  PROVE  /\ Alike(Feed!EchoAdd(q, x), Feed!EchoAdd(r, x))
         /\ Alike(EmitP(q, x), EmitP(r, x)) /\ EmitOut(q, x) = EmitOut(r, x)
<1>1. /\ SameRest(Feed!EchoAdd(q, x), q)
      /\ Feed!EchoAdd(q, x).over = FullOf(q.over, q.echo, x)
      /\ Feed!EchoAdd(q, x).echo = EchoOf(q.over, q.echo, x)
  BY EchoAddIs
<1>2. /\ SameRest(Feed!EchoAdd(r, x), r)
      /\ Feed!EchoAdd(r, x).over = FullOf(r.over, r.echo, x)
      /\ Feed!EchoAdd(r, x).echo = EchoOf(r.over, r.echo, x)
  BY EchoAddIs
<1>3. SameRest(q, r) /\ q.over = r.over /\ q.echo = r.echo
  BY DEF Alike
<1>4. Alike(Feed!EchoAdd(q, x), Feed!EchoAdd(r, x))
  BY <1>1, <1>2, <1>3, Zenon DEF Alike, SameRest
<1>5. Alike(EmitP(q, x), EmitP(r, x)) /\ EmitOut(q, x) = EmitOut(r, x)
  BY <1>3, <1>4, Zenon DEF EmitP, EmitOut, Alike, SameRest
<1>6. QED BY <1>4, <1>5

LEMMA EchoResetIs ==
  ASSUME NEW q \in ParserState
  PROVE  LET r == Feed!EchoReset(q) IN
         /\ r \in ParserState /\ r.st = q.st /\ r.osc = q.osc /\ r.csi = q.csi
         /\ r.capturing = q.capturing /\ r.alt = q.alt
         /\ r.phase = "none" /\ r.input = FALSE /\ r.over = FALSE /\ r.echo = <<>>
<1>1. <<>> \in Echoes
  BY EchoTypes
<1>2. QED BY <1>1 DEF Feed!EchoReset, ParserState

\* The beginning of a prompt and of what is typed.
Prompting(q) == [Feed!EchoReset(q) EXCEPT !.phase = "prompt"]
Typing(q) ==
  [(IF q.phase # "prompt" THEN Feed!EchoReset(q) ELSE q) EXCEPT !.phase = "input", !.input = TRUE]

LEMMA TypingIs ==
  ASSUME NEW x \in ParserState
  PROVE  LET k == Typing(x) IN
         /\ k \in ParserState
         /\ k.capturing = x.capturing /\ k.alt = x.alt /\ k.phase = "input" /\ k.input = TRUE
         /\ k.over = (IF x.phase # "prompt" THEN FALSE ELSE x.over)
         /\ k.echo = (IF x.phase # "prompt" THEN <<>> ELSE x.echo)
<1> DEFINE y == IF x.phase # "prompt" THEN Feed!EchoReset(x) ELSE x
<1>1. /\ y \in ParserState /\ y.capturing = x.capturing /\ y.alt = x.alt
      /\ y.over = (IF x.phase # "prompt" THEN FALSE ELSE x.over)
      /\ y.echo = (IF x.phase # "prompt" THEN <<>> ELSE x.echo)
  <2>1. CASE x.phase # "prompt"
    BY <2>1, EchoResetIs
  <2>2. CASE x.phase = "prompt"
    BY <2>2
  <2>3. QED BY <2>1, <2>2
<1>2. Typing(x) = [y EXCEPT !.phase = "input", !.input = TRUE]
  BY Zenon DEF Typing
<1> HIDE DEF y
<1>3. QED BY <1>1, <1>2 DEF ParserState

LEMMA MarkABIs ==
  ASSUME NEW q \in ParserState, NEW r \in ParserState, Alike(q, r)
  PROVE  /\ Feed!MarkA(q).p \in ParserState /\ Feed!MarkB(q).p \in ParserState
         /\ Alike(Feed!MarkA(q).p, Feed!MarkA(r).p) /\ Alike(Feed!MarkB(q).p, Feed!MarkB(r).p)
         /\ Feed!MarkA(q).ev = <<>> /\ Feed!MarkB(q).ev = <<>>
<1> DEFINE a == <<Feed!Sentinel("prompt")>>
           b == <<Feed!Sentinel("input")>>
<1>1. a \in Seq(EchoByte) /\ b \in Seq(EchoByte)
  BY DEF Feed!Sentinel, EchoByte
<1>2. /\ Feed!MarkA(q).p = Feed!EchoAdd(Prompting(q), a) /\ Feed!MarkA(q).ev = <<>>
      /\ Feed!MarkB(q).p = Feed!EchoAdd(Typing(q), b) /\ Feed!MarkB(q).ev = <<>>
      /\ Feed!MarkA(r).p = Feed!EchoAdd(Prompting(r), a)
      /\ Feed!MarkB(r).p = Feed!EchoAdd(Typing(r), b)
  BY Zenon DEF Feed!MarkA, Feed!MarkB, Prompting, Typing
<1> HIDE DEF a, b
<1>3. Prompting(q) \in ParserState /\ Prompting(r) \in ParserState
  BY EchoResetIs DEF Prompting, ParserState
<1>4. Typing(q) \in ParserState /\ Typing(r) \in ParserState
  BY TypingIs
<1>5. Alike(Prompting(q), Prompting(r))
  BY EchoResetIs DEF Prompting, ParserState, Alike, SameRest
<1>6. Alike(Typing(q), Typing(r))
  <2>1. /\ q.capturing = r.capturing /\ q.alt = r.alt /\ q.phase = r.phase
        /\ q.over = r.over /\ q.echo = r.echo
    BY DEF Alike, SameRest
  <2> DEFINE k == Typing(q)
             m == Typing(r)
  <2>2. /\ k.capturing = q.capturing /\ k.alt = q.alt /\ k.phase = "input" /\ k.input = TRUE
        /\ k.over = (IF q.phase # "prompt" THEN FALSE ELSE q.over)
        /\ k.echo = (IF q.phase # "prompt" THEN <<>> ELSE q.echo)
    BY TypingIs
  <2>3. /\ m.capturing = r.capturing /\ m.alt = r.alt /\ m.phase = "input" /\ m.input = TRUE
        /\ m.over = (IF r.phase # "prompt" THEN FALSE ELSE r.over)
        /\ m.echo = (IF r.phase # "prompt" THEN <<>> ELSE r.echo)
    BY TypingIs
  <2> HIDE DEF k, m
  <2>4. k.over = m.over /\ k.echo = m.echo
    BY <2>1, <2>2, <2>3
  <2>5. Alike(k, m)
    BY <2>1, <2>2, <2>3, <2>4, Zenon DEF Alike, SameRest
  <2>6. QED BY <2>5 DEF k, m
<1>7. Feed!MarkA(q).p \in ParserState /\ Feed!MarkB(q).p \in ParserState
  BY <1>1, <1>2, <1>3, <1>4, EchoAddIs
<1>8. Alike(Feed!MarkA(q).p, Feed!MarkA(r).p) /\ Alike(Feed!MarkB(q).p, Feed!MarkB(r).p)
  BY <1>1, <1>2, <1>3, <1>4, <1>5, <1>6, AlikeEmits
<1>9. QED BY <1>2, <1>7, <1>8

LEMMA MarkCDIs ==
  ASSUME NEW q \in ParserState, NEW r \in ParserState, Alike(q, r)
  PROVE  /\ Feed!MarkC(q).p \in ParserState /\ Feed!MarkD(q).p \in ParserState
         /\ Alike(Feed!MarkC(q).p, Feed!MarkC(r).p) /\ Alike(Feed!MarkD(q).p, Feed!MarkD(r).p)
         /\ Feed!MarkC(q).ev = Feed!MarkC(r).ev /\ Feed!MarkD(q).ev = Feed!MarkD(r).ev
         /\ Feed!MarkC(q).ev \in Seq(Event) /\ Feed!MarkD(q).ev \in Seq(Event)
<1> DEFINE Running(x) == [x EXCEPT !.capturing = TRUE, !.alt = FALSE]
<1>1. Running(q) \in ParserState /\ Running(r) \in ParserState
  BY DEF ParserState
<1>2. Alike(Running(q), Running(r))
  BY DEF ParserState, Alike, SameRest
<1>3. Feed!MarkC(q).p = Feed!EchoReset(Running(q)) /\ Feed!MarkC(r).p = Feed!EchoReset(Running(r))
  BY Zenon DEF Feed!MarkC
<1> HIDE DEF Running
<1>4. Feed!MarkC(q).p \in ParserState /\ Alike(Feed!MarkC(q).p, Feed!MarkC(r).p)
  <2> DEFINE c == Running(q)
             d == Running(r)
  <2>1. c \in ParserState /\ d \in ParserState /\ c.capturing = d.capturing /\ c.alt = d.alt
    BY <1>1, <1>2 DEF Alike, SameRest
  <2> HIDE DEF c, d
  <2>2. Feed!EchoReset(c) \in ParserState
    BY <2>1, EchoResetIs
  <2>3. Alike(Feed!EchoReset(c), Feed!EchoReset(d))
    <3>1. /\ Feed!EchoReset(c).capturing = c.capturing /\ Feed!EchoReset(c).alt = c.alt
          /\ Feed!EchoReset(c).phase = "none" /\ Feed!EchoReset(c).input = FALSE
          /\ Feed!EchoReset(c).over = FALSE /\ Feed!EchoReset(c).echo = <<>>
      BY <2>1, EchoResetIs
    <3>2. /\ Feed!EchoReset(d).capturing = d.capturing /\ Feed!EchoReset(d).alt = d.alt
          /\ Feed!EchoReset(d).phase = "none" /\ Feed!EchoReset(d).input = FALSE
          /\ Feed!EchoReset(d).over = FALSE /\ Feed!EchoReset(d).echo = <<>>
      BY <2>1, EchoResetIs
    <3>3. QED BY <2>1, <3>1, <3>2, Zenon DEF Alike, SameRest
  <2>4. QED BY <1>3, <2>2, <2>3, Zenon DEF c, d
<1>5. Feed!MarkD(q).p \in ParserState
  BY EchoResetIs DEF Feed!MarkD, ParserState
<1>6. Alike(Feed!MarkD(q).p, Feed!MarkD(r).p)
  <2>1. ASSUME NEW x \in ParserState
        PROVE  /\ Feed!MarkD(x).p.capturing = FALSE /\ Feed!MarkD(x).p.alt = x.alt
               /\ Feed!MarkD(x).p.phase = "none" /\ Feed!MarkD(x).p.input = FALSE
               /\ Feed!MarkD(x).p.over = FALSE /\ Feed!MarkD(x).p.echo = <<>>
    <3> DEFINE y == Feed!EchoReset(x)
    <3>1. /\ y \in ParserState /\ y.alt = x.alt /\ y.phase = "none" /\ y.input = FALSE
          /\ y.over = FALSE /\ y.echo = <<>>
      BY EchoResetIs
    <3>2. Feed!MarkD(x).p = [y EXCEPT !.capturing = FALSE]
      BY Zenon DEF Feed!MarkD
    <3> HIDE DEF y
    <3>3. QED BY <3>1, <3>2 DEF ParserState
  <2>2. q.alt = r.alt
    BY DEF Alike, SameRest
  <2>3. QED BY <2>1, <2>2, Zenon DEF Alike, SameRest
<1>7. Feed!MarkC(q).ev = Feed!MarkC(r).ev /\ Feed!MarkD(q).ev = Feed!MarkD(r).ev
  BY Zenon DEF Feed!MarkC, Feed!MarkD, Alike, SameRest
<1>8. q.echo \in Seq(EchoByte) /\ <<>> \in Seq(EchoByte)
  BY EchoTypes, ParserIs
<1>9. /\ [kind |-> "echo", bytes |-> q.echo] \in Event
      /\ [kind |-> "start", bytes |-> <<>>] \in Event
      /\ [kind |-> "end", bytes |-> <<>>] \in Event
  BY <1>8 DEF Event
<1>10. Feed!MarkD(q).ev \in Seq(Event)
  BY <1>9 DEF Feed!MarkD
<1>11. Feed!MarkC(q).ev \in Seq(Event)
  <2> DEFINE a == IF q.input /\ ~q.over THEN <<[kind |-> "echo", bytes |-> q.echo]>> ELSE <<>>
             b == <<[kind |-> "start", bytes |-> <<>>]>>
  <2>1. a \in Seq(Event) /\ b \in Seq(Event)
    BY <1>9
  <2>2. Feed!MarkC(q).ev = a \o b
    BY DEF Feed!MarkC
  <2> HIDE DEF a, b
  <2>3. QED BY <2>1, <2>2
<1>12. QED BY <1>4, <1>5, <1>6, <1>7, <1>10, <1>11

LEMMA HandleOSCIs ==
  ASSUME NEW q \in ParserState, NEW r \in ParserState, Alike(q, r), q.osc = r.osc
  PROVE  /\ Feed!HandleOSC(q).p \in ParserState
         /\ Feed!HandleOSC(q).ev \in Seq(Event)
         /\ Alike(Feed!HandleOSC(q).p, Feed!HandleOSC(r).p)
         /\ Feed!HandleOSC(q).ev = Feed!HandleOSC(r).ev
<1>1. CASE q.osc = <<"A">>
  <2>1. Feed!HandleOSC(q) = Feed!MarkA(q) /\ Feed!HandleOSC(r) = Feed!MarkA(r)
    BY <1>1 DEF Feed!HandleOSC
  <2>2. Feed!MarkA(r).ev = <<>> /\ Feed!MarkA(q).ev = <<>>
    BY DEF Feed!MarkA
  <2>3. QED BY <2>1, <2>2, MarkABIs
<1>2. CASE q.osc = <<"B">>
  <2>1. Feed!HandleOSC(q) = Feed!MarkB(q) /\ Feed!HandleOSC(r) = Feed!MarkB(r)
    BY <1>2 DEF Feed!HandleOSC
  <2>2. Feed!MarkB(r).ev = <<>> /\ Feed!MarkB(q).ev = <<>>
    BY DEF Feed!MarkB
  <2>3. QED BY <2>1, <2>2, MarkABIs
<1>3. CASE q.osc = <<"C">>
  <2>1. Feed!HandleOSC(q) = Feed!MarkC(q) /\ Feed!HandleOSC(r) = Feed!MarkC(r)
    BY <1>3 DEF Feed!HandleOSC
  <2>2. QED BY <2>1, MarkCDIs
<1>4. CASE q.osc = <<"D">>
  <2>1. Feed!HandleOSC(q) = Feed!MarkD(q) /\ Feed!HandleOSC(r) = Feed!MarkD(r)
    BY <1>4 DEF Feed!HandleOSC
  <2>2. QED BY <2>1, MarkCDIs
<1>5. CASE q.osc \notin {<<"A">>, <<"B">>, <<"C">>, <<"D">>}
  <2>1. Feed!HandleOSC(q) = [p |-> q, ev |-> <<>>] /\ Feed!HandleOSC(r) = [p |-> r, ev |-> <<>>]
    BY <1>5 DEF Feed!HandleOSC
  <2>2. QED BY <2>1
<1>6. QED BY <1>1, <1>2, <1>3, <1>4, <1>5

-----------------------------------------------------------------------------
(***************************************************************************)
(* One byte after another: what the next makes of the parser, the output   *)
(* and the events is determined by the parser alone, by no more of it than *)
(* Forget leaves, and nothing is lost by passing on the text before it.    *)
(***************************************************************************)

\* The sequence in q that the byte b ends: with a mark, or passed on.
EndsOsc(q, b) == (q.st = "osc" /\ b = Feed!BEL) \/ (q.st = "oscEsc" /\ b = "\\")
EndsCsi(q, b) == q.st = "csi" /\ b \in Feed!Finals
EndsEsc(q, b) == q.st = "esc" /\ b \notin {"[", "]"}

\* The parser that passes the sequence on, and the sequence.
Grown(q, b) == [q EXCEPT !.csi = Append(@, b)]
Passer(q, b) == IF EndsCsi(q, b) THEN Feed!HandleCSI(Grown(q, b)) ELSE q
PassedOn(q, b) == IF EndsCsi(q, b) THEN <<Feed!ESC, "[">> \o Append(q.csi, b) ELSE <<Feed!ESC, b>>

\* What a byte makes of the parser that ends no sequence and is no text.
Within(q, b) ==
  CASE q.st = "norm" -> [q EXCEPT !.st = "esc"]
    [] q.st = "esc" -> IF b = "]" THEN [q EXCEPT !.st = "osc", !.osc = <<>>]
                       ELSE [q EXCEPT !.st = "csi", !.csi = <<>>]
    [] q.st = "osc" -> IF b = Feed!ESC THEN [q EXCEPT !.st = "oscEsc"]
                       ELSE IF Len(q.osc) < MaxSeqLen THEN [q EXCEPT !.osc = Append(@, b)] ELSE q
    [] q.st = "oscEsc" -> [q EXCEPT !.osc = @ \o <<Feed!ESC, b>>, !.st = "osc"]
    [] q.st = "csi" ->
         [Grown(q, b) EXCEPT !.st = IF Len(Append(q.csi, b)) > MaxSeqLen THEN "norm" ELSE "csi"]

IsText(q, b) == q.st = "norm" /\ b # Feed!ESC
EndsNone(q, b) == ~IsText(q, b) /\ ~EndsOsc(q, b) /\ ~EndsCsi(q, b) /\ ~EndsEsc(q, b)

LEMMA OutputType ==
  ASSUME NEW out \in Seq(Bytes)
  PROVE  Feed!Output(out) \in Seq(Event)
<1>1. out \in Seq(EchoByte)
  BY ByteTypes
<1>2. [kind |-> "output", bytes |-> out] \in Event
  BY <1>1 DEF Event
<1>3. QED BY <1>2 DEF Feed!Output

LEMMA Cat ==
  ASSUME NEW x \in Seq(Bytes), NEW y \in Seq(Bytes), NEW z \in Seq(Bytes)
  PROVE  (x \o y) \o z = x \o (y \o z)
OBVIOUS

\* A sequence ends with a mark.
LEMMA OscEnds ==
  ASSUME NEW s \in Midst, NEW b \in Bytes, EndsOsc(s.p, b)
  PROVE  LET t == Feed!Step(s, b) IN
         /\ t \in Settled
         /\ t.p = [Feed!HandleOSC(s.p).p EXCEPT !.st = "norm"]
         /\ t.ev = s.ev \o Feed!Output(s.out) \o Feed!HandleOSC(s.p).ev
         /\ t.out = <<>>
<1> DEFINE h == Feed!HandleOSC(s.p)
           q == [h.p EXCEPT !.st = "norm"]
           t == [s EXCEPT !.ev = @ \o Feed!Output(s.out) \o h.ev, !.out = <<>>, !.p = q]
<1>1. s.p \in ParserState /\ s.ev \in Seq(Event) /\ s.out \in Seq(Bytes) /\ s.text = <<>>
  BY DEF Midst, EndsOsc
<1>2. h.p \in ParserState /\ h.ev \in Seq(Event)
  BY <1>1, HandleOSCIs DEF Alike, SameRest
<1>3. Feed!Output(s.out) \in Seq(Event)
  BY <1>1, OutputType
<1>4. Feed!Step(s, b) = t
  <2>1. Feed!Step(s, b) = Feed!EndOsc(s)
    BY ByteTypes DEF Feed!Step, Feed!InOsc, Feed!InOscEsc, EndsOsc
  <2>2. QED BY <2>1, Zenon DEF Feed!EndOsc
<1> HIDE DEF h
<1>5. q \in ParserState /\ q.st = "norm"
  BY <1>2 DEF ParserState
<1> HIDE DEF q
<1>6. s.ev \o Feed!Output(s.out) \o h.ev \in Seq(Event)
  BY <1>1, <1>2, <1>3
<1>7. t \in Settled /\ t.p = q /\ t.ev = s.ev \o Feed!Output(s.out) \o h.ev /\ t.out = <<>>
  BY <1>1, <1>5, <1>6 DEF Midst, Settled
<1>8. QED BY <1>4, <1>7, Zenon DEF h, q

\* Text goes where it would go byte by byte.
LEMMA TextPasses ==
  ASSUME NEW s \in Midst, NEW b \in Bytes, IsText(s.p, b)
  PROVE  LET e == Feed!EmitText(s)
             t == Feed!EmitText(Feed!Step(s, b)) IN
         /\ Feed!Step(s, b) \in Midst
         /\ t.p = EmitP(e.p, <<b>>) /\ t.ev = e.ev /\ t.out = e.out \o EmitOut(e.p, <<b>>)
<1> DEFINE e == Feed!EmitText(s)
           m == [s EXCEPT !.text = Append(@, b)]
           t == Feed!EmitText(m)
<1>1. /\ s.p \in ParserState /\ s.p.st = "norm" /\ s.out \in Seq(Bytes)
      /\ s.text \in Seq(Bytes) /\ s.text \in Seq(EchoByte)
      /\ <<b>> \in Seq(Bytes) /\ <<b>> \in Seq(EchoByte)
  BY ByteTypes DEF Midst, IsText
<1>2. Append(s.text, b) = s.text \o <<b>>
  BY <1>1
<1>3. Feed!Step(s, b) = m
  BY <1>1 DEF Feed!Step, IsText
<1>4. m \in Midst /\ m.p = s.p /\ m.out = s.out /\ m.ev = s.ev /\ m.text = s.text \o <<b>>
  <2>1. Append(s.text, b) \in Seq(Bytes)
    BY <1>1
  <2>2. m \in Midst
    BY <1>1, <2>1 DEF Midst
  <2>3. m.p = s.p /\ m.out = s.out /\ m.ev = s.ev /\ m.text = Append(s.text, b)
    BY DEF Midst
  <2>4. QED BY <1>2, <2>2, <2>3
<1> HIDE DEF m
<1>5. /\ t.p = EmitP(s.p, s.text \o <<b>>) /\ t.ev = s.ev
      /\ t.out = s.out \o EmitOut(s.p, s.text \o <<b>>)
  BY <1>4, EmitTextIs
<1>6. /\ e.p = EmitP(s.p, s.text) /\ e.ev = s.ev /\ e.out = s.out \o EmitOut(s.p, s.text)
  BY EmitTextIs
<1>7. EmitP(e.p, <<b>>) = EmitP(s.p, s.text \o <<b>>)
  <2>1. EmitP(EmitP(s.p, s.text), <<b>>) = EmitP(s.p, s.text \o <<b>>)
    BY <1>1, EmitPPieces
  <2>2. QED BY <1>6, <2>1
<1>8. e.out \o EmitOut(e.p, <<b>>) = s.out \o EmitOut(s.p, s.text \o <<b>>)
  <2>1. e.p.capturing = s.p.capturing /\ e.p.alt = s.p.alt
    BY <1>1, <1>6, EmitPTypes DEF SameRest
  <2>2. CASE s.p.capturing /\ ~s.p.alt
    <3>1. /\ EmitOut(s.p, s.text) = s.text /\ EmitOut(e.p, <<b>>) = <<b>>
          /\ EmitOut(s.p, s.text \o <<b>>) = s.text \o <<b>>
      BY <2>1, <2>2 DEF EmitOut
    <3>2. (s.out \o s.text) \o <<b>> = s.out \o (s.text \o <<b>>)
      <4> DEFINE y == <<b>>
      <4>1. s.out \in Seq(Bytes) /\ s.text \in Seq(Bytes) /\ y \in Seq(Bytes)
        BY <1>1
      <4> HIDE DEF y
      <4>2. (s.out \o s.text) \o y = s.out \o (s.text \o y)
        BY <4>1, Cat
      <4>3. QED BY <4>2 DEF y
    <3>3. QED BY <1>6, <3>1, <3>2
  <2>3. CASE ~(s.p.capturing /\ ~s.p.alt)
    <3>1. /\ EmitOut(s.p, s.text) = <<>> /\ EmitOut(e.p, <<b>>) = <<>>
          /\ EmitOut(s.p, s.text \o <<b>>) = <<>>
      BY <2>1, <2>3 DEF EmitOut
    <3>2. (s.out \o <<>>) \o <<>> = s.out \o <<>>
      BY <1>1
    <3>3. QED BY <1>6, <3>1, <3>2
  <2>4. QED BY <2>2, <2>3
<1> HIDE DEF e, t
<1>9. QED BY <1>3, <1>4, <1>5, <1>6, <1>7, <1>8 DEF e, t

\* A sequence that says nothing is passed on.
LEMMA SeqPasses ==
  ASSUME NEW s \in Midst, NEW b \in Bytes, EndsCsi(s.p, b) \/ EndsEsc(s.p, b)
  PROVE  LET t == Feed!Step(s, b)
             q == Passer(s.p, b)
             x == PassedOn(s.p, b) IN
         /\ t \in Settled /\ q \in ParserState /\ x \in Seq(Bytes)
         /\ t.p = [EmitP(q, x) EXCEPT !.st = "norm"]
         /\ t.ev = s.ev /\ t.out = s.out \o EmitOut(q, x)
<1> DEFINE q == Passer(s.p, b)
           x == PassedOn(s.p, b)
           m == [s EXCEPT !.p = q]
           n == Feed!Emit(m, x)
           r == [EmitP(q, x) EXCEPT !.st = "norm"]
           t == [n EXCEPT !.p = r]
<1>1. s.p \in ParserState /\ s.p.csi \in Seq(Bytes) /\ s.text = <<>> /\ s.p.st # "norm"
  BY DEF Midst, EndsCsi, EndsEsc, ParserState
<1>2. q \in ParserState /\ q.st = s.p.st /\ x \in Seq(Bytes)
  <2>1. CASE EndsCsi(s.p, b)
    <3> DEFINE g == Grown(s.p, b)
    <3>1. Append(s.p.csi, b) \in Seq(Bytes)
      BY <1>1
    <3>2. g \in ParserState /\ g.st = s.p.st
      BY <1>1, <3>1 DEF Grown, ParserState
    <3> HIDE DEF g
    <3>3. Feed!HandleCSI(g) \in ParserState /\ Feed!HandleCSI(g).st = g.st
      BY <3>2 DEF Feed!HandleCSI, ParserState
    <3>4. q = Feed!HandleCSI(g)
      BY <2>1, Zenon DEF Passer, g
    <3>5. <<Feed!ESC, "[">> \in Seq(Bytes)
      BY ByteTypes
    <3>6. x \in Seq(Bytes)
      <4> DEFINE y == <<Feed!ESC, "[">>
                 z == Append(s.p.csi, b)
      <4>1. x = y \o z
        BY <2>1, Zenon DEF PassedOn
      <4>2. y \in Seq(Bytes) /\ z \in Seq(Bytes)
        BY <3>1, <3>5
      <4> HIDE DEF x, y, z
      <4>3. QED BY <4>1, <4>2
    <3>7. QED BY <3>2, <3>3, <3>4, <3>6, Zenon
  <2>2. CASE ~EndsCsi(s.p, b)
    <3>1. q = s.p /\ x = <<Feed!ESC, b>>
      BY <2>2, Zenon DEF Passer, PassedOn
    <3>2. <<Feed!ESC, b>> \in Seq(Bytes)
      BY ByteTypes
    <3>3. QED BY <1>1, <3>1, <3>2
  <2>3. QED BY <2>1, <2>2
<1>3. x \in Seq(EchoByte)
  BY <1>2, ByteTypes
<1>4. Feed!Step(s, b) = Feed!To(n, "norm")
  <2>1. CASE EndsCsi(s.p, b)
    <3> DEFINE a == [s EXCEPT !.p.csi = Append(@, b)]
    <3>1. Feed!Step(s, b) = Feed!To(Feed!Emit([a EXCEPT !.p = Feed!HandleCSI(@)],
                                               <<Feed!ESC, "[">> \o a.p.csi), "norm")
      BY <2>1 DEF Feed!Step, Feed!InCsi, EndsCsi
    <3>2. a.p = Grown(s.p, b) /\ a.p.csi = Append(s.p.csi, b)
      BY <1>1 DEF Midst, Grown, ParserState
    <3>3. [a EXCEPT !.p = Feed!HandleCSI(@)] = m
      BY <2>1, <3>2 DEF Passer, Midst
    <3>4. x = <<Feed!ESC, "[">> \o a.p.csi
      BY <2>1, <3>2, Zenon DEF PassedOn
    <3> HIDE DEF a, m, x
    <3>5. QED BY <3>1, <3>3, <3>4, Zenon
  <2>2. CASE EndsEsc(s.p, b)
    <3>1. ~EndsCsi(s.p, b)
      BY <2>2 DEF EndsEsc, EndsCsi
    <3>2. q = s.p /\ x = <<Feed!ESC, b>>
      BY <3>1, Zenon DEF Passer, PassedOn
    <3>3. m = s
      BY <3>2 DEF Midst
    <3>4. Feed!Step(s, b) = Feed!To(Feed!Emit(s, <<Feed!ESC, b>>), "norm")
      BY <2>2 DEF Feed!Step, Feed!AfterEsc, EndsEsc
    <3> HIDE DEF m, x
    <3>5. QED BY <3>2, <3>3, <3>4, Zenon
  <2>3. QED BY <2>1, <2>2
<1> HIDE DEF q, x
<1>5. m \in Midst /\ m.p = q /\ m.out = s.out /\ m.ev = s.ev /\ m.text = <<>>
  BY <1>1, <1>2 DEF Midst
<1> HIDE DEF m
<1>6. /\ n.p = EmitP(q, x) /\ n.out = s.out \o EmitOut(q, x) /\ n.ev = s.ev /\ n.text = <<>> /\ n \in Midst
      /\ EmitP(q, x) \in ParserState
  BY <1>2, <1>5, EmitIs
<1> HIDE DEF n
<1>7. r \in ParserState /\ r.st = "norm"
  BY <1>6 DEF ParserState
<1>8. Feed!To(n, "norm") = t
  BY <1>6 DEF Feed!To, Midst
<1> HIDE DEF r
<1>9. t \in Settled /\ t.p = r /\ t.ev = s.ev /\ t.out = s.out \o EmitOut(q, x)
  BY <1>6, <1>7 DEF Midst, Settled
<1> HIDE DEF t
<1>10. QED BY <1>2, <1>4, <1>8, <1>9, Zenon DEF r, q, x

\* The rest changes nothing but the parser.
LEMMA NoneEnds ==
  ASSUME NEW s \in Midst, NEW b \in Bytes, EndsNone(s.p, b)
  PROVE  LET e == Feed!EmitText(s)
             t == Feed!Step(s, b) IN
         /\ t \in Settled /\ t.p = Within(e.p, b) /\ t.ev = e.ev /\ t.out = e.out
<1> DEFINE e == Feed!EmitText(s)
           m == [e EXCEPT !.p = Within(e.p, b)]
<1>1. s.p \in ParserState /\ s.p.osc \in Seq(Bytes) /\ s.p.csi \in Seq(Bytes)
  BY DEF Midst, ParserState
<1>2. e \in Settled /\ e.p.st = s.p.st
  <2>1. s.text \in Seq(EchoByte) /\ s.p \in ParserState
    BY ByteTypes DEF Midst
  <2>2. QED BY <2>1, EmitTextIs, EmitPTypes
<1>3. e.p \in ParserState /\ e.p.osc \in Seq(Bytes) /\ e.p.csi \in Seq(Bytes) /\ e.text = <<>>
      /\ e.p.st \in {"norm", "esc", "osc", "oscEsc", "csi"}
  BY <1>2 DEF Settled, Midst, ParserState
<1>4. Within(e.p, b) \in ParserState
  <2>1. /\ Append(e.p.osc, b) \in Seq(Bytes) /\ Append(e.p.csi, b) \in Seq(Bytes)
        /\ e.p.osc \o <<Feed!ESC, b>> \in Seq(Bytes) /\ <<>> \in Seq(Bytes)
    BY <1>3, ByteTypes
  <2>2. CASE e.p.st = "norm"
    BY <1>3, <2>2 DEF Within, ParserState
  <2>3. CASE e.p.st = "esc"
    BY <1>3, <2>1, <2>3 DEF Within, ParserState
  <2>4. CASE e.p.st = "osc"
    BY <1>3, <2>1, <2>4 DEF Within, ParserState
  <2>5. CASE e.p.st = "oscEsc"
    BY <1>3, <2>1, <2>5 DEF Within, ParserState
  <2>6. CASE e.p.st = "csi"
    BY <1>3, <2>1, <2>6 DEF Within, Grown, ParserState
  <2>7. QED BY <1>3, <2>2, <2>3, <2>4, <2>5, <2>6
<1>5. m \in Settled /\ m.p = Within(e.p, b) /\ m.ev = e.ev /\ m.out = e.out
  BY <1>2, <1>3, <1>4 DEF Settled, Midst
<1>6. Feed!Step(s, b) \in Midst /\ Feed!Step(s, b).text = <<>>
      /\ Feed!Step(s, b).p = Within(e.p, b) /\ Feed!Step(s, b).ev = e.ev /\ Feed!Step(s, b).out = e.out
  <2>1. CASE s.p.st = "norm"
    <3>1. Feed!Step(s, b) = Feed!To(e, "esc")
      BY <2>1 DEF Feed!Step, EndsNone, IsText
    <3> HIDE DEF e
    <3>2. Within(e.p, b) = [e.p EXCEPT !.st = "esc"]
      BY <1>2, <2>1 DEF Within
    <3>3. Feed!To(e, "esc").p = [e.p EXCEPT !.st = "esc"] /\ Feed!To(e, "esc").ev = e.ev
          /\ Feed!To(e, "esc").out = e.out /\ Feed!To(e, "esc").text = e.text
      BY <1>2 DEF Feed!To, Settled, Midst
    <3>4. Feed!To(e, "esc") \in Midst
      BY <1>2, <1>3 DEF Feed!To, Settled, Midst, ParserState
    <3>5. QED BY <1>3, <3>1, <3>2, <3>3, <3>4
  <2>2. CASE s.p.st # "norm"
    <3>1. s.text = <<>>
      BY <2>2 DEF Midst
    <3>2. e.p = s.p /\ e.ev = s.ev /\ e.out = s.out
      BY <3>1, EmitTextIs
    <3> HIDE DEF e
    <3>3. Feed!Step(s, b) = [s EXCEPT !.p = Within(s.p, b)]
      <4>1. CASE s.p.st = "esc"
        BY <4>1 DEF Feed!Step, Feed!AfterEsc, Within, EndsNone, EndsEsc
      <4>2. CASE s.p.st = "osc"
        <5>1. CASE b = Feed!ESC
          BY <4>2, <5>1 DEF Feed!Step, Feed!InOsc, Feed!To, Within, EndsNone, EndsOsc
        <5>2. CASE b # Feed!ESC /\ Len(s.p.osc) < MaxSeqLen
          BY <4>2, <5>2 DEF Feed!Step, Feed!InOsc, Within, EndsNone, EndsOsc
        <5>3. CASE b # Feed!ESC /\ ~(Len(s.p.osc) < MaxSeqLen)
          <6>1. [s EXCEPT !.p = s.p] = s
            BY DEF Midst
          <6>2. QED BY <4>2, <5>3, <6>1 DEF Feed!Step, Feed!InOsc, Within, EndsNone, EndsOsc
        <5>4. QED BY <5>1, <5>2, <5>3
      <4>3. CASE s.p.st = "oscEsc"
        BY <4>3 DEF Feed!Step, Feed!InOscEsc, Within, EndsNone, EndsOsc
      <4>4. CASE s.p.st = "csi"
        <5> DEFINE r == [s EXCEPT !.p.csi = Append(@, b)]
                   st == IF Len(Append(s.p.csi, b)) > MaxSeqLen THEN "norm" ELSE "csi"
        <5>1. r = [s EXCEPT !.p = Grown(s.p, b)]
          BY DEF Grown
        <5>2. r.p = Grown(s.p, b) /\ r.p.csi = Append(s.p.csi, b)
          BY <1>1, <5>1 DEF Grown, Midst, ParserState
        <5>3. Feed!Step(s, b) = [r EXCEPT !.p.st = IF Len(r.p.csi) > MaxSeqLen THEN "norm" ELSE "csi"]
          BY <4>4, Zenon DEF Feed!Step, Feed!InCsi, Feed!To, EndsNone, EndsCsi
        <5> HIDE DEF r
        <5>4. Feed!Step(s, b) = [r EXCEPT !.p.st = st]
          BY <5>2, <5>3, Zenon
        <5>5. Within(s.p, b) = [Grown(s.p, b) EXCEPT !.st = st]
          BY <4>4 DEF Within
        <5> HIDE DEF st
        <5>6. [r EXCEPT !.p.st = st] = [r EXCEPT !.p = [r.p EXCEPT !.st = st]]
          OBVIOUS
        <5>7. \A g, w : [[s EXCEPT !.p = g] EXCEPT !.p = w] = [s EXCEPT !.p = w]
          BY DEF Midst
        <5>8. [r EXCEPT !.p = [r.p EXCEPT !.st = st]] = [s EXCEPT !.p = [r.p EXCEPT !.st = st]]
          BY <5>1, <5>7, Zenon
        <5>9. QED BY <5>2, <5>4, <5>5, <5>6, <5>8, Zenon
      <4>5. QED BY <1>1, <2>2, <4>1, <4>2, <4>3, <4>4 DEF ParserState
    <3> HIDE DEF m
    <3>4. Within(s.p, b) \in ParserState
      BY <1>4, <3>2
    <3>5. [s EXCEPT !.p = Within(s.p, b)] \in Midst
      BY <3>1, <3>4 DEF Midst
    <3>6. /\ [s EXCEPT !.p = Within(s.p, b)].p = Within(s.p, b)
          /\ [s EXCEPT !.p = Within(s.p, b)].ev = s.ev
          /\ [s EXCEPT !.p = Within(s.p, b)].out = s.out
          /\ [s EXCEPT !.p = Within(s.p, b)].text = s.text
      BY DEF Midst
    <3>7. QED BY <3>1, <3>2, <3>3, <3>5, <3>6, Zenon
  <2>3. QED BY <2>1, <2>2
<1>7. QED BY <1>6, Zenon DEF Settled, e

-----------------------------------------------------------------------------
(***************************************************************************)
(* Feeding and joining, one after another.                                 *)
(***************************************************************************)

\* The steps of Feed and of Joined.
ByteStep == [x \in Midst \X Bytes |-> Feed!Step(x[1], x[2])]
JoinStep == [x \in Seq(Event) \X Event |-> Feed!Join(x[1], x[2])]

LEMMA StepTypes ==
  ASSUME NEW s \in Midst, NEW b \in Bytes
  PROVE  Feed!Step(s, b) \in Midst
<1>1. CASE IsText(s.p, b)
  BY <1>1, TextPasses
<1>2. CASE EndsOsc(s.p, b)
  BY <1>2, OscEnds DEF Settled
<1>3. CASE EndsCsi(s.p, b) \/ EndsEsc(s.p, b)
  BY <1>3, SeqPasses DEF Settled
<1>4. CASE EndsNone(s.p, b)
  BY <1>4, NoneEnds DEF Settled
<1>5. QED BY <1>1, <1>2, <1>3, <1>4 DEF EndsNone

LEMMA JoinTypes ==
  ASSUME NEW es \in Seq(Event), NEW e \in Event
  PROVE  Feed!Join(es, e) \in Seq(Event)
<1>1. CASE es # <<>> /\ es[Len(es)].kind = "output" /\ e.kind = "output"
  <2> DEFINE d == es[Len(es)]
             n == [d EXCEPT !.bytes = @ \o e.bytes]
  <2>1. Len(es) \in 1 .. Len(es)
    BY <1>1
  <2>2. d \in Event
    BY <2>1
  <2>3. d.bytes \in Seq(EchoByte) /\ e.bytes \in Seq(EchoByte)
    BY <2>2 DEF Event
  <2>4. d.bytes \o e.bytes \in Seq(EchoByte)
    BY <2>3
  <2>5. n \in Event
    BY <2>2, <2>4 DEF Event
  <2>6. Feed!Join(es, e) = [es EXCEPT ![Len(es)] = n]
    BY <1>1 DEF Feed!Join
  <2> HIDE DEF n
  <2>7. QED BY <2>1, <2>5, <2>6
<1>2. CASE ~(es # <<>> /\ es[Len(es)].kind = "output" /\ e.kind = "output")
  BY <1>2 DEF Feed!Join
<1>3. QED BY <1>1, <1>2

LEMMA StepsAre ==
  /\ IsStep(ByteStep, Midst, Bytes)
  /\ \A s \in Midst, b \in Bytes : ByteStep[<<s, b>>] = Feed!Step(s, b)
  /\ IsStep(JoinStep, Seq(Event), Event)
  /\ \A es \in Seq(Event), e \in Event : JoinStep[<<es, e>>] = Feed!Join(es, e)
<1>1. \A x \in Midst \X Bytes : Feed!Step(x[1], x[2]) \in Midst
  BY StepTypes
<1>2. \A x \in Seq(Event) \X Event : Feed!Join(x[1], x[2]) \in Seq(Event)
  BY JoinTypes
<1>3. IsStep(ByteStep, Midst, Bytes)
  BY <1>1 DEF ByteStep, IsStep
<1>4. IsStep(JoinStep, Seq(Event), Event)
  BY <1>2 DEF JoinStep, IsStep
<1>5. QED BY <1>3, <1>4 DEF ByteStep, JoinStep

\* One byte more is one step more.
LEMMA FeedFromSteps ==
  ASSUME NEW s \in Midst
  PROVE  /\ Feed!FeedFrom(s, <<>>) = s
         /\ \A c \in Seq(Bytes) : Feed!FeedFrom(s, c) \in Midst
         /\ \A c \in Seq(Bytes), b \in Bytes :
              Feed!FeedFrom(s, Append(c, b)) = Feed!Step(Feed!FeedFrom(s, c), b)
<1>1. ASSUME NEW c \in Seq(Bytes) PROVE Feed!FeedFrom(s, c) = End(ByteStep, s, c)
  <2> DEFINE Fed(a) == a = [k \in 0 .. Len(c) |-> IF k = 0 THEN s ELSE Feed!Step(a[k - 1], c[k])]
             a == CHOOSE a : Fed(a)
  <2>1. PICK r \in [0 .. Len(c) -> Midst] :
          r[0] = s /\ \A k \in 1 .. Len(c) : r[k] = ByteStep[<<r[k - 1], c[k]>>]
    BY StepsAre, FoldExists
  <2>2. \A k \in 1 .. Len(c) : r[k - 1] \in Midst /\ c[k] \in Bytes
    BY <2>1
  <2>3. \A k \in 1 .. Len(c) : r[k] = Feed!Step(r[k - 1], c[k])
    BY <2>1, <2>2, StepsAre
  <2>4. Fed(r)
    <3>1. r = [k \in 0 .. Len(c) |-> r[k]]
      BY <2>1
    <3>2. \A k \in 0 .. Len(c) : r[k] = IF k = 0 THEN s ELSE Feed!Step(r[k - 1], c[k])
      BY <2>1, <2>3
    <3>3. QED BY <3>1, <3>2
  <2>5. Fed(a)
    BY <2>4
  <2>6. Feed!FeedFrom(s, c) = a[Len(c)]
    BY DEF Feed!FeedFrom
  <2> DEFINE G == {k \in 0 .. Len(c) : a[k] = r[k]}
  <2>7. 0 .. Len(c) \subseteq G
    <3> HIDE DEF a
    <3>1. a[0] = s /\ \A k \in 1 .. Len(c) : a[k] = Feed!Step(a[k - 1], c[k])
      BY <2>5
    <3>2. 0 \in G
      BY <2>1, <3>1
    <3>3. ASSUME NEW k \in 1 .. Len(c), k - 1 \in G PROVE k \in G
      BY <2>3, <3>1, <3>3
    <3> HIDE DEF G
    <3>4. Len(c) \in Nat
      OBVIOUS
    <3>5. QED BY <3>2, <3>3, <3>4, Along
  <2>8. a[Len(c)] = r[Len(c)]
    BY <2>7
  <2>9. Run(ByteStep, s, c, r)
    BY <2>1 DEF Run
  <2>10. r[Len(c)] = End(ByteStep, s, c)
    BY <2>9, StepsAre, RunIs
  <2>11. QED BY <2>6, <2>8, <2>10
<1>2. /\ End(ByteStep, s, <<>>) = s
      /\ \A c \in Seq(Bytes) : End(ByteStep, s, c) \in Midst
      /\ \A c \in Seq(Bytes), b \in Bytes :
           End(ByteStep, s, Append(c, b)) = ByteStep[<<End(ByteStep, s, c), b>>]
  BY StepsAre, EndSteps
<1>3. ASSUME NEW c \in Seq(Bytes), NEW b \in Bytes
      PROVE  Feed!FeedFrom(s, Append(c, b)) = Feed!Step(Feed!FeedFrom(s, c), b)
  <2>1. Append(c, b) \in Seq(Bytes)
    OBVIOUS
  <2>2. End(ByteStep, s, Append(c, b)) = Feed!Step(End(ByteStep, s, c), b)
    BY <1>2, StepsAre
  <2>3. QED BY <1>1, <2>1, <2>2
<1>4. <<>> \in Seq(Bytes)
  OBVIOUS
<1>5. QED BY <1>1, <1>2, <1>3, <1>4

LEMMA JoinedSteps ==
  /\ Feed!Joined(<<>>) = <<>>
  /\ \A es \in Seq(Event) : Feed!Joined(es) \in Seq(Event)
  /\ \A es \in Seq(Event), e \in Event : Feed!Joined(Append(es, e)) = Feed!Join(Feed!Joined(es), e)
<1> DEFINE s == <<>>
<1>0. s \in Seq(Event)
  OBVIOUS
<1>1. ASSUME NEW c \in Seq(Event) PROVE Feed!Joined(c) = End(JoinStep, s, c)
  <2> DEFINE Fed(a) == a = [k \in 0 .. Len(c) |-> IF k = 0 THEN <<>> ELSE Feed!Join(a[k - 1], c[k])]
             a == CHOOSE a : Fed(a)
  <2>0. Feed!Joined(c) = a[Len(c)]
    BY DEF Feed!Joined
  <2> HIDE DEF s
  <2>1. PICK r \in [0 .. Len(c) -> Seq(Event)] :
          r[0] = s /\ \A k \in 1 .. Len(c) : r[k] = JoinStep[<<r[k - 1], c[k]>>]
    BY <1>0, StepsAre, FoldExists
  <2>2. \A k \in 1 .. Len(c) : r[k - 1] \in Seq(Event) /\ c[k] \in Event
    BY <2>1
  <2>3. \A k \in 1 .. Len(c) : r[k] = Feed!Join(r[k - 1], c[k])
    BY <2>1, <2>2, StepsAre
  <2>4. Fed(r)
    <3>1. r = [k \in 0 .. Len(c) |-> r[k]]
      BY <2>1
    <3>2. \A k \in 0 .. Len(c) : r[k] = IF k = 0 THEN <<>> ELSE Feed!Join(r[k - 1], c[k])
      BY <2>1, <2>3 DEF s
    <3>3. QED BY <3>1, <3>2
  <2>5. Fed(a)
    BY <2>4
  <2> DEFINE G == {k \in 0 .. Len(c) : a[k] = r[k]}
  <2>7. 0 .. Len(c) \subseteq G
    <3> HIDE DEF a
    <3>1. a[0] = <<>> /\ \A k \in 1 .. Len(c) : a[k] = Feed!Join(a[k - 1], c[k])
      BY <2>5
    <3>2. 0 \in G
      BY <2>1, <3>1 DEF s
    <3>3. ASSUME NEW k \in 1 .. Len(c), k - 1 \in G PROVE k \in G
      BY <2>3, <3>1, <3>3
    <3> HIDE DEF G
    <3>4. Len(c) \in Nat
      OBVIOUS
    <3>5. QED BY <3>2, <3>3, <3>4, Along
  <2>8. a[Len(c)] = r[Len(c)]
    BY <2>7
  <2>9. Run(JoinStep, s, c, r)
    BY <2>1 DEF Run
  <2>10. r[Len(c)] = End(JoinStep, s, c)
    BY <1>0, <2>9, StepsAre, RunIs
  <2>11. QED BY <2>0, <2>8, <2>10
<1> HIDE DEF s
<1>2. /\ End(JoinStep, s, <<>>) = s
      /\ \A c \in Seq(Event) : End(JoinStep, s, c) \in Seq(Event)
      /\ \A c \in Seq(Event), b \in Event :
           End(JoinStep, s, Append(c, b)) = JoinStep[<<End(JoinStep, s, c), b>>]
  BY <1>0, StepsAre, EndSteps
<1>3. ASSUME NEW c \in Seq(Event), NEW b \in Event
      PROVE  Feed!Joined(Append(c, b)) = Feed!Join(Feed!Joined(c), b)
  <2>1. Append(c, b) \in Seq(Event)
    OBVIOUS
  <2>2. End(JoinStep, s, Append(c, b)) = Feed!Join(End(JoinStep, s, c), b)
    BY <1>2, StepsAre
  <2>3. QED BY <1>1, <2>1, <2>2
<1>4. Feed!Joined(<<>>) = <<>>
  BY <1>0, <1>1, <1>2 DEF s
<1>5. QED BY <1>1, <1>2, <1>3, <1>4

-----------------------------------------------------------------------------
(***************************************************************************)
(* What joined events do not tell apart, they do not tell apart later.     *)
(***************************************************************************)

LEMMA CatEvents ==
  ASSUME NEW x \in Seq(Event), NEW y \in Seq(Event), NEW z \in Seq(Event)
  PROVE  /\ (x \o y) \o z = x \o (y \o z) /\ x \o y \in Seq(Event)
         /\ x \o <<>> = x /\ <<>> \o x = x /\ <<>> \in Seq(Event)
OBVIOUS

LEMMA JoinedGoesOn ==
  ASSUME NEW a \in Seq(Event), NEW b \in Seq(Event), NEW x \in Seq(Event),
         Feed!Joined(a) = Feed!Joined(b)
  PROVE  Feed!Joined(a \o x) = Feed!Joined(b \o x)
<1> DEFINE G == {y \in Seq(Event) : Feed!Joined(a \o y) = Feed!Joined(b \o y)}
<1>1. <<>> \in G
  <2>1. a \o <<>> = a /\ b \o <<>> = b /\ <<>> \in Seq(Event)
    OBVIOUS
  <2>2. QED BY <2>1
<1>2. ASSUME NEW y \in Seq(Event), NEW e \in Event, y \in G PROVE Append(y, e) \in G
  <2>1. a \o Append(y, e) = Append(a \o y, e) /\ b \o Append(y, e) = Append(b \o y, e)
    OBVIOUS
  <2>2. a \o y \in Seq(Event) /\ b \o y \in Seq(Event) /\ Append(y, e) \in Seq(Event)
    OBVIOUS
  <2>3. Feed!Joined(a \o y) = Feed!Joined(b \o y)
    BY <1>2
  <2>4. /\ Feed!Joined(Append(a \o y, e)) = Feed!Join(Feed!Joined(a \o y), e)
        /\ Feed!Joined(Append(b \o y, e)) = Feed!Join(Feed!Joined(b \o y), e)
    BY <2>2, JoinedSteps
  <2>5. QED BY <2>1, <2>2, <2>3, <2>4
<1>3. Seq(Event) \subseteq G
  <2> HIDE DEF G
  <2>1. QED BY <1>1, <1>2, SeqInduct
<1>4. QED BY <1>3

LEMMA AppendExcept ==
  ASSUME NEW es \in Seq(Event), NEW e \in Event, NEW d \in Event
  PROVE  [Append(es, e) EXCEPT ![Len(es) + 1] = d] = Append(es, d)
<1> DEFINE n == Len(es)
           f == Append(es, e)
           g == [f EXCEPT ![n + 1] = d]
           h == Append(es, d)
<1>1. n \in Nat /\ f \in Seq(Event) /\ h \in Seq(Event) /\ Len(f) = n + 1 /\ Len(h) = n + 1
  OBVIOUS
<1>2. /\ \A k \in 1 .. n : f[k] = es[k] /\ h[k] = es[k]
      /\ h[n + 1] = d
  OBVIOUS
<1>3. n + 1 \in 1 .. n + 1
  BY <1>1
<1> HIDE DEF n, f, h
<1>4. g \in Seq(Event) /\ Len(g) = n + 1 /\ \A k \in 1 .. n + 1 : g[k] = IF k = n + 1 THEN d ELSE f[k]
  BY <1>1, <1>3, ExceptSeq
<1> HIDE DEF g
<1>5. \A k \in 1 .. n + 1 : k # n + 1 => k \in 1 .. n
  BY <1>1
<1>6. \A k \in 1 .. n + 1 : g[k] = h[k]
  BY <1>2, <1>4, <1>5
<1>7. g = h
  BY <1>1, <1>4, <1>6, SeqEqual
<1>8. QED BY <1>7 DEF n, f, g, h

OutputOf(x) == [kind |-> "output", bytes |-> x]

\* An output in two pieces joins what is before it as one.
LEMMA JoinPieces ==
  ASSUME NEW es \in Seq(Event), NEW x \in Seq(EchoByte), NEW y \in Seq(EchoByte)
  PROVE  Feed!Join(Feed!Join(es, OutputOf(x)), OutputOf(y)) = Feed!Join(es, OutputOf(x \o y))
<1> DEFINE n == Len(es)
<1>0. n \in Nat
  OBVIOUS
<1>1. CASE es # <<>> /\ es[n].kind = "output"
  <2> DEFINE z == es[n].bytes
             E(w) == [kind |-> "output", bytes |-> w]
  <2>1. n \in 1 .. n
    BY <1>1
  <2>2. es[n] \in Event
    BY <2>1
  <2>3. z \in Seq(EchoByte) /\ es[n] = E(z)
    BY <1>1, <2>2 DEF Event
  <2>4. ASSUME NEW w \in Seq(EchoByte), NEW t \in Seq(EchoByte)
        PROVE  Feed!Join([es EXCEPT ![n] = E(t)], OutputOf(w)) = [es EXCEPT ![n] = E(t \o w)]
    <3> DEFINE f == [es EXCEPT ![n] = E(t)]
    <3>1. Len(f) = n /\ f[n] = E(t) /\ f # <<>>
      BY <2>1
    <3>2. [f EXCEPT ![n] = E(t \o w)] = [es EXCEPT ![n] = E(t \o w)]
      BY <2>1
    <3> HIDE DEF f
    <3>3. Feed!Join(f, OutputOf(w)) = [f EXCEPT ![n].bytes = @ \o w]
      BY <3>1 DEF Feed!Join, OutputOf
    <3>4. [f EXCEPT ![n].bytes = @ \o w] = [f EXCEPT ![n] = [f[n] EXCEPT !.bytes = @ \o w]]
      OBVIOUS
    <3>5. [f[n] EXCEPT !.bytes = @ \o w] = E(t \o w)
      <4>1. E(t).bytes = t
        OBVIOUS
      <4>2. \A u : [E(t) EXCEPT !.bytes = u] = E(u)
        OBVIOUS
      <4> HIDE DEF E
      <4>3. QED BY <3>1, <4>1, <4>2, Zenon
    <3>6. QED BY <3>2, <3>3, <3>4, <3>5, Zenon DEF f
  <2>5. [es EXCEPT ![n] = E(z)] = es
    BY <2>1, <2>3
  <2>6. z \o x \in Seq(EchoByte) /\ x \o y \in Seq(EchoByte) /\ (z \o x) \o y = z \o (x \o y)
    <3> HIDE DEF z
    <3>1. z \in Seq(EchoByte)
      BY <2>3
    <3>2. z \o x \in Seq(EchoByte) /\ x \o y \in Seq(EchoByte)
      BY <3>1, EchoTypes
    <3>3. (z \o x) \o y = z \o (x \o y)
      BY <3>1, MoreBytes
    <3>4. QED BY <3>2, <3>3
  <2> HIDE DEF z, n, E
  <2>7. Feed!Join(es, OutputOf(x)) = [es EXCEPT ![n] = E(z \o x)]
    BY <2>3, <2>4, <2>5
  <2>8. Feed!Join(es, OutputOf(x \o y)) = [es EXCEPT ![n] = E(z \o (x \o y))]
    BY <2>3, <2>4, <2>5, <2>6
  <2>9. Feed!Join([es EXCEPT ![n] = E(z \o x)], OutputOf(y)) = [es EXCEPT ![n] = E((z \o x) \o y)]
    BY <2>4, <2>6
  <2>10. QED BY <2>6, <2>7, <2>8, <2>9
<1>2. CASE ~(es # <<>> /\ es[n].kind = "output")
  <2>1. \A w : Feed!Join(es, OutputOf(w)) = Append(es, OutputOf(w))
    BY <1>2 DEF Feed!Join
  <2> DEFINE f == Append(es, OutputOf(x))
             e == OutputOf(x)
             d == OutputOf(x \o y)
  <2>2. f # <<>> /\ Len(f) = n + 1 /\ f[n + 1] = e
    BY <1>0
  <2>3. e.kind = "output" /\ e.bytes = x /\ [e EXCEPT !.bytes = x \o y] = d
    <3>1. e.kind = "output" /\ e.bytes = x
      BY DEF OutputOf
    <3> DEFINE w == x \o y
    <3>2. [e EXCEPT !.bytes = w] = OutputOf(w)
      <4> HIDE DEF w
      <4>1. QED BY DEF OutputOf
    <3>3. QED BY <3>1, <3>2
  <2>4. Feed!Join(f, OutputOf(y)) = [f EXCEPT ![n + 1].bytes = @ \o y]
    <3> HIDE DEF f, e
    <3>1. QED BY <2>2, <2>3 DEF Feed!Join, OutputOf
  <2>5. [f EXCEPT ![n + 1].bytes = @ \o y] = [f EXCEPT ![n + 1] = d]
    <3> HIDE DEF f, e, d
    <3>1. [f EXCEPT ![n + 1].bytes = @ \o y] = [f EXCEPT ![n + 1] = [f[n + 1] EXCEPT !.bytes = @ \o y]]
      OBVIOUS
    <3>2. [f[n + 1] EXCEPT !.bytes = @ \o y] = d
      BY <2>2, <2>3
    <3>3. QED BY <3>1, <3>2, Zenon
  <2>6. e \in Event /\ d \in Event
    BY EchoTypes DEF OutputOf, Event
  <2>7. [f EXCEPT ![n + 1] = d] = Append(es, d)
    <3>1. f = Append(es, e)
      OBVIOUS
    <3> HIDE DEF f, e, d
    <3>2. QED BY <2>6, <3>1, AppendExcept
  <2> HIDE DEF f, e, d
  <2>8. QED BY <2>1, <2>4, <2>5, <2>7 DEF f, e, d
<1>3. QED BY <1>1, <1>2

LEMMA OutputPieces ==
  ASSUME NEW a \in Seq(Event), NEW o \in Seq(Bytes), NEW x \in Seq(Bytes)
  PROVE  Feed!Joined(a \o Feed!Output(o \o x)) = Feed!Joined((a \o Feed!Output(o)) \o Feed!Output(x))
<1>1. /\ o \o x \in Seq(Bytes) /\ o \in Seq(EchoByte) /\ x \in Seq(EchoByte) /\ o \o x \in Seq(EchoByte)
      /\ <<>> \in Seq(Bytes)
  BY ByteTypes
<1>2. Feed!Output(o) \in Seq(Event) /\ Feed!Output(x) \in Seq(Event)
  BY OutputType
<1>3. CASE x = <<>>
  <2>1. o \o x = o /\ Feed!Output(x) = <<>>
    BY <1>3 DEF Feed!Output
  <2>2. (a \o Feed!Output(o)) \o <<>> = a \o Feed!Output(o)
    BY <1>2
  <2>3. QED BY <2>1, <2>2
<1>4. CASE o = <<>>
  <2>1. o \o x = x /\ Feed!Output(o) = <<>>
    BY <1>4 DEF Feed!Output
  <2>2. a \o <<>> = a
    OBVIOUS
  <2>3. QED BY <2>1, <2>2
<1>5. CASE x # <<>> /\ o # <<>>
  <2>1. o \o x # <<>>
    BY <1>5
  <2>2. /\ Feed!Output(o) = <<OutputOf(o)>> /\ Feed!Output(x) = <<OutputOf(x)>>
        /\ Feed!Output(o \o x) = <<OutputOf(o \o x)>>
    BY <1>5, <2>1 DEF Feed!Output, OutputOf
  <2>3. OutputOf(o) \in Event /\ OutputOf(x) \in Event /\ OutputOf(o \o x) \in Event
    BY <1>1 DEF OutputOf, Event
  <2>4. ASSUME NEW b \in Seq(Event), NEW e \in Event
        PROVE  b \o <<e>> = Append(b, e) /\ Append(b, e) \in Seq(Event)
               /\ Feed!Joined(Append(b, e)) = Feed!Join(Feed!Joined(b), e)
    BY JoinedSteps
  <2>5. Feed!Joined(a \o <<OutputOf(o \o x)>>) = Feed!Join(Feed!Joined(a), OutputOf(o \o x))
    BY <2>3, <2>4
  <2>6. /\ a \o <<OutputOf(o)>> \in Seq(Event)
        /\ Feed!Joined(a \o <<OutputOf(o)>>) = Feed!Join(Feed!Joined(a), OutputOf(o))
    BY <2>3, <2>4
  <2>7. Feed!Joined((a \o <<OutputOf(o)>>) \o <<OutputOf(x)>>)
          = Feed!Join(Feed!Joined(a \o <<OutputOf(o)>>), OutputOf(x))
    BY <2>3, <2>4, <2>6
  <2>8. Feed!Joined(a) \in Seq(Event)
    BY JoinedSteps
  <2>9. QED BY <1>1, <2>2, <2>5, <2>6, <2>7, <2>8, JoinPieces
<1>6. QED BY <1>3, <1>4, <1>5

LEMMA OutputGoesOn ==
  ASSUME NEW a \in Seq(Event), NEW b \in Seq(Event),
         NEW o \in Seq(Bytes), NEW q \in Seq(Bytes), NEW x \in Seq(Bytes),
         Feed!Joined(a \o Feed!Output(o)) = Feed!Joined(b \o Feed!Output(q))
  PROVE  Feed!Joined(a \o Feed!Output(o \o x)) = Feed!Joined(b \o Feed!Output(q \o x))
<1>1. /\ Feed!Output(o) \in Seq(Event) /\ Feed!Output(q) \in Seq(Event)
      /\ Feed!Output(x) \in Seq(Event)
  BY OutputType
<1>2. a \o Feed!Output(o) \in Seq(Event) /\ b \o Feed!Output(q) \in Seq(Event)
  BY <1>1
<1>3. Feed!Joined((a \o Feed!Output(o)) \o Feed!Output(x))
        = Feed!Joined((b \o Feed!Output(q)) \o Feed!Output(x))
  BY <1>1, <1>2, JoinedGoesOn
<1>4. QED BY <1>3, OutputPieces

-----------------------------------------------------------------------------
(***************************************************************************)
(* Two parsers that Forget makes the same go on alike.                     *)
(***************************************************************************)

Twins(q, r) ==
  /\ Alike(q, r) /\ q.st = r.st
  /\ q.st \in {"osc", "oscEsc"} => q.osc = r.osc
  /\ q.st = "csi" => q.csi = r.csi

LEMMA ForgetIs ==
  ASSUME NEW q \in ParserState
  PROVE  LET f == Feed!Forget(q) IN
         /\ f \in ParserState /\ Alike(f, q) /\ f.st = q.st
         /\ f.osc = IF q.st \in {"osc", "oscEsc"} THEN q.osc ELSE <<>>
         /\ f.csi = IF q.st = "csi" THEN q.csi ELSE <<>>
<1>1. <<>> \in Seq(Bytes)
  OBVIOUS
<1>2. Feed!Forget(q) \in ParserState
  BY <1>1 DEF Feed!Forget, ParserState
<1>3. QED BY <1>2 DEF Feed!Forget, ParserState, Alike, SameRest

LEMMA ForgetTwins ==
  ASSUME NEW q \in ParserState, NEW r \in ParserState
  PROVE  /\ Twins(q, r) => Feed!Forget(q) = Feed!Forget(r)
         /\ Twins(q, Feed!Forget(q)) /\ Feed!Forget(q) \in ParserState
<1> DEFINE f == Feed!Forget(q)
           g == Feed!Forget(r)
<1>1. /\ f \in ParserState /\ Alike(f, q) /\ f.st = q.st
      /\ f.osc = IF q.st \in {"osc", "oscEsc"} THEN q.osc ELSE <<>>
      /\ f.csi = IF q.st = "csi" THEN q.csi ELSE <<>>
  BY ForgetIs
<1>2. /\ g \in ParserState /\ Alike(g, r) /\ g.st = r.st
      /\ g.osc = IF r.st \in {"osc", "oscEsc"} THEN r.osc ELSE <<>>
      /\ g.csi = IF r.st = "csi" THEN r.csi ELSE <<>>
  BY ForgetIs
<1> HIDE DEF f, g
<1>3. Twins(q, f)
  BY <1>1 DEF Twins, Alike, SameRest
<1>4. ASSUME Twins(q, r) PROVE f = g
  <2>1. SameRest(f, g) /\ f.over = g.over /\ f.echo = g.echo /\ f.st = g.st
    BY <1>1, <1>2, <1>4, Zenon DEF Twins, Alike, SameRest
  <2>2. f.osc = g.osc /\ f.csi = g.csi
    BY <1>1, <1>2, <1>4 DEF Twins
  <2>3. QED BY <1>1, <1>2, <2>1, <2>2, SameParser
<1>5. QED BY <1>1, <1>3, <1>4 DEF f, g

LEMMA NormTwins ==
  ASSUME NEW q \in ParserState, NEW r \in ParserState, Alike(q, r)
  PROVE  Twins([q EXCEPT !.st = "norm"], [r EXCEPT !.st = "norm"])
BY DEF Twins, Alike, SameRest, ParserState

LEMMA TwinsEnd ==
  ASSUME NEW q \in ParserState, NEW r \in ParserState, NEW b \in Bytes, Twins(q, r)
  PROVE  /\ IsText(q, b) <=> IsText(r, b)
         /\ EndsOsc(q, b) <=> EndsOsc(r, b)
         /\ EndsCsi(q, b) <=> EndsCsi(r, b)
         /\ EndsEsc(q, b) <=> EndsEsc(r, b)
         /\ EndsNone(q, b) <=> EndsNone(r, b)
BY Zenon DEF Twins, IsText, EndsOsc, EndsCsi, EndsEsc, EndsNone

LEMMA TwinsPass ==
  ASSUME NEW q \in ParserState, NEW r \in ParserState, NEW b \in Bytes, Twins(q, r),
         EndsCsi(q, b) \/ EndsEsc(q, b), Passer(q, b) \in ParserState, Passer(r, b) \in ParserState
  PROVE  Alike(Passer(q, b), Passer(r, b)) /\ PassedOn(q, b) = PassedOn(r, b)
<1>1. CASE EndsCsi(q, b)
  <2> DEFINE g == Grown(q, b)
             h == Grown(r, b)
  <2>1. EndsCsi(r, b) /\ q.csi = r.csi /\ Alike(q, r)
    BY <1>1, TwinsEnd DEF Twins, EndsCsi
  <2>2. Passer(q, b) = Feed!HandleCSI(g) /\ Passer(r, b) = Feed!HandleCSI(h)
    BY <1>1, <2>1, Zenon DEF Passer
  <2>3. PassedOn(q, b) = PassedOn(r, b)
    BY <1>1, <2>1, Zenon DEF PassedOn
  <2>4. Append(q.csi, b) \in Seq(Bytes) /\ Append(r.csi, b) \in Seq(Bytes)
    BY DEF ParserState
  <2>5. g \in ParserState /\ h \in ParserState
    BY <2>4 DEF Grown, ParserState
  <2>6. g.csi = h.csi /\ Alike(g, h)
    BY <2>1 DEF Grown, ParserState, Alike, SameRest
  <2> HIDE DEF g, h
  <2>7. Alike(Feed!HandleCSI(g), Feed!HandleCSI(h))
    BY <2>5, <2>6 DEF Feed!HandleCSI, ParserState, Alike, SameRest
  <2>8. QED BY <2>2, <2>3, <2>7
<1>2. CASE ~EndsCsi(q, b)
  <2>1. ~EndsCsi(r, b) /\ Alike(q, r)
    BY <1>2, TwinsEnd DEF Twins
  <2>2. QED BY <1>2, <2>1, Zenon DEF Passer, PassedOn
<1>3. QED BY <1>1, <1>2

LEMMA TwinsWithin ==
  ASSUME NEW q \in ParserState, NEW r \in ParserState, NEW b \in Bytes, Twins(q, r), EndsNone(q, b)
  PROVE  Twins(Within(q, b), Within(r, b))
<1>1. Alike(q, r) /\ q.st = r.st /\ q.st \in {"norm", "esc", "osc", "oscEsc", "csi"}
  BY DEF Twins, ParserState
<1>2. CASE q.st = "norm"
  BY <1>1, <1>2 DEF Within, Twins, Alike, SameRest, ParserState
<1>3. CASE q.st = "esc"
  BY <1>1, <1>3 DEF Within, Twins, Alike, SameRest, ParserState
<1>4. CASE q.st = "osc"
  <2>1. q.osc = r.osc
    BY <1>4 DEF Twins
  <2>2. CASE b = Feed!ESC
    BY <1>1, <1>4, <2>1, <2>2 DEF Within, Twins, Alike, SameRest, ParserState
  <2>3. CASE b # Feed!ESC /\ Len(q.osc) < MaxSeqLen
    BY <1>1, <1>4, <2>1, <2>3 DEF Within, Twins, Alike, SameRest, ParserState
  <2>4. CASE b # Feed!ESC /\ ~(Len(q.osc) < MaxSeqLen)
    <3>1. Within(q, b) = q /\ Within(r, b) = r
      BY <1>1, <1>4, <2>1, <2>4 DEF Within
    <3>2. QED BY <3>1
  <2>5. QED BY <2>2, <2>3, <2>4
<1>5. CASE q.st = "oscEsc"
  <2>1. q.osc = r.osc
    BY <1>5 DEF Twins
  <2>2. QED BY <1>1, <1>5, <2>1 DEF Within, Twins, Alike, SameRest, ParserState
<1>6. CASE q.st = "csi"
  <2> DEFINE g == Grown(q, b)
             h == Grown(r, b)
             st == IF Len(Append(q.csi, b)) > MaxSeqLen THEN "norm" ELSE "csi"
  <2>1. q.csi = r.csi
    BY <1>6 DEF Twins
  <2>2. Append(q.csi, b) \in Seq(Bytes) /\ Append(r.csi, b) \in Seq(Bytes)
    BY DEF ParserState
  <2>3. g \in ParserState /\ h \in ParserState
    BY <2>2 DEF Grown, ParserState
  <2>4. g.csi = h.csi /\ Alike(g, h)
    BY <1>1, <2>1 DEF Grown, ParserState, Alike, SameRest
  <2>5. Within(q, b) = [g EXCEPT !.st = st] /\ Within(r, b) = [h EXCEPT !.st = st]
    BY <1>1, <1>6, <2>1 DEF Within
  <2>6. st \in {"norm", "csi"}
    OBVIOUS
  <2> HIDE DEF g, h, st
  <2>7. Twins([g EXCEPT !.st = st], [h EXCEPT !.st = st])
    BY <2>3, <2>4, <2>6 DEF Twins, Alike, SameRest, ParserState
  <2>8. QED BY <2>5, <2>7
<1>7. QED BY <1>1, <1>2, <1>3, <1>4, <1>5, <1>6

-----------------------------------------------------------------------------
(***************************************************************************)
(* A chunk has the effect of its pieces.                                   *)
(***************************************************************************)

\* What the events show, of a parser in the midst of a chunk, after those of
\* the chunks before it.
Shown(pre, s) == Feed!Joined(pre \o (s.ev \o Feed!Output(s.out)))

\* Two of them that show the same and whose parsers are twins.
Same(pre, s, t) ==
  /\ Twins(Feed!EmitText(s).p, Feed!EmitText(t).p)
  /\ Shown(<<>>, Feed!EmitText(s)) = Shown(pre, Feed!EmitText(t))

LEMMA MidstTypes ==
  ASSUME NEW s \in Midst
  PROVE  /\ s.p \in ParserState /\ s.ev \in Seq(Event) /\ s.out \in Seq(Bytes)
         /\ Feed!Output(s.out) \in Seq(Event)
         /\ Feed!EmitText(s) \in Midst
BY OutputType, EmitTextIs DEF Midst, Settled

\* From s to u more output came, or events did.
More(s, u, x) == u.ev = s.ev /\ u.out = s.out \o x
Then(s, u, x) == u.ev = s.ev \o Feed!Output(s.out) \o x /\ u.out = <<>>

\* What emits bytes, and what ends with events, shows so much more.
LEMMA ShownPass ==
  ASSUME NEW s, NEW t, NEW u, NEW w, NEW x, NEW pre,
         s \in Midst, t \in Midst, x \in Seq(Bytes), pre \in Seq(Event),
         Shown(<<>>, s) = Shown(pre, t), More(s, u, x), More(t, w, x)
  PROVE  Shown(<<>>, u) = Shown(pre, w)
<1> DEFINE a == s.ev
           b == t.ev
           o == s.out
           q == t.out
           m == Feed!Output(o)
           n == Feed!Output(q)
           h == Feed!Output(o \o x)
           j == Feed!Output(q \o x)
<1>1. /\ a \in Seq(Event) /\ b \in Seq(Event) /\ o \in Seq(Bytes) /\ q \in Seq(Bytes)
  BY MidstTypes
<1>2. o \o x \in Seq(Bytes) /\ q \o x \in Seq(Bytes)
  BY <1>1
<1>3. m \in Seq(Event) /\ n \in Seq(Event) /\ h \in Seq(Event) /\ j \in Seq(Event)
  BY <1>1, <1>2, OutputType
<1>4. /\ Feed!Joined(<<>> \o (a \o m)) = Feed!Joined(pre \o (b \o n))
      /\ Shown(<<>>, u) = Feed!Joined(<<>> \o (a \o h))
      /\ Shown(pre, w) = Feed!Joined(pre \o (b \o j))
  BY DEF Shown, More
<1> HIDE DEF a, b, m, n, h, j, o, q
<1>5. pre \o b \in Seq(Event) /\ a \o m \in Seq(Event) /\ a \o h \in Seq(Event)
  BY <1>1, <1>3, CatEvents
<1>6. <<>> \o (a \o m) = a \o m /\ <<>> \o (a \o h) = a \o h
  BY <1>5, CatEvents
<1>7. pre \o (b \o n) = (pre \o b) \o n /\ pre \o (b \o j) = (pre \o b) \o j
  <2>1. \A y, z \in Seq(Event) : pre \o (y \o z) = (pre \o y) \o z
    BY CatEvents
  <2>2. QED BY <1>1, <1>3, <2>1, Zenon
<1>8. Feed!Joined(a \o m) = Feed!Joined((pre \o b) \o n)
  BY <1>4, <1>6, <1>7, Zenon
<1>9. Feed!Joined(a \o h) = Feed!Joined((pre \o b) \o j)
  <2>1. Feed!Joined(a \o Feed!Output(o)) = Feed!Joined((pre \o b) \o Feed!Output(q))
    BY <1>8, Zenon DEF m, n
  <2>2. Feed!Joined(a \o Feed!Output(o \o x)) = Feed!Joined((pre \o b) \o Feed!Output(q \o x))
    <3> DEFINE c == pre \o b
    <3>1. c \in Seq(Event) /\ Feed!Joined(a \o Feed!Output(o)) = Feed!Joined(c \o Feed!Output(q))
      BY <1>5, <2>1
    <3> HIDE DEF c
    <3>2. Feed!Joined(a \o Feed!Output(o \o x)) = Feed!Joined(c \o Feed!Output(q \o x))
      BY <1>1, <3>1, OutputGoesOn, SMTT(30)
    <3>3. QED BY <3>2 DEF c
  <2>3. QED BY <2>2, Zenon DEF h, j
<1>10. QED BY <1>4, <1>6, <1>7, <1>9, Zenon

LEMMA ShownEnd ==
  ASSUME NEW s, NEW t, NEW u, NEW w, NEW x, NEW pre,
         s \in Midst, t \in Midst, x \in Seq(Event), pre \in Seq(Event),
         Shown(<<>>, s) = Shown(pre, t), Then(s, u, x), Then(t, w, x)
  PROVE  Shown(<<>>, u) = Shown(pre, w)
<1> DEFINE a == s.ev \o Feed!Output(s.out)
           b == t.ev \o Feed!Output(t.out)
<1>1. a \in Seq(Event) /\ b \in Seq(Event)
  BY MidstTypes, CatEvents
<1>2. Feed!Output(<<>>) = <<>>
  BY DEF Feed!Output
<1>3. Feed!Joined(<<>> \o a) = Feed!Joined(pre \o b)
  BY DEF Shown
<1>4. Shown(<<>>, u) = Feed!Joined(<<>> \o ((a \o x) \o <<>>))
      /\ Shown(pre, w) = Feed!Joined(pre \o ((b \o x) \o <<>>))
  BY <1>2 DEF Shown, Then
<1> HIDE DEF a, b
<1>5. <<>> \o a = a /\ pre \o b \in Seq(Event) /\ a \o x \in Seq(Event) /\ b \o x \in Seq(Event)
  BY <1>1, CatEvents
<1>6. Feed!Joined(a) = Feed!Joined(pre \o b)
  BY <1>3, <1>5, Zenon
<1>7. Feed!Joined(a \o x) = Feed!Joined((pre \o b) \o x)
  BY <1>1, <1>5, <1>6, JoinedGoesOn, Zenon
<1>8. <<>> \o ((a \o x) \o <<>>) = a \o x /\ pre \o ((b \o x) \o <<>>) = (pre \o b) \o x
  BY <1>1, <1>5, CatEvents
<1>9. QED BY <1>4, <1>7, <1>8, Zenon

LEMMA SameGoesOn ==
  ASSUME NEW s \in Midst, NEW t \in Midst, NEW pre \in Seq(Event), NEW b \in Bytes, Same(pre, s, t)
  PROVE  Same(pre, Feed!Step(s, b), Feed!Step(t, b))
<1> DEFINE e == Feed!EmitText(s)
           f == Feed!EmitText(t)
           u == Feed!EmitText(Feed!Step(s, b))
           y == Feed!EmitText(Feed!Step(t, b))
<1>1. e \in Midst /\ f \in Midst /\ u \in Midst /\ y \in Midst
  BY MidstTypes, StepTypes
<1>2. e.p \in ParserState /\ f.p \in ParserState
  BY <1>1, MidstTypes
<1>3. Twins(e.p, f.p) /\ Shown(<<>>, e) = Shown(pre, f)
  BY DEF Same
<1>4. e.p.st = s.p.st /\ f.p.st = t.p.st
  <2>1. s.p \in ParserState /\ t.p \in ParserState /\ s.text \in Seq(Bytes) /\ t.text \in Seq(Bytes)
    BY DEF Midst
  <2>2. s.text \in Seq(EchoByte) /\ t.text \in Seq(EchoByte)
    BY <2>1, ByteTypes
  <2>3. e.p = EmitP(s.p, s.text) /\ f.p = EmitP(t.p, t.text)
    BY EmitTextIs
  <2>4. EmitP(s.p, s.text).st = s.p.st /\ EmitP(t.p, t.text).st = t.p.st
    BY <2>1, <2>2, EmitPTypes
  <2>5. QED BY <2>3, <2>4
<1>5. SUFFICES Twins(u.p, y.p) /\ Shown(<<>>, u) = Shown(pre, y)
  BY DEF Same
<1>6. ASSUME NEW w \in Midst, w.p.st # "norm"
      PROVE  Feed!EmitText(w).p = w.p /\ Feed!EmitText(w).ev = w.ev /\ Feed!EmitText(w).out = w.out
  BY <1>6, EmitTextIs DEF Midst
<1>7. ASSUME NEW w \in Settled
      PROVE  Feed!EmitText(w).p = w.p /\ Feed!EmitText(w).ev = w.ev /\ Feed!EmitText(w).out = w.out
  BY EmitTextIs DEF Settled
<1>8. CASE IsText(s.p, b)
  <2>1. IsText(e.p, b) /\ IsText(f.p, b) /\ IsText(t.p, b)
    BY <1>2, <1>3, <1>4, <1>8, TwinsEnd DEF IsText
  <2>2. u.p = EmitP(e.p, <<b>>) /\ u.ev = e.ev /\ u.out = e.out \o EmitOut(e.p, <<b>>)
    BY <1>8, TextPasses
  <2>3. y.p = EmitP(f.p, <<b>>) /\ y.ev = f.ev /\ y.out = f.out \o EmitOut(f.p, <<b>>)
    BY <2>1, TextPasses
  <2>4. <<b>> \in Seq(EchoByte) /\ <<b>> \in Seq(Bytes) /\ <<>> \in Seq(Bytes)
    BY ByteTypes
  <2>5. Alike(e.p, f.p)
    BY <1>3 DEF Twins
  <2>6. Alike(EmitP(e.p, <<b>>), EmitP(f.p, <<b>>)) /\ EmitOut(e.p, <<b>>) = EmitOut(f.p, <<b>>)
    <3> DEFINE z == <<b>>
    <3>1. z \in Seq(EchoByte)
      BY <2>4
    <3> HIDE DEF z, e, f
    <3>2. Alike(EmitP(e.p, z), EmitP(f.p, z)) /\ EmitOut(e.p, z) = EmitOut(f.p, z)
      BY <1>2, <2>5, <3>1, AlikeEmits
    <3>3. QED BY <3>2 DEF z
  <2>7. EmitP(e.p, <<b>>).st = "norm" /\ EmitP(f.p, <<b>>).st = "norm"
    BY <1>2, <2>1, <2>4, EmitPTypes DEF IsText
  <2>8. Twins(u.p, y.p)
    BY <2>2, <2>3, <2>6, <2>7 DEF Twins
  <2>9. EmitOut(e.p, <<b>>) \in Seq(Bytes)
    BY <2>4 DEF EmitOut
  <2> HIDE DEF e, f, u, y
  <2>10. Shown(<<>>, u) = Shown(pre, y)
    <3> DEFINE x == EmitOut(e.p, <<b>>)
    <3>1. x \in Seq(Bytes) /\ More(e, u, x) /\ More(f, y, x)
      BY <2>2, <2>3, <2>6, <2>9, Zenon DEF More
    <3> HIDE DEF x
    <3>2. QED BY <1>1, <1>3, <3>1, ShownPass, SMTT(30)
  <2>11. QED BY <2>8, <2>10
<1>9. CASE EndsOsc(s.p, b)
  <2>1. /\ e.p = s.p /\ e.ev = s.ev /\ e.out = s.out
        /\ f.p = t.p /\ f.ev = t.ev /\ f.out = t.out
    BY <1>3, <1>4, <1>6, <1>9 DEF EndsOsc, Twins
  <2>2. EndsOsc(t.p, b)
    BY <1>2, <1>3, <1>9, <2>1, TwinsEnd
  <2> DEFINE h == Feed!HandleOSC(s.p)
             g == Feed!HandleOSC(t.p)
  <2>3. /\ u.p = [h.p EXCEPT !.st = "norm"]
        /\ u.ev = s.ev \o Feed!Output(s.out) \o h.ev /\ u.out = <<>>
    <3> DEFINE w == Feed!Step(s, b)
    <3>1. /\ w \in Settled /\ w.p = [h.p EXCEPT !.st = "norm"] /\ w.out = <<>>
          /\ w.ev = s.ev \o Feed!Output(s.out) \o h.ev
      BY <1>9, OscEnds
    <3>2. u = Feed!EmitText(w)
      OBVIOUS
    <3> HIDE DEF w, h, u
    <3>3. QED BY <1>7, <3>1, <3>2, Zenon
  <2>4. /\ y.p = [g.p EXCEPT !.st = "norm"]
        /\ y.ev = t.ev \o Feed!Output(t.out) \o g.ev /\ y.out = <<>>
    <3> DEFINE w == Feed!Step(t, b)
    <3>1. /\ w \in Settled /\ w.p = [g.p EXCEPT !.st = "norm"] /\ w.out = <<>>
          /\ w.ev = t.ev \o Feed!Output(t.out) \o g.ev
      BY <2>2, OscEnds
    <3>2. y = Feed!EmitText(w)
      OBVIOUS
    <3> HIDE DEF w, g, y
    <3>3. QED BY <1>7, <3>1, <3>2, Zenon
  <2>5. Alike(s.p, t.p) /\ s.p.osc = t.p.osc
    BY <1>3, <1>9, <2>1 DEF Twins, EndsOsc
  <2>6. /\ h.p \in ParserState /\ h.ev \in Seq(Event) /\ Alike(h.p, g.p) /\ h.ev = g.ev
    BY <1>2, <2>1, <2>5, HandleOSCIs
  <2>7. g.p \in ParserState
    BY <1>2, <2>1, HandleOSCIs DEF Alike, SameRest
  <2> HIDE DEF h, g, e, f, u, y
  <2>8. Twins(u.p, y.p)
    BY <2>3, <2>4, <2>6, <2>7, NormTwins
  <2>9. Shown(<<>>, u) = Shown(pre, y)
    <3>1. Shown(<<>>, s) = Shown(pre, t)
      BY <1>3, <2>1 DEF Shown
    <3> DEFINE x == h.ev
    <3>2. x \in Seq(Event) /\ Then(s, u, x) /\ Then(t, y, x)
      BY <2>3, <2>4, <2>6, Zenon DEF Then
    <3> HIDE DEF x
    <3>3. QED BY <3>1, <3>2, ShownEnd, SMTT(30)
  <2>10. QED BY <2>8, <2>9
<1>10. CASE EndsCsi(s.p, b) \/ EndsEsc(s.p, b)
  <2>1. /\ e.p = s.p /\ e.ev = s.ev /\ e.out = s.out
        /\ f.p = t.p /\ f.ev = t.ev /\ f.out = t.out
    BY <1>3, <1>4, <1>6, <1>10 DEF EndsCsi, EndsEsc, Twins
  <2>2. EndsCsi(t.p, b) \/ EndsEsc(t.p, b)
    BY <1>2, <1>3, <1>10, <2>1, TwinsEnd
  <2> DEFINE q == Passer(s.p, b)
             r == Passer(t.p, b)
             x == PassedOn(s.p, b)
  <2>3. /\ q \in ParserState /\ x \in Seq(Bytes)
        /\ u.p = [EmitP(q, x) EXCEPT !.st = "norm"]
        /\ u.ev = s.ev /\ u.out = s.out \o EmitOut(q, x)
    <3> DEFINE w == Feed!Step(s, b)
    <3>1. /\ w \in Settled /\ q \in ParserState /\ x \in Seq(Bytes)
          /\ w.p = [EmitP(q, x) EXCEPT !.st = "norm"]
          /\ w.ev = s.ev /\ w.out = s.out \o EmitOut(q, x)
      BY <1>10, SeqPasses
    <3>2. u = Feed!EmitText(w)
      OBVIOUS
    <3> HIDE DEF w, q, x, u
    <3>3. QED BY <1>7, <3>1, <3>2, Zenon
  <2>4. /\ r \in ParserState
        /\ y.p = [EmitP(r, PassedOn(t.p, b)) EXCEPT !.st = "norm"]
        /\ y.ev = t.ev /\ y.out = t.out \o EmitOut(r, PassedOn(t.p, b))
    <3> DEFINE w == Feed!Step(t, b)
               z == PassedOn(t.p, b)
    <3>1. /\ w \in Settled /\ r \in ParserState
          /\ w.p = [EmitP(r, z) EXCEPT !.st = "norm"]
          /\ w.ev = t.ev /\ w.out = t.out \o EmitOut(r, z)
      BY <2>2, SeqPasses
    <3>2. y = Feed!EmitText(w)
      OBVIOUS
    <3> HIDE DEF w, r, z, y
    <3>3. r \in ParserState /\ y.p = [EmitP(r, z) EXCEPT !.st = "norm"]
          /\ y.ev = t.ev /\ y.out = t.out \o EmitOut(r, z)
      BY <1>7, <3>1, <3>2, Zenon
    <3>4. QED BY <3>3 DEF z
  <2>5. Alike(q, r) /\ x = PassedOn(t.p, b)
    BY <1>2, <1>3, <1>10, <2>1, <2>3, <2>4, TwinsPass
  <2> HIDE DEF q, r, x, e, f, u, y
  <2>6. x \in Seq(EchoByte)
    BY <2>3, ByteTypes
  <2>7. Alike(EmitP(q, x), EmitP(r, x)) /\ EmitOut(q, x) = EmitOut(r, x)
    BY <2>3, <2>4, <2>5, <2>6, AlikeEmits
  <2>8. EmitP(q, x) \in ParserState /\ EmitP(r, x) \in ParserState
    BY <2>3, <2>4, <2>6, EmitPTypes
  <2>9. Twins(u.p, y.p)
    BY <2>3, <2>4, <2>5, <2>7, <2>8, NormTwins
  <2>10. EmitOut(q, x) \in Seq(Bytes)
    BY <2>3 DEF EmitOut
  <2>11. Shown(<<>>, u) = Shown(pre, y)
    <3>1. Shown(<<>>, s) = Shown(pre, t)
      BY <1>3, <2>1 DEF Shown
    <3> DEFINE z == EmitOut(q, x)
    <3>2. z \in Seq(Bytes) /\ More(s, u, z) /\ More(t, y, z)
      BY <2>3, <2>4, <2>5, <2>7, <2>10, Zenon DEF More
    <3> HIDE DEF z
    <3>3. QED BY <3>1, <3>2, ShownPass, SMTT(30)
  <2>12. QED BY <2>9, <2>11
<1>11. CASE EndsNone(s.p, b)
  <2>1. EndsNone(e.p, b) /\ EndsNone(f.p, b) /\ EndsNone(t.p, b)
    <3>1. EndsNone(e.p, b)
      BY <1>4, <1>11 DEF EndsNone, IsText, EndsOsc, EndsCsi, EndsEsc
    <3>2. EndsNone(f.p, b)
      BY <1>2, <1>3, <3>1, TwinsEnd
    <3>3. QED BY <1>4, <3>1, <3>2 DEF EndsNone, IsText, EndsOsc, EndsCsi, EndsEsc
  <2>2. u.p = Within(e.p, b) /\ u.ev = e.ev /\ u.out = e.out
    BY <1>7, <1>11, NoneEnds
  <2>3. y.p = Within(f.p, b) /\ y.ev = f.ev /\ y.out = f.out
    BY <1>7, <2>1, NoneEnds
  <2>4. Twins(u.p, y.p)
    BY <1>2, <1>3, <2>1, <2>2, <2>3, TwinsWithin
  <2>5. QED BY <1>3, <2>2, <2>3, <2>4 DEF Shown
<1>12. QED BY <1>8, <1>9, <1>10, <1>11 DEF EndsNone

-----------------------------------------------------------------------------
(***************************************************************************)
(* The stream may be cut anywhere.                                         *)
(***************************************************************************)

LEMMA SameFed ==
  ASSUME NEW s \in Midst, NEW t \in Midst, NEW pre \in Seq(Event), Same(pre, s, t),
         NEW c \in Seq(Bytes)
  PROVE  Same(pre, Feed!FeedFrom(s, c), Feed!FeedFrom(t, c))
<1> DEFINE G == {d \in Seq(Bytes) : Same(pre, Feed!FeedFrom(s, d), Feed!FeedFrom(t, d))}
<1>1. <<>> \in G
  BY FeedFromSteps
<1>2. ASSUME NEW d \in Seq(Bytes), NEW b \in Bytes, d \in G
      PROVE  Append(d, b) \in G
  <2> DEFINE u == Feed!FeedFrom(s, d)
             w == Feed!FeedFrom(t, d)
  <2>1. u \in Midst /\ w \in Midst /\ Same(pre, u, w) /\ Append(d, b) \in Seq(Bytes)
    BY <1>2, FeedFromSteps
  <2>2. Feed!FeedFrom(s, Append(d, b)) = Feed!Step(u, b) /\ Feed!FeedFrom(t, Append(d, b)) = Feed!Step(w, b)
    BY FeedFromSteps
  <2> HIDE DEF u, w
  <2>3. Same(pre, Feed!Step(u, b), Feed!Step(w, b))
    BY <2>1, SameGoesOn
  <2>4. QED BY <2>1, <2>2, <2>3
<1> HIDE DEF G
<1>3. Seq(Bytes) \subseteq G
  BY <1>1, <1>2, SeqInduct
<1>4. QED BY <1>3 DEF G

\* Two pieces one after the other take the parser where the whole does.
LEMMA FeedFromCat ==
  ASSUME NEW s \in Midst, NEW c \in Seq(Bytes), NEW d \in Seq(Bytes)
  PROVE  Feed!FeedFrom(s, c \o d) = Feed!FeedFrom(Feed!FeedFrom(s, c), d)
<1> DEFINE m == Feed!FeedFrom(s, c)
           G == {x \in Seq(Bytes) : Feed!FeedFrom(s, c \o x) = Feed!FeedFrom(m, x)}
<1>1. m \in Midst
  BY FeedFromSteps
<1> HIDE DEF m
<1>2. <<>> \in G
  <2>1. c \o <<>> = c /\ <<>> \in Seq(Bytes)
    OBVIOUS
  <2>2. QED BY <1>1, <2>1, FeedFromSteps DEF m
<1>3. ASSUME NEW x \in Seq(Bytes), NEW b \in Bytes, x \in G
      PROVE  Append(x, b) \in G
  <2> DEFINE y == c \o x
  <2>1. y \in Seq(Bytes) /\ c \o Append(x, b) = Append(y, b) /\ Append(x, b) \in Seq(Bytes)
    OBVIOUS
  <2>2. Feed!FeedFrom(s, y) = Feed!FeedFrom(m, x)
    BY <1>3
  <2> HIDE DEF y
  <2>3. Feed!FeedFrom(s, Append(y, b)) = Feed!Step(Feed!FeedFrom(s, y), b)
    BY <2>1, FeedFromSteps
  <2>4. Feed!FeedFrom(m, Append(x, b)) = Feed!Step(Feed!FeedFrom(m, x), b)
    BY <1>1, FeedFromSteps
  <2>5. QED BY <2>1, <2>2, <2>3, <2>4
<1> HIDE DEF G
<1>4. Seq(Bytes) \subseteq G
  BY <1>2, <1>3, SeqInduct
<1>5. QED BY <1>4 DEF G, m

\* The parser at the beginning of a chunk.
Begun(q) == [p |-> q, ev |-> <<>>, out |-> <<>>, text |-> <<>>]

LEMMA ChunkIs ==
  ASSUME NEW q \in ParserState, NEW c \in Seq(Bytes)
  PROVE  LET e == Feed!EmitText(Feed!FeedFrom(Begun(q), c))
             k == Feed!FeedChunk(q, c) IN
         /\ Begun(q) \in Midst /\ Feed!FeedFrom(Begun(q), c) \in Midst /\ e \in Midst
         /\ k.p = Feed!Forget(e.p) /\ k.p \in ParserState
         /\ k.ev = e.ev \o Feed!Output(e.out) /\ k.ev \in Seq(Event)
<1> DEFINE e == Feed!EmitText(Feed!FeedFrom(Begun(q), c))
           k == Feed!FeedChunk(q, c)
<1>1. Begun(q) \in Midst
  <2>1. <<>> \in Seq(Event) /\ <<>> \in Seq(Bytes)
    OBVIOUS
  <2>2. QED BY <2>1 DEF Begun, Midst
<1>2. Feed!FeedFrom(Begun(q), c) \in Midst
  BY <1>1, FeedFromSteps
<1>3. e \in Midst
  BY <1>2, MidstTypes
<1>4. k = [p |-> Feed!Forget(e.p), ev |-> e.ev \o Feed!Output(e.out)]
  BY DEF Feed!FeedChunk, Begun
<1> HIDE DEF e, k
<1>5. k.p = Feed!Forget(e.p) /\ k.ev = e.ev \o Feed!Output(e.out)
  BY <1>4
<1>6. e.p \in ParserState /\ e.ev \in Seq(Event) /\ Feed!Output(e.out) \in Seq(Event)
  BY <1>3, MidstTypes
<1>7. k.p \in ParserState
  BY <1>5, <1>6, ForgetTwins
<1>8. k.ev \in Seq(Event)
  BY <1>5, <1>6, CatEvents
<1>9. QED BY <1>1, <1>2, <1>3, <1>5, <1>7, <1>8 DEF e, k

\* In any state of the parser a chunk of any length has the effect of its two
\* pieces, wherever it is cut (parser.go, Feed).
THEOREM ChunksSplit ==
  \A q \in ParserState, c, d \in Seq(Bytes) : Feed!Splits(q, c, d)
<1> SUFFICES ASSUME NEW q \in ParserState, NEW c \in Seq(Bytes), NEW d \in Seq(Bytes)
             PROVE  Feed!Splits(q, c, d)
  OBVIOUS
<1> DEFINE s == Feed!FeedFrom(Begun(q), c)
           one == Feed!FeedChunk(q, c)
           two == Feed!FeedChunk(one.p, d)
           whole == Feed!FeedChunk(q, c \o d)
           t == Begun(one.p)
           e == Feed!EmitText(s)
           f == Feed!EmitText(t)
           x == Feed!EmitText(Feed!FeedFrom(s, d))
           y == Feed!EmitText(Feed!FeedFrom(t, d))
<1>1. /\ s \in Midst /\ e \in Midst /\ one.p = Feed!Forget(e.p) /\ one.p \in ParserState
      /\ one.ev = e.ev \o Feed!Output(e.out) /\ one.ev \in Seq(Event)
  BY ChunkIs
<1>2. /\ t \in Midst /\ y \in Midst /\ two.p = Feed!Forget(y.p)
      /\ two.ev = y.ev \o Feed!Output(y.out) /\ two.ev \in Seq(Event)
  BY <1>1, ChunkIs
<1>3. /\ whole.p = Feed!Forget(x.p) /\ whole.ev = x.ev \o Feed!Output(x.out)
      /\ x \in Midst /\ whole.ev \in Seq(Event)
  <2>1. c \o d \in Seq(Bytes)
    OBVIOUS
  <2>2. Begun(q) \in Midst
    BY ChunkIs
  <2>3. Feed!FeedFrom(Begun(q), c \o d) = Feed!FeedFrom(s, d)
    BY <2>2, FeedFromCat
  <2>4. QED BY <2>1, <2>3, ChunkIs
<1>4. f.p = one.p /\ f.ev = <<>> /\ f.out = <<>>
  <2>1. t.text = <<>> /\ t.p = one.p /\ t.ev = <<>> /\ t.out = <<>>
    BY DEF Begun
  <2> HIDE DEF t, one
  <2>2. QED BY <1>2, <2>1, EmitTextIs
<1>5. Same(one.ev, s, t)
  <2>1. Twins(e.p, f.p)
    <3>1. e.p \in ParserState
      BY <1>1, MidstTypes
    <3> HIDE DEF e, f, one
    <3>2. QED BY <1>1, <1>4, <3>1, ForgetTwins
  <2> HIDE DEF e, f, one
  <2>2. Feed!Output(<<>>) = <<>>
    BY DEF Feed!Output
  <2>3. Shown(<<>>, e) = Feed!Joined(<<>> \o one.ev) /\ <<>> \o one.ev = one.ev
    BY <1>1, CatEvents DEF Shown
  <2>4. Shown(one.ev, f) = Feed!Joined(one.ev \o (<<>> \o <<>>))
    BY <1>4, <2>2 DEF Shown
  <2>5. <<>> \o <<>> = <<>> /\ one.ev \o <<>> = one.ev
    BY <1>1, CatEvents
  <2>6. Shown(<<>>, e) = Shown(one.ev, f)
    BY <2>3, <2>4, <2>5, Zenon
  <2>7. QED BY <2>1, <2>6 DEF Same, e, f
<1>6. Same(one.ev, Feed!FeedFrom(s, d), Feed!FeedFrom(t, d))
  <2> HIDE DEF s, t, one
  <2>1. QED BY <1>1, <1>2, <1>5, SameFed
<1>7. Twins(x.p, y.p) /\ Shown(<<>>, x) = Shown(one.ev, y)
  BY <1>6 DEF Same
<1> HIDE DEF s, one, two, whole, t, e, f, x, y
<1>8. whole.p = two.p
  <2>1. x.p \in ParserState /\ y.p \in ParserState
    BY <1>2, <1>3, MidstTypes
  <2>2. QED BY <1>2, <1>3, <1>7, <2>1, ForgetTwins
<1>9. Feed!Joined(whole.ev) = Feed!Joined(one.ev \o two.ev)
  <2>1. Shown(<<>>, x) = Feed!Joined(<<>> \o whole.ev) /\ Shown(one.ev, y) = Feed!Joined(one.ev \o two.ev)
    BY <1>2, <1>3 DEF Shown
  <2>2. <<>> \o whole.ev = whole.ev
    BY <1>3, CatEvents
  <2>3. QED BY <1>7, <2>1, <2>2
<1>10. QED BY <1>8, <1>9 DEF Feed!Splits, whole, one, two

-----------------------------------------------------------------------------
(***************************************************************************)
(* The parser keeps its type.                                              *)
(***************************************************************************)

\* What the parser's buffers, flags and phases are (parser.go, Parser).
ParserTypeOK == parser \in ParserState

\* The parser's state keeps its type, and the echo its cap (parser.go, Parser).
THEOREM ParserTyped == SpecTools => []ParserTypeOK
<1>1. InitTools => ParserTypeOK
  <2>1. <<>> \in Seq(Bytes) /\ <<>> \in Echoes
    BY EchoTypes
  <2>2. QED BY <2>1 DEF InitTools, Feed!Init, ParserTypeOK, ParserState
<1>2. ParserTypeOK /\ [NextTools]_varsTools => ParserTypeOK'
  <2> SUFFICES ASSUME ParserTypeOK, [NextTools]_varsTools
               PROVE  ParserTypeOK'
    OBVIOUS
  <2>1. CASE parser' = parser
    BY <2>1 DEF ParserTypeOK
  <2>2. CASE Feed!Next
    <3>1. PICK b \in Feed!Bytes : parser' = Feed!FeedChunk(parser, <<b>>).p
      BY <2>2 DEF Feed!Next, Feed!Feed
    <3> DEFINE c == <<b>>
    <3>2. c \in Seq(Bytes)
      BY DEF Bytes
    <3>3. parser' = Feed!FeedChunk(parser, c).p
      BY <3>1
    <3> HIDE DEF c
    <3>4. QED BY <3>2, <3>3, ChunkIs DEF ParserTypeOK
  <2>3. QED BY <2>1, <2>2 DEF NextTools, varsTools
<1>3. QED BY <1>1, <1>2, PTL DEF SpecTools

\* "identical no matter how the stream is split across Feed calls"
\* (fuzz_test.go:62), for any limits of the buffers.
THEOREM FeedChunkInvariantHolds == SpecTools => []FeedChunkInvariant
<1>1. \A c \in Feed!Chunks : c \in Seq(Bytes)
  <2>1. ASSUME NEW q \in [1 .. 2 -> Feed!Bytes] PROVE q \in Seq(Bytes)
    <3>1. \A T : \A n \in Nat : \A f \in [1 .. n -> T] : f \in Seq(T)
      BY SeqDef
    <3>2. QED BY <3>1 DEF Bytes
  <2>2. \A q \in Feed!Text : q \in Seq(Bytes)
    <3>1. "x" \in Bytes
      BY DEF Bytes, Feed!Bytes
    <3>2. <<>> \in Seq(Bytes) /\ <<"x">> \in Seq(Bytes)
      BY <3>1
    <3>3. QED BY <3>2 DEF Feed!Text
  <2>3. \A q \in Feed!Sequence : q \in Seq(Bytes)
    <3>1. \A m \in {"A", "B", "C", "D"} : <<Feed!ESC, "]", m>> \in Seq(Bytes)
      BY DEF Bytes, Feed!Bytes
    <3>2. \A z \in {<<Feed!BEL>>, <<Feed!ESC, "\\">>} : z \in Seq(Bytes)
      <4>1. <<Feed!BEL>> \in Seq(Bytes) /\ <<Feed!ESC, "\\">> \in Seq(Bytes)
        BY ByteTypes
      <4>2. QED BY <4>1
    <3>3. \A u, z \in Seq(Bytes) : u \o z \in Seq(Bytes)
      OBVIOUS
    <3>4. /\ <<Feed!ESC, "[", "?1049", "h">> \in Seq(Bytes)
          /\ <<Feed!ESC, "[", "x">> \in Seq(Bytes) /\ <<Feed!ESC, "x">> \in Seq(Bytes)
      BY DEF Bytes, Feed!Bytes
    <3>5. ASSUME NEW q \in Feed!Sequence PROVE q \in Seq(Bytes)
      <4>1. CASE q \in {<<Feed!ESC, "[", "?1049", "h">>, <<Feed!ESC, "[", "x">>, <<Feed!ESC, "x">>}
        BY <3>4, <4>1
      <4>2. CASE \E m \in {"A", "B", "C", "D"}, z \in {<<Feed!BEL>>, <<Feed!ESC, "\\">>} :
                   q = <<Feed!ESC, "]", m>> \o z
        BY <3>1, <3>2, <3>3, <4>2, Zenon
      <4>3. QED BY <4>1, <4>2 DEF Feed!Sequence
    <3>6. QED BY <3>5
  <2>4. \A x, y, z \in Seq(Bytes) : (x \o y) \o z \in Seq(Bytes)
    OBVIOUS
  <2>5. ASSUME NEW q \in Feed!Chunks PROVE q \in Seq(Bytes)
    <3>1. CASE q \in [1 .. 2 -> Feed!Bytes]
      BY <2>1, <3>1
    <3>2. CASE \E x \in Feed!Text, y \in Feed!Sequence, z \in Feed!Text : q = (x \o y) \o z
      BY <2>2, <2>3, <2>4, <3>2, Zenon
    <3>3. QED BY <3>1, <3>2 DEF Feed!Chunks
  <2>6. QED BY <2>5
<1>2. \A q \in Seq(Bytes) : \A k \in 1 .. Len(q) - 1 :
        SubSeq(q, 1, k) \in Seq(Bytes) /\ SubSeq(q, k + 1, Len(q)) \in Seq(Bytes)
  OBVIOUS
<1>3. ParserTypeOK => FeedChunkInvariant
  <2> SUFFICES ASSUME ParserTypeOK, NEW c \in Feed!Chunks, NEW k \in 1 .. Len(c) - 1
               PROVE  Feed!Splits(parser, SubSeq(c, 1, k), SubSeq(c, k + 1, Len(c)))
    BY DEF FeedChunkInvariant, Feed!ChunkInvariant
  <2>1. SubSeq(c, 1, k) \in Seq(Bytes) /\ SubSeq(c, k + 1, Len(c)) \in Seq(Bytes)
    BY <1>1, <1>2
  <2>2. QED BY <2>1, ChunksSplit DEF ParserTypeOK
<1>4. QED BY <1>3, ParserTyped, PTL
=============================================================================
