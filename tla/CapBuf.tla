------------------------------- MODULE CapBuf -------------------------------
(***************************************************************************)
(* The buffer a command's output is kept in (internal/record, capBuf): the *)
(* first headCap bytes of a stream and its last tailCap bytes, the latter  *)
(* in a ring that a chunk is copied into in segments.                      *)
(*                                                                         *)
(* A byte of the stream is known by its position, 1, 2, ...; 0 is a cell   *)
(* of the ring nothing was written to.                                     *)
(***************************************************************************)
EXTENDS Integers, Sequences

CONSTANTS
  HeadCaps, TailCaps, \* the capacities buffers are made with
  MaxChunk,           \* bound: bytes in a chunk
  MaxTotal            \* bound: bytes written

ASSUME CapsAssumption ==
  /\ HeadCaps \subseteq Nat /\ TailCaps \subseteq Nat
  /\ MaxChunk \in Nat /\ MaxTotal \in Nat

VARIABLES
  headCap, tailCap,
  head,
  tail, tailStart, tailLen,
  total,
  p,      \* how many bytes of the chunk being written are still to be copied
  copies  \* history: the segments it was copied in

vars == <<headCap, tailCap, head, tail, tailStart, tailLen, total, p, copies>>

Lesser(a, b) == IF a <= b THEN a ELSE b

Init ==
  /\ headCap \in HeadCaps /\ tailCap \in TailCaps
  /\ head = <<>>
  /\ tail = [i \in 0..tailCap - 1 |-> 0] /\ tailStart = 0 /\ tailLen = 0
  /\ total = 0 /\ p = 0 /\ copies = 0

\* Mutant: it leaves the start of the ring where it was.
ReplaceTailKeepsStart ==
  /\ tail' = [i \in 0..tailCap - 1 |-> total' - tailCap + 1 + i]
  /\ tailLen' = tailCap
  /\ p' = 0 /\ UNCHANGED tailStart

\* The end of a chunk, in place of all the ring held.
ReplaceTail ==
  /\ tail' = [i \in 0..tailCap - 1 |-> total' - tailCap + 1 + i]
  /\ tailStart' = 0 /\ tailLen' = tailCap
  /\ p' = 0

\* A chunk of n bytes: first the head takes what fits.
Write(n) ==
  /\ p = 0 /\ total + n <= MaxTotal
  /\ total' = total + n
  /\ LET h    == Lesser(headCap - Len(head), n)
         rest == n - h
     IN  /\ head' = head \o [i \in 1..h |-> total + i]
         /\ IF rest > 0 /\ rest >= tailCap
              THEN ReplaceTail
              ELSE p' = rest /\ UNCHANGED <<tail, tailStart, tailLen>>
  /\ copies' = 0
  /\ UNCHANGED <<headCap, tailCap>>

\* Mutant: the start moves on and is not brought round.
CopySegmentNoWrap ==
  /\ p > 0
  /\ LET idx  == (tailStart + tailLen) % tailCap
         n    == Lesser(tailCap - idx, p)
         over == tailLen + n - tailCap
     IN  /\ tail' = [i \in DOMAIN tail |->
                       IF i \in idx..idx + n - 1 THEN total - p + 1 + (i - idx) ELSE tail[i]]
         /\ tailLen' = Lesser(tailLen + n, tailCap)
         /\ tailStart' = IF over > 0 THEN tailStart + over ELSE tailStart
         /\ p' = p - n
  /\ copies' = copies + 1
  /\ UNCHANGED <<headCap, tailCap, head, total>>

\* Mutant: it copies byte by byte, as the first implementation did.
CopySegmentByte ==
  /\ p > 0
  /\ LET idx  == (tailStart + tailLen) % tailCap
         over == tailLen + 1 - tailCap
     IN  /\ tail' = [tail EXCEPT ![idx] = total - p + 1]
         /\ tailLen' = Lesser(tailLen + 1, tailCap)
         /\ tailStart' = IF over > 0 THEN (tailStart + over) % tailCap ELSE tailStart
         /\ p' = p - 1
  /\ copies' = copies + 1
  /\ UNCHANGED <<headCap, tailCap, head, total>>

\* One segment of the rest, up to the end of the ring.
CopySegment ==
  /\ p > 0
  /\ LET idx  == (tailStart + tailLen) % tailCap
         n    == Lesser(tailCap - idx, p)
         over == tailLen + n - tailCap
     IN  /\ tail' = [i \in DOMAIN tail |->
                       IF i \in idx..idx + n - 1 THEN total - p + 1 + (i - idx) ELSE tail[i]]
         /\ tailLen' = Lesser(tailLen + n, tailCap)
         /\ tailStart' = IF over > 0 THEN (tailStart + over) % tailCap ELSE tailStart
         /\ p' = p - n
  /\ copies' = copies + 1
  /\ UNCHANGED <<headCap, tailCap, head, total>>

Next == (\E n \in 1..MaxChunk : Write(n)) \/ CopySegment

Spec == Init /\ [][Next]_vars

\* What is read from the buffer, and how many bytes it says are missing.
Kept    == head \o [i \in 1..tailLen |-> tail[(tailStart + i - 1) % tailCap]]
Dropped == total - (Len(head) + tailLen)
Truncated == Dropped > 0
-----------------------------------------------------------------------------
\* Type invariant.
TypeOK ==
  /\ headCap \in HeadCaps /\ tailCap \in TailCaps
  /\ head \in Seq(1..MaxTotal) /\ Len(head) <= headCap
  /\ tail \in [0..tailCap - 1 -> 0..MaxTotal]
  /\ tailStart \in 0..tailCap /\ tailLen \in 0..tailCap
  /\ (tailCap > 0 => tailStart < tailCap)
  /\ total \in 0..MaxTotal /\ p \in 0..MaxChunk

\* However the stream was cut into chunks, the buffer holds its first headCap
\* and its last tailCap bytes in order, all of it if it fits, and the count in
\* the marker is that of the bytes missing between the two (capBuf.Write and
\* capBuf.Bytes).
HeadAndTail ==
  p = 0 =>
    /\ Len(Kept) = Lesser(total, headCap + tailCap)
    /\ \A i \in DOMAIN Kept : Kept[i] = IF i <= headCap THEN i ELSE i + Dropped
    /\ Truncated <=> total > headCap + tailCap

\* A write is at most two copies: "copy() with at most two segment copies per
\* write" (docs/how-it-records.md:104), which also says that it ends.
AtMostTwoCopies == copies <= 2 /\ (copies = 2 => p = 0)
=============================================================================
