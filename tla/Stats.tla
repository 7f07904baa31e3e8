-------------------------------- MODULE Stats -------------------------------
(***************************************************************************)
(* `backscroll stats --by` and /api/stats?by= (stats.go, groupStats): the  *)
(* commands of a filter, grouped by a key, and of each group how its       *)
(* commands spread over the time range of all of them (the sparkline).     *)
(*                                                                         *)
(* A duration is a signed word: -Half..Half-1, wrapping around, as the 64  *)
(* bits of nanoseconds do at 292 years.                                    *)
(***************************************************************************)
EXTENDS Integers, Sequences, FiniteSets, FiniteSetsExt, SequencesExt

CONSTANTS
  Half,     \* 2^63 of a word
  Buckets,  \* sparkBuckets
  Starts,   \* when commands may have started; 0 stands for not known
  Keys,     \* what they are grouped by
  MaxCmds   \* bound: commands

VARIABLE cmds  \* the rows List gives
vars == <<cmds>>

Init == cmds = <<>>
Add == /\ Len(cmds) < MaxCmds
       /\ \E at \in Starts, key \in Keys : cmds' = Append(cmds, [at |-> at, key |-> key])
Next == Add
Spec == Init /\ [][Next]_vars

-----------------------------------------------------------------------------
Word(n) == ((n + Half) % (2 * Half)) - Half
\* Go's division cuts towards zero.
Quotient(a, b) == IF a >= 0 THEN a \div b ELSE -((-a) \div b)

\* statTimeRange, of the commands whose start is known.
Known == {i \in DOMAIN cmds : cmds[i].at # 0}
First == Min({cmds[i].at : i \in Known})
Latest == Max({cmds[i].at : i \in Known})
Span == Latest - First

\* Mutant: the latest command falls outside the last bucket.
BucketNoRoom(at) ==
  IF Span > 0 THEN Quotient(Word((at - First) * Buckets), Span) ELSE Buckets - 1

\* The bucket of a command, from 0.
Bucket(at) ==
  IF Span > 0 THEN Quotient(Word((at - First) * Buckets), Word(Span + 1)) ELSE Buckets - 1

Of(key) == {i \in DOMAIN cmds : cmds[i].key = key}

\* groupStats: the sparkline of a group.
Spark(key) == [b \in 0..Buckets - 1 |->
                 Cardinality({i \in Of(key) \cap Known : Bucket(cmds[i].at) = b})]

-----------------------------------------------------------------------------
\* All that is counted in a sparkline.
Total(spark) ==
  LET Sum[b \in 0..Buckets] == IF b = 0 THEN 0 ELSE Sum[b - 1] + spark[b - 1]
  IN  Sum[Buckets]

\* "spark: per-time-bucket counts across the filtered range" (stats.go:79):
\* each command with a start is counted in a bucket there is, a later command
\* in no earlier one, the first in the first and the latest in the last.
\* An index outside the slice ends the program.
SparksInRange ==
  /\ \A i \in Known : Bucket(cmds[i].at) \in 0..Buckets - 1
  /\ \A i, j \in Known : cmds[i].at <= cmds[j].at => Bucket(cmds[i].at) <= Bucket(cmds[j].at)
  /\ \A k \in Keys : Total(Spark(k)) = Cardinality(Of(k) \cap Known)
  /\ Known # {} => /\ Span > 0 => Bucket(First) = 0
                   /\ Span >= Buckets - 1 => Bucket(Latest) = Buckets - 1
=============================================================================
