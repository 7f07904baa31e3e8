------------------------- MODULE ReplicatedHistory -------------------------
(***************************************************************************)
(* What cross-machine sync promises, with no files, segments, marks or     *)
(* processes in sight (docs/sync-design.md, "per-machine append-only       *)
(* encrypted logs").  Every machine keeps a journal: the commands it has   *)
(* recorded, each under a sequence number larger than every earlier one.   *)
(* Every other machine keeps a replica of that journal, which only ever    *)
(* gains records the journal holds, at most one per sequence number.       *)
(* SyncLog implements this specification.                                  *)
(***************************************************************************)
EXTENDS Naturals

CONSTANTS Machines,   \* the machines that share a sync directory
          Seqs,       \* the sequence numbers, natural numbers
          Bodies      \* what a command is, beyond its number

VARIABLES journal,    \* journal[m]: records m has ever made
          replica     \* replica[n][m]: records of m that n has ever taken over

vars == <<journal, replica>>

Record == [seq : Seqs, body : Bodies]

Init ==
  /\ journal = [m \in Machines |-> {}]
  /\ replica = [n \in Machines |-> [m \in Machines |-> {}]]

\* A machine appends a record to its own journal, numbered past all others.
Append(m, r) ==
  /\ \A x \in journal[m] : x.seq < r.seq
  /\ journal' = [journal EXCEPT ![m] = @ \cup {r}]
  /\ UNCHANGED replica

\* A machine takes over a record of another one, under a number it lacks.
Take(n, m, r) ==
  /\ n # m
  /\ r \in journal[m]
  /\ \A x \in replica[n][m] : x.seq # r.seq
  /\ replica' = [replica EXCEPT ![n][m] = @ \cup {r}]
  /\ UNCHANGED journal

Next ==
  \/ \E m \in Machines, r \in Record : Append(m, r)
  \/ \E n, m \in Machines : \E r \in journal[m] : Take(n, m, r)

Spec == Init /\ [][Next]_vars
=============================================================================
