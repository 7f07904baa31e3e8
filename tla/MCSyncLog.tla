----------------------------- MODULE MCSyncLog -----------------------------
(***************************************************************************)
(* Instances of SyncLog for TLC: machines 1 and 2 share one tree;          *)
(* the exporters run on 1, the importers on 2.                             *)
(***************************************************************************)
EXTENDS SyncLog, TLC

CONSTANTS e1, e2, i1, i2   \* sync processes

\* Machine 1 exports, machine 2 imports.
OneWay == [p \in Exporters \cup Importers |-> IF p \in Exporters THEN 1 ELSE 2]

\* Where processes of one kind run on one machine, they are alike.
ProcSymmetry == Permutations(Exporters) \cup Permutations(Importers)
=============================================================================
