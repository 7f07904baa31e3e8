---------------------------- MODULE MCStoreIndex ----------------------------
(***************************************************************************)
(* Instances of StoreIndex for TLC: a text with a secret, and its masking. *)
(***************************************************************************)
EXTENDS StoreIndex, TLC

CONSTANTS secret, masked

MaskSecret == [t \in {secret, masked} |-> masked]

ProcSymmetry == Permutations(Procs)
=============================================================================
