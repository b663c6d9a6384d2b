----------------------------- MODULE MCRuntimeLock -----------------------------
(* Small instances of RuntimeLock for TLC. *)
EXTENDS RuntimeLock, TLC

OneHost == [p \in Procs |-> "a"]

Symmetry == Permutations(Procs)
================================================================================
