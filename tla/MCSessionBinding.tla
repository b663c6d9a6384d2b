--------------------------- MODULE MCSessionBinding ---------------------------
(* A small instance of SessionBinding for TLC. *)
EXTENDS SessionBinding, TLC

\* Every command runs to its end on the run of the legacy pointer; the other run
\* is there to be switched to.
MCMaxRevision == [r \in Runs |-> IF r = Legacy THEN 3 ELSE 1]

Symmetry == Permutations(Procs)
================================================================================
