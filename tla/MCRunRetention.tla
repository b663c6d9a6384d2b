---------------------------- MODULE MCRunRetention ----------------------------
(* Two sessions, one binding file malformed, and a cleanup of two runs. *)
EXTENDS RunRetention, TLC

\* A successful run lets go of its raw artifacts at once, a failed one after a day.
MCRawTtl == [success |-> 0, failed |-> 1]
\* A Context names no run besides its own, or the first.
MCNamed == {{}, {1}}

Symmetry == Permutations(Sessions)
===============================================================================
