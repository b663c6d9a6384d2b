----------------------------- MODULE MCTeamMailbox -----------------------------
(***************************************************************************)
(* Write leases on small instances of TeamMailbox: scopes that are paths   *)
(* and scopes whose last name is a glob.                                   *)
(***************************************************************************)
EXTENDS TeamMailbox, TLC

CONSTANTS w1, w2

\* a, a/b*, a/ba, ab, a*, ab* and *; a name is a sequence of letters.
MCScopes ==
  {[dirs |-> <<<<1>>>>, star |-> FALSE, part |-> <<>>],
   [dirs |-> <<<<1>>>>, star |-> TRUE, part |-> <<2>>],
   [dirs |-> <<<<1>>, <<2, 1>>>>, star |-> FALSE, part |-> <<>>],
   [dirs |-> <<<<1, 2>>>>, star |-> FALSE, part |-> <<>>],
   [dirs |-> <<>>, star |-> TRUE, part |-> <<1>>],
   [dirs |-> <<>>, star |-> TRUE, part |-> <<1, 2>>],
   [dirs |-> <<>>, star |-> TRUE, part |-> <<>>]}
MCFiles == UNION {[1..n -> {<<1>>, <<1, 2>>, <<2, 1>>}] : n \in 1..2}
================================================================================
