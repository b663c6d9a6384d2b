------------------------------ MODULE MCDelegation ------------------------------
(*****************************************************************************)
(* The delegation ledger and the publication of its fan-in receipts, on      *)
(* small instances.  A behaviour is one of either component; the variables   *)
(* of the other one are idle.                                                *)
(*****************************************************************************)
EXTENDS DelegationRun, TLC

CONSTANTS
  Joiners,      \* processes that publish
  SerialWaves,  \* waves the lead joins with one fan-in at a time
  MortalWaves,  \* waves whose fan-in may die
  SharedIds,    \* receipt ids any worker's receipt may name
  SharedLease

\* One id of its own per worker and kind, and one lease.
MCTerminalIds == [w \in Workers |-> {<<"terminal", w>>} \cup SharedIds]
MCCleanupIds == [w \in Workers |-> {<<"cleanup", w>>} \cup SharedIds]
MCLeases == [w \in Workers |-> {{w} \cup SharedLease}]

VARIABLE part      \* the component whose behaviour this is
VARIABLES joined, output, temp, pc, at, open, reported   \* FanInPublication

Publication == INSTANCE FanInPublication WITH
    Procs <- Joiners, Serial <- SerialWaves, Mortal <- MortalWaves

published == <<joined, output, temp, pc, at, open, reported>>
AllVars == <<part, vars, published>>

AllInit ==
  /\ part \in {"run", "publication"}
  /\ Init
  /\ IF part = "publication" THEN Publication!Init
     ELSE /\ joined = "idle" /\ output = "idle" /\ temp = "idle" /\ pc = "idle"
          /\ at = "idle" /\ open = "idle" /\ reported = "idle"

AllNext ==
  \/ part = "run" /\ Next /\ UNCHANGED <<part, published>>
  \/ part = "publication" /\ Publication!Next /\ UNCHANGED <<part, vars>>

AllSpec == AllInit /\ [][AllNext]_AllVars

AllSymmetry == Permutations(Threads) \cup Permutations(Workers \ Threads)

--------------------------------------------------------------------------------
\* A published output is whole or absent while one process at a time joins the wave, and
\* when all who joined have returned the receipt is there, also after a race.
PublicationIsSound == part = "publication" => Publication!PublicationIsSound
================================================================================
