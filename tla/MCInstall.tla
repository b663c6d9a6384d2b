------------------------------- MODULE MCInstall -------------------------------
(*****************************************************************************)
(* The user-scope installation, the identity that speaks for it, and the     *)
(* health check, on small instances.                                         *)
(*****************************************************************************)
EXTENDS UserInstall, TLC

CONSTANTS
  Old,                              \* installers started from a checkout of epoch 1
  Surfaces, Versions, Tree, Nil,    \* the identity: surfaces and commits of the checkout
  Runs, States, Locks, MaxChanges   \* the doctor

MCEpoch == [i \in Installers |-> IF i \in Old THEN 1 ELSE 2]

\* Two commits with different contents.
MCTree == [c \in {1, 2} |-> [s \in Surfaces |-> c]]

\* What a Context may say and refer to: idle, waiting for a gate, an answer or a run, closed
\* or invalid with broken refs, unreadable.
Idling == [is |-> "active", gates |-> FALSE, asks |-> FALSE, work |-> FALSE, refs |-> "ok", here |-> TRUE]
MCStates ==
  {Idling, [Idling EXCEPT !.gates = TRUE], [Idling EXCEPT !.asks = TRUE, !.here = FALSE], [Idling EXCEPT !.work = TRUE],
   [Idling EXCEPT !.is = "closed", !.gates = TRUE, !.refs = "broken", !.here = FALSE],
   [Idling EXCEPT !.is = "invalid", !.refs = "broken"], [Idling EXCEPT !.is = "unreadable", !.refs = "broken"]}

VARIABLE part      \* the component whose behaviour this is
VARIABLES
  head, work, surfaces, identity, walk, verdict, intact,                   \* InstallIdentity
  state, lock, bindings, pointer, contexts, found, steady, changes         \* Doctor

Identity == INSTANCE InstallIdentity WITH installed <- surfaces
Health == INSTANCE Doctor

ASSUME IdentityAssumption == Identity!ConstantsAssumption
ASSUME HealthAssumption == Health!ConstantsAssumption

identified == <<head, work, surfaces, identity, walk, verdict, intact>>
examined == <<state, lock, bindings, pointer, contexts, found, steady, changes>>
AllVars == <<part, vars, identified, examined>>

AllInit ==
  /\ part \in {"install", "identity", "doctor"}
  /\ Init
  /\ IF part = "identity" THEN Identity!Init
     ELSE /\ head = "idle" /\ work = "idle" /\ surfaces = "idle" /\ identity = "idle"
          /\ walk = "idle" /\ verdict = "idle" /\ intact = "idle"
  /\ IF part = "doctor" THEN Health!Init
     ELSE /\ state = "idle" /\ lock = "idle" /\ bindings = "idle" /\ pointer = "idle"
          /\ contexts = "idle" /\ found = "idle" /\ steady = "idle" /\ changes = "idle"

AllNext ==
  \/ part = "install" /\ Next /\ UNCHANGED <<part, identified, examined>>
  \/ part = "identity" /\ Identity!Next /\ UNCHANGED <<part, vars, examined>>
  \/ part = "doctor" /\ Health!Next /\ UNCHANGED <<part, vars, identified>>

AllSpec == AllInit /\ [][AllNext]_AllVars

AllSymmetry == Permutations(Gens)

--------------------------------------------------------------------------------
\* One installer works at a time, and the complete marker speaks for the files there are.
InstallationIsSound == InstallerInv /\ CompleteIsInstalled

\* What a verify that nothing overtook says of an installation, and a doctor of what stays
\* as it was while it looked, is so.
ReportsAreTrue ==
  /\ part = "identity" => Identity!CompatibleIsTrue
  /\ part = "doctor" => Health!CleanIsHealthy
================================================================================
