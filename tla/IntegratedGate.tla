----------------------------- MODULE IntegratedGate ----------------------------
(***************************************************************************)
(* docs/sejong/scripts/sejong_integrated_quality_gate.py: the gate that    *)
(* runs the hooks, the execution runner, TeamExecutor and the replay gate  *)
(* on fixtures of the repository, one check after the other, in a work     *)
(* directory.  The checks that only compare files of the repository are    *)
(* taken to pass.                                                          *)
(***************************************************************************)
EXTENDS Naturals, Sequences

VARIABLES
  made,        \* what the work directory holds: the execution "run", the "team"
  results      \* the checks so far, each passed or not

vars == <<made, results>>

Checks == <<"outcome", "research", "execution", "team", "feedback", "product", "long session", "continuity">>

\* The fixtures: the example Context and the example capsule of docs/sejong/examples.
ExampleContext == [ctx |-> "ctx-king-sejong-example", run |-> "20260523T074733Z-king-sejong-enforcement-uigwe"]
ExampleCapsule == [ctx |-> "ctx-continuity-example", run |-> "continuity-example-run"]

\* The first reason for which the PreToolUse hook denies a write: a protected path before
\* its routes, a planning boundary that is pending, a receipt that is missing.
DenialReason(c) ==
  IF c.protected /\ ~c.routed THEN "protected self-modification"
  ELSE IF "uigwe_promotion_required" \in c.gates THEN "Uigwe planning boundary is pending"
  ELSE IF "seungjeongwon_receipt_required" \in c.gates /\ ~c.receipt THEN "execution receipt is required"
  ELSE "none"

\* The write is one of README.md, which is not protected; the reason has to name the gate.
ResearchContext == [routed |-> FALSE, gates |-> {"uigwe_promotion_required"}, protected |-> FALSE, receipt |-> FALSE]
ResearchPasses == DenialReason(ResearchContext) = "research-to-Uigwe gate"

\* The Context of the replay check takes the capsule's task class and keeps its own ids, so
\* the hooks find the capsule invalid or not by these.
CapsuleMatches == ExampleCapsule.ctx = ExampleContext.ctx /\ ExampleCapsule.run = ExampleContext.run
--------------------------------------------------------------------------------
Init == made = {} /\ results = <<>>

\* The gate is run again in the same work directory.
Rerun == results # <<>> /\ results' = <<>> /\ UNCHANGED made

Check(name, passed) ==
  /\ Len(results) < Len(Checks) /\ Checks[Len(results) + 1] = name
  /\ results' = Append(results, passed)

Compare(name) == Check(name, TRUE) /\ UNCHANGED made
Research == Check("research", ResearchPasses) /\ UNCHANGED made

\* start refuses a run that exists; then Stop has to be blocked, the run is completed, and
\* Stop has to pass.
Execution ==
  /\ Check("execution", "run" \notin made)
  /\ made' = made \cup {"run"}

\* init refuses a team that exists, and the round and its messages are there twice.
Team ==
  /\ Check("team", "team" \notin made)
  /\ made' = made \cup {"team"}
Continuity == Check("continuity", CapsuleMatches) /\ UNCHANGED made

Next ==
  \/ \E name \in {"outcome", "feedback", "product", "long session"} : Compare(name)
  \/ Research \/ Execution \/ Team \/ Continuity \/ Rerun

Spec == Init /\ [][Next]_vars

--------------------------------------------------------------------------------
\* test_sejong_integrated_quality_gate.py:34-37: the gate exits with 0 and its payload says
\* "passed".  It says so only when every check passed (run_gate:609).
GatePasses == Len(results) = Len(Checks) => \A i \in DOMAIN results : results[i]
================================================================================
