------------------------------- MODULE MCSession -------------------------------
(*****************************************************************************)
(* One session's work on small instances: its execution run, the hooks that  *)
(* guard it, continuity capsules, planning sessions, the choice of a         *)
(* delegation route and evaluated workflow runs.                             *)
(*****************************************************************************)
EXTENDS ExecutionRun, TLC

CONSTANTS
  Nil, Torn,
  HookStarts, HookUpdates, HookRuns, HookRegisters, HookCapsules, HookMessages, HookLoads,   \* hooks
  CapsuleProcs, CapsuleContexts, CapsuleRefs, CapsuleStarts, CapsuleUpdates, CapsuleDecisions, MaxCommands,   \* capsules
  Intents, Designs, Modes, Profiles,                                    \* planning sessions
  Tasks, Controls, Hosts,                                               \* routes
  FlowStarts, WorkerIds, Scopes, EvidenceIds, Evidence, MaxViolations   \* workflow runs

\* The hooks: a planning that the Context requires, routes to or was asked for, with its
\* gates set and cleared; a register that is missing, broken or pending; reports without
\* claims and with claims and no brief.
Update(s, set, app, req, g, rec, cl) ==
  [surface |-> s, set |-> set, append |-> app, required |-> req, gates |-> g, receipt |-> rec, clear |-> cl]
MCHookUpdates ==
  {Update(x, <<>>, <<>>, <<>>, <<>>, FALSE, {}) : x \in {"uigwe", "seungjeongwon"}} \cup
  {Update(Nil, <<"uigwe", "seungjeongwon">>, <<>>, <<>>, <<>>, FALSE, {}),
   Update(Nil, <<>>, <<>>, <<"uigwe">>, <<>>, FALSE, {}), Update("uigwe", <<>>, <<>>, <<"uigwe">>, <<>>, FALSE, {}),
   Update(Nil, <<>>, <<"uigwe">>, <<>>, <<"uigwe_promotion_required">>, FALSE, {}),
   Update(Nil, <<>>, <<>>, <<>>, <<>>, TRUE, {})} \cup
  {Update(Nil, <<>>, <<>>, <<>>, <<>>, FALSE, {g}) : g \in {"uigwe_promotion_required", "seungjeongwon_receipt_required"}}
MCHookStarts ==
  {[surface |-> "jiphyeonjeon", routes |-> x, required |-> <<"jiphyeonjeon", "uigwe">>, goal |-> FALSE, gates |-> <<>>] :
     x \in {<<>>, <<"uigwe", "jiphyeonjeon">>}}
MCHookRegisters ==
  {[is |-> k, live |-> k = "register", ready |-> FALSE, open |-> FALSE, pending |-> k = "register"] :
     k \in {"none", "broken", "register"}}
MCHookMessages == {[claims |-> FALSE, brief |-> "valid"], [claims |-> TRUE, brief |-> "none"]}

\* The capsules: two runs, one of a class; gates that are added, cleared and kept, and one more
\* than a projection shows; a status that is refused.
MCCapsuleContexts == {[run |-> 1, class |-> Nil], [run |-> 2, class |-> "a"]}
MCCapsuleRefs == [named : BOOLEAN, resolves : BOOLEAN] \ {[named |-> FALSE, resolves |-> FALSE]}
MCCapsuleStarts == {[run |-> 1, class |-> "a", gates |-> <<"g">>], [run |-> 2, class |-> "b", gates |-> <<>>]}
MCCapsuleUpdates ==
  {[add |-> <<"h", "i", "j">>, clear |-> {}, status |-> Nil], [add |-> <<>>, clear |-> {"g"}, status |-> Nil],
   [add |-> <<"h">>, clear |-> {}, status |-> "lost"]}
MCCapsuleDecisions == {[id |-> "d", text |-> 1], [id |-> "d", text |-> 2], [id |-> "e", text |-> 1]}

\* The planning sessions: answers from vague to complete, approved and waived.
Answers(n, c) == [n |-> n, complete |-> c]
MCIntent(g, l, b, a, q, s) ==
  [goal |-> g, why |-> g, scope |-> l, nonGoals |-> l, boundaries |-> b, constraints |-> l,
   acceptance |-> Answers(2, a), questions |-> q, status |-> s[1], explicit |-> s[2]]
MCDesign(f, t, l, r, s) ==
  [frame |-> f, approach |-> [title |-> t, summary |-> t], alternatives |-> l, tradeoffs |-> l, decisions |-> 2,
   assumptions |-> 1, risks |-> Answers(1, r), validation |-> 1, status |-> s[1], explicit |-> s[2]]
Verdicts == {<<Nil, FALSE>>, <<"approved", FALSE>>, <<"waived", FALSE>>, <<"waived", TRUE>>}
MCIntents ==
  {MCIntent(0, 1, Answers(1, 0), 1, 0, <<Nil, FALSE>>), MCIntent(2, 1, Answers(1, 1), 1, 0, <<Nil, FALSE>>)}
    \cup {MCIntent(1, 2, Answers(1, 1), 2, 2, v) : v \in Verdicts}
MCDesigns ==
  {MCDesign(0, 0, 1, 0, <<Nil, FALSE>>), MCDesign(2, 1, 1, 0, <<"approved", FALSE>>)}
    \cup {MCDesign(2, 1, 2, 1, v) : v \in Verdicts}

\* The routes: tasks on both sides of every threshold, controls that hold or fail, hosts
\* that offer or lack what the task needs.
MCTasks ==
  [class : {"simple_lookup", "implementation", "research"}, breadth : {"narrow", "broad"},
   coupling : {"bounded", "system_wide"}, risk : {"low", "high"}, roi : {"low", "high"}]
MCControls ==
  [uigwe : {"none", "required_missing"}, guardrail : {"clear", "weak"}, authority : {"evidence_only"},
   artifacts : {"sejong_home_or_promoted_refs"}, mode : {"allowed"}, scopes : {"none", "disjoint", "overlapping"}]
MCHosts ==
  [needs : {{}, {"process"}, {"isolation"}},
   offers : {{}, {"host", "cleanup"}, {"host", "cleanup", "isolation"}}, healthy : BOOLEAN]

\* The workflow runs: research and dynamic workflows, evidence of every kind.
MCEvidence ==
  {[kind |-> k, status |-> "supported"] : k \in {"verification_ref", "authority_violation", "source_ref", "cross_check"}}
MCStarts ==
  [kind : {"deep_research"}, backend : {"other"}, mode : {"shadow"}, described : BOOLEAN]
    \cup [kind : {"dynamic_workflow"}, backend : {"manual_shadow"}, mode : {"shadow", "promoted_backend"}, described : {TRUE}]

VARIABLE part      \* the component whose behaviour this is
VARIABLES
  load, context, owed, execRun, native, register, capsule, refusedStop, saved, event,   \* HookGates
  ctx, ref, memory, command, left, allowed, told, judged, open, first, latest, doubtful,   \* Continuity
  mode, profile, live, intent, design, action, asked,                                   \* LiveSession
  case, chosen,                                                                         \* DelegationRoute
  artifact, writing, forced                                                             \* WorkflowRun

Gates == INSTANCE HookGates WITH
  Starts <- HookStarts, Updates <- HookUpdates, ExecRuns <- HookRuns, Registers <- HookRegisters,
  Capsules <- HookCapsules, Messages <- HookMessages, Loads <- HookLoads,
  ctx <- context, checkpoint <- saved
Capsule == INSTANCE Continuity WITH
  Procs <- CapsuleProcs, Contexts <- CapsuleContexts, Refs <- CapsuleRefs, Starts <- CapsuleStarts,
  Updates <- CapsuleUpdates, Decisions <- CapsuleDecisions, capsule <- memory
Live == INSTANCE LiveSession WITH register <- asked
Route == INSTANCE DelegationRoute
Flow == INSTANCE WorkflowRun WITH Starts <- FlowStarts, run <- artifact

ASSUME HooksAssumption == Gates!ConstantsAssumption
ASSUME CapsuleAssumption == Capsule!ConstantsAssumption
ASSUME PlanningAssumption == Live!ConstantsAssumption
ASSUME RouteAssumption == Route!ConstantsAssumption
ASSUME FlowAssumption == Flow!ConstantsAssumption

guarded == <<load, context, owed, execRun, native, register, capsule, refusedStop, saved, event>>
remembered == <<ctx, ref, memory, command, left, allowed, told, judged, open, first, latest, doubtful>>
planned == <<mode, profile, live, intent, design, action, asked>>
routed == <<case, chosen>>
flowing == <<artifact, writing, forced>>
AllVars == <<part, vars, guarded, remembered, planned, routed, flowing>>

AllInit ==
  /\ part \in {"execution", "gates", "capsule", "live", "route", "flow"}
  /\ Init
  /\ IF part = "gates" THEN Gates!Init
     ELSE /\ load = "idle" /\ context = "idle" /\ owed = "idle" /\ execRun = "idle" /\ native = "idle"
          /\ register = "idle" /\ capsule = "idle" /\ refusedStop = "idle" /\ saved = "idle"
          /\ event = "idle"
  /\ IF part = "capsule" THEN Capsule!Init
     ELSE /\ ctx = "idle" /\ ref = "idle" /\ memory = "idle" /\ command = "idle" /\ left = "idle" /\ allowed = "idle"
          /\ told = "idle" /\ judged = "idle" /\ open = "idle" /\ first = "idle" /\ latest = "idle" /\ doubtful = "idle"
  /\ IF part = "live" THEN Live!Init
     ELSE /\ mode = "idle" /\ profile = "idle" /\ live = "idle" /\ intent = "idle"
          /\ design = "idle" /\ action = "idle" /\ asked = "idle"
  /\ IF part = "route" THEN Route!Init ELSE case = "idle" /\ chosen = "idle"
  /\ IF part = "flow" THEN Flow!Init ELSE artifact = "idle" /\ writing = "idle" /\ forced = "idle"

AllNext ==
  /\ UNCHANGED part
  /\ \/ part = "execution" /\ Next /\ UNCHANGED <<guarded, remembered, planned, routed, flowing>>
     \/ part = "gates" /\ Gates!Next /\ UNCHANGED <<vars, remembered, planned, routed, flowing>>
     \/ part = "capsule" /\ Capsule!Next /\ UNCHANGED <<vars, guarded, planned, routed, flowing>>
     \/ part = "live" /\ Live!Next /\ UNCHANGED <<vars, guarded, remembered, routed, flowing>>
     \/ part = "route" /\ Route!Next /\ UNCHANGED <<vars, guarded, remembered, planned, flowing>>
     \/ part = "flow" /\ Flow!Next /\ UNCHANGED <<vars, guarded, remembered, planned, routed>>

AllSpec == AllInit /\ [][AllNext]_AllVars

AllSymmetry == Permutations(Todos) \cup Permutations(CapsuleProcs) \cup Permutations(Criteria) \cup Permutations(EvidenceIds)

--------------------------------------------------------------------------------
\* A complete run has earned it, nothing reported is dropped, contradictions are accepted.
RunIsSound == CompletionEarned /\ LedgerInv

\* While a required planning is pending the hooks let nothing be written, and a session
\* whose work is unfinished is not let go the first time it stops.
HooksHold == part = "gates" => Gates!BoundaryBlocksWrites /\ Gates!EndsSettled

\* What the replay gate and the hooks say of a capsule is what was recorded in it, but for
\* what a command with an older copy has written over.
ToldIsTrue == part = "capsule" => Capsule!ToldIsTrue

\* A planning session writes its plan when every gate has been asked and answered.
GatesAreAsked == part = "live" => Live!GatesAreAsked

\* A selected route is one that the task, its controls and the host support.
RouteIsSupported == part = "route" => Route!RouteIsSupported

\* Nothing that was reported to an execution run is dropped, and the verdict on a workflow
\* run stands, until somebody starts anew.
HistoryStands == [][KeepsHistory /\ (part = "flow" => Flow!KeepsVerdict)]_AllVars
================================================================================
