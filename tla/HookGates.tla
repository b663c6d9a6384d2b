------------------------------- MODULE HookGates -------------------------------
(***************************************************************************)
(* What the hooks let a session do, docs/sejong/scripts/king_sejong_hooks  *)
(* .py, against the routes and gates its Context records, whose changes    *)
(* are docs/sejong/scripts/sejong_context.py's start and update.  The host *)
(* asks the hooks before a tool call, before an escalation, at the end of  *)
(* a turn, of a worker and before compaction; artifacts named by the       *)
(* Context change between two events.                                      *)
(***************************************************************************)
EXTENDS Naturals, Sequences, SequencesExt

CONSTANTS
  Starts,      \* the arguments of `start`: [surface, routes, required, goal, gates]
  Updates,     \* the arguments of `update`: [surface, set, append, required, gates,
               \*   receipt, clear]
  ExecRuns,    \* what the referenced Seungjeongwon run file may be
  Registers,   \* what the referenced ambiguity register may be
  Capsules,    \* what the referenced continuity capsule may be
  Messages,    \* what workers end with: [claims, brief]
  Loads,       \* what load_context may find: "applies", "elsewhere", "inactive",
               \* "unbound", "invalid binding", "unreadable", "missing"
  Nil

ConstantsAssumption ==
  /\ \A a \in Starts : /\ a.surface \in STRING /\ a.goal \in BOOLEAN
                         /\ {a.routes, a.required, a.gates} \subseteq Seq(STRING)
  /\ \A a \in Updates : {a.set, a.append, a.required, a.gates} \subseteq Seq(STRING)
  /\ ExecRuns \subseteq {"none", "active", "done", "broken", "invalid"}
  /\ Capsules \subseteq {"none", "valid", "broken", "invalid"}
  /\ Registers \subseteq [is : {"none", "broken", "register"}, live : BOOLEAN, ready : BOOLEAN,
                          open : BOOLEAN, pending : BOOLEAN]

VARIABLES
  load,        \* what load_context finds
  ctx,         \* the Context: [surface, route, required, gates]
  owed,        \* was Uigwe required, and not entered as current or waived since?
  execRun, native, register, capsule,
  refusedStop, \* did the last Stop of this turn refuse?
  checkpoint,  \* the run a compaction checkpoint was written for, or Nil
  event        \* what the hooks allowed last: [kind, ...], or Nil

artifacts == <<execRun, native, register, capsule>>
vars == <<load, ctx, owed, artifacts, refusedStop, checkpoint, event>>

Uigwe == "uigwe"
Seungjeongwon == "seungjeongwon"
UigweGate == "uigwe_promotion_required"
ReceiptGate == "seungjeongwon_receipt_required"

--------------------------------------------------------------------------------
(* Routes and gates of the Context                                         *)

UniqueAppend(s, t) == FoldLeft(LAMBDA r, x : IF x \in Range(r) THEN r ELSE Append(r, x), s, t)
Without(s, T) == FoldLeft(LAMBDA r, x : IF x \in T THEN r ELSE Append(r, x), <<>>, s)
Before(s, x, y) ==      \* x inserted before y, or at the end
  LET i == SelectInSeq(s, LAMBDA z : z = y) IN
  IF i = 0 THEN Append(s, x) ELSE InsertAt(s, i, x)

\* Uigwe goes immediately before Seungjeongwon, wherever it was.
AddRequired(required, additions) ==
  FoldLeft(LAMBDA r, x : IF x = Uigwe THEN Before(Without(r, {Uigwe}), Uigwe, Seungjeongwon)
                         ELSE UniqueAppend(r, <<x>>), required, additions)

SyncGate(gates, requireNow, entered) ==
  IF entered THEN Without(gates, {UigweGate})
  ELSE IF requireNow /\ UigweGate \notin Range(gates) THEN Before(gates, UigweGate, ReceiptGate)
  ELSE gates

Started(a) ==
  LET route == IF a.routes = <<>> THEN <<a.surface>> ELSE a.routes
      asked == AddRequired(<<>>, a.required)
      required == IF a.goal THEN UniqueAppend(asked, <<Seungjeongwon>>) ELSE asked
      gates == IF a.goal THEN UniqueAppend(a.gates, <<ReceiptGate>>) ELSE a.gates IN
  [surface |-> a.surface, route |-> route, required |-> required,
   gates |-> SyncGate(gates, Uigwe \in Range(required), Uigwe \in Range(route))]

\* Mutant: Uigwe anywhere in the route that results counts as entered.
EntersByHistory(a) ==
  \/ a.surface = Uigwe \/ Uigwe \in Range(a.append)
  \/ Uigwe \in Range(IF a.set # <<>> THEN a.set ELSE ctx.route)

\* An entry is recorded as current: history does not count.
Enters(a) ==
  \/ a.surface = Uigwe \/ Uigwe \in Range(a.append)
  \/ a.set # <<>> /\ Last(a.set) = Uigwe

Updated(a) ==
  LET c == ctx
      requires == Uigwe \in Range(a.required)
      required == AddRequired(c.required, a.required)
      synced == IF requires \/ Enters(a) THEN SyncGate(c.gates, requires, Enters(a)) ELSE c.gates
      gates == UniqueAppend(UniqueAppend(synced, a.gates), IF a.receipt THEN <<ReceiptGate>> ELSE <<>>)
      required2 == UniqueAppend(required, IF a.receipt THEN <<Seungjeongwon>> ELSE <<>>)
      waived == UigweGate \in a.clear /\ UigweGate \in Range(gates) /\ ~Enters(a) IN
  [surface |-> IF a.surface = Nil THEN c.surface ELSE a.surface,
   route |-> UniqueAppend(IF a.set # <<>> THEN a.set ELSE c.route, a.append),
   required |-> IF waived THEN Without(required2, {Uigwe}) ELSE required2,
   gates |-> Without(gates, a.clear)]

--------------------------------------------------------------------------------
(* What the gates ask of a Context                                         *)

Pending(g) == g \in Range(ctx.gates)

\* has_valid_seungjeongwon_receipt: entered, nothing broken, and a run or a native receipt.
ReceiptValid ==
  /\ ctx.surface = Seungjeongwon /\ Seungjeongwon \in Range(ctx.route)
  /\ execRun \notin {"broken", "invalid"}
  /\ execRun # "none" \/ native
ReceiptMissing == Pending(ReceiptGate) /\ ~ReceiptValid

IsSubsequence(s, t) ==
  FoldLeft(LAMBDA i, x : IF i < Len(s) /\ x = s[i + 1] THEN i + 1 ELSE i, 0, t) = Len(s)
RouteSatisfied == ctx.required # <<>> /\ IsSubsequence(ctx.required, ctx.route)

\* A register is [is, live, ready, open, pending], where is is "none", "broken" or "register".
IsRegister == register.is = "register"
StageIncomplete == IsRegister /\ register.live /\ (register.open \/ register.pending \/ ~register.ready)

\* handle_pre_tool_use: does it deny the call?
Denies(t) ==
  /\ t.write
  /\ \/ t.protected /\ ~RouteSatisfied
     \/ Pending(UigweGate)
     \/ ReceiptMissing
     \/ ctx.surface = Uigwe /\ StageIncomplete /\ ~t.clarifies

\* handle_permission_request, for a call that needs escalation.
DeniesPermission(t) ==
  \/ t.protected /\ ~RouteSatisfied
  \/ t.write /\ (Pending(UigweGate) \/ ReceiptMissing)

\* Mutant: an answered question is a settled one.
UnfinishedOpen ==
  \/ ctx.gates # <<>>
  \/ register.is = "broken" \/ execRun \in {"broken", "invalid"} \/ capsule \in {"broken", "invalid"}
  \/ execRun = "active"
  \/ IsRegister /\ register.open

\* handle_stop, in its order: any of these keeps the turn going.
Unfinished ==
  \/ ctx.gates # <<>>
  \/ register.is = "broken" \/ execRun \in {"broken", "invalid"} \/ capsule \in {"broken", "invalid"}
  \/ execRun = "active"
  \/ IsRegister /\ (register.open \/ register.pending)

\* handle_precompact with a Context that applies: what stops it before and after the
\* checkpoints are written.
CompactRefuses == register.is = "broken" \/ execRun \in {"broken", "invalid"}
CompactRefusesLate == capsule \in {"broken", "invalid"}

--------------------------------------------------------------------------------
Init ==
  /\ load = "applies"
  /\ \E a \in Starts : ctx = Started(a) /\ owed = (Pending(UigweGate))
  /\ execRun = "none" /\ native = FALSE /\ register \in Registers /\ register.is = "none" /\ capsule = "none"
  /\ refusedStop = FALSE /\ checkpoint = Nil /\ event = Nil

\* Ghost, for owed: the caller says that Uigwe is current now.
SaysEntered(a) ==
  \E r \in {a.append, IF a.set = <<>> THEN <<>> ELSE <<Last(a.set)>>, <<a.surface>>} : Uigwe \in Range(r)

Update(a) ==
  /\ ctx' = Updated(a)
  /\ owed' = IF SaysEntered(a) /\ UigweGate \notin Range(a.gates) THEN FALSE
             ELSE IF UigweGate \in a.clear THEN FALSE
             ELSE owed \/ Uigwe \in Range(a.required) \/ UigweGate \in Range(a.gates)
  /\ event' = Nil
  /\ UNCHANGED <<load, artifacts, refusedStop, checkpoint>>

ArtifactsChange ==
  /\ \/ execRun' \in ExecRuns /\ UNCHANGED <<native, register, capsule>>
     \/ register' \in Registers /\ UNCHANGED <<execRun, native, capsule>>
     \/ capsule' \in Capsules /\ UNCHANGED <<execRun, native, register>>
     \/ native' \in BOOLEAN /\ UNCHANGED <<execRun, register, capsule>>
  /\ event' = Nil
  /\ UNCHANGED <<load, ctx, owed, refusedStop, checkpoint>>

\* The session moves to another repository, its binding is damaged, repaired ...
LoadChanges(l) ==
  /\ load' = l /\ event' = Nil
  /\ UNCHANGED <<ctx, owed, artifacts, refusedStop, checkpoint>>

\* A tool call that every hook lets through is performed (dispatch:1153-1217).
ToolCall(t) ==
  /\ load # "invalid binding"
  /\ load = "applies" => ~Denies(t) /\ (t.escalated => ~DeniesPermission(t))
  /\ event' = IF t.write THEN [kind |-> "write", clarifies |-> t.clarifies] ELSE Nil
  /\ refusedStop' = FALSE
  /\ UNCHANGED <<load, ctx, owed, artifacts, checkpoint>>

\* Stop: the host marks the turn that goes on after a refusal (stop_hook_active), which
\* may end then, except when the binding is invalid.
Stop ==
  LET refuses == load = "invalid binding" \/ (load = "applies" /\ Unfinished /\ ~refusedStop) IN
  /\ refusedStop' = refuses
  /\ event' = IF refuses THEN Nil ELSE [kind |-> "stop", asked |-> ~refusedStop]
  /\ UNCHANGED <<load, ctx, owed, artifacts, checkpoint>>

PreCompact ==
  /\ load \notin {"invalid binding", "unreadable", "missing"}
  /\ load = "applies" => ~CompactRefuses
  /\ checkpoint' = IF load = "applies" THEN (IF execRun = "active" THEN execRun ELSE Nil) ELSE checkpoint
  /\ event' = IF load = "applies" /\ CompactRefusesLate THEN Nil ELSE [kind |-> "compact"]
  /\ UNCHANGED <<load, ctx, owed, artifacts, refusedStop>>

\* SubagentStop: with a Context a valid brief is asked for, without one the words count.
LetsThrough(m) ==
  IF load = "applies" THEN m.brief = "valid" ELSE load = "unbound" => ~m.claims
SubagentStop(m) ==
  /\ LetsThrough(m)
  /\ event' = [kind |-> "worker", claims |-> m.claims]
  /\ UNCHANGED <<load, ctx, owed, artifacts, refusedStop, checkpoint>>

ToolCalls == [write : BOOLEAN, protected : BOOLEAN, clarifies : BOOLEAN, escalated : BOOLEAN]

Next ==
  \/ Stop \/ PreCompact \/ ArtifactsChange
  \/ \E a \in Updates : Update(a)
  \/ \E l \in Loads : LoadChanges(l)
  \/ \E t \in ToolCalls : ToolCall(t)
  \/ \E m \in Messages : SubagentStop(m)

Spec == Init /\ [][Next]_vars

--------------------------------------------------------------------------------
Happened(k) == event # Nil /\ event.kind = k /\ load = "applies"

\* "The gate remains pending across unrelated current-surface and route-history
\* updates" (docs/sejong/HOOKS.md:83): nothing is written while a Uigwe boundary that was
\* required has neither been entered as the current surface nor been waived, however
\* updates are combined (update_context:643-685, synchronize_uigwe_promotion_gate:254-270,
\* handle_pre_tool_use:821-864); a live Uigwe stage is only clarified.
BoundaryBlocksWrites ==
  /\ owed => Pending(UigweGate)
  /\ Happened("write") =>
       /\ ~owed
       /\ ctx.surface = Uigwe /\ StageIncomplete => event.clarifies
       /\ Pending(ReceiptGate) => execRun \in {"active", "done"} \/ native

\* A turn that ends the first time it asks leaves nothing that is owed: no gate, no open
\* or answered question, no run at work or unreadable; the second time it may always end
\* (handle_stop:984-1066).  A compaction that goes ahead finds the run at work checkpointed.
EndsSettled ==
  /\ Happened("stop") /\ event.asked =>
       /\ ~owed /\ ctx.gates = <<>>
       /\ execRun \in {"none", "done"}
       /\ register.is = "none" \/ (IsRegister /\ ~register.open /\ ~register.pending)
  /\ Happened("compact") /\ execRun = "active" => checkpoint = execRun

\* "Reject worker outputs that claim Uigwe gate approval, final synthesis, final
\* verification" (docs/sejong/HOOKS.md:207-208): what SubagentStop lets through under a
\* Context claims no such authority (handle_subagent_stop:924-964).
WorkersClaimNothing == Happened("worker") => ~event.claims
================================================================================
