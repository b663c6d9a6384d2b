------------------------------- MODULE LiveSession -------------------------------
(***************************************************************************)
(* The live Uigwe session, docs/sejong/scripts/                            *)
(* live_session_orchestrator.py: what the user has answered about the      *)
(* intent and the design is scored against policy.defaults.json, and the   *)
(* session asks on, asks for approval, or is ready for decomposition.      *)
(* What it asks is written, as the ambiguity register the hooks enforce.   *)
(* Scores are percentages, weighted sums hundredths of them.               *)
(***************************************************************************)
EXTENDS Naturals, Sequences, FiniteSets

CONSTANTS
  Intents, Designs,   \* what the state file may say: the answers, see below
  Modes,              \* of "full", "design-to-plan" and "decompose-only"
  Profiles,           \* what the state file may name: "greenfield", "brownfield" or Nil
  Nil

\* The answers as the scores measure them.
Approvals == {Nil, "pending", "approved", "waived"}
Records == [n : Nat, complete : Nat]
Intent ==
  [goal : 0..3, why : 0..3, scope : Nat, nonGoals : Nat, boundaries : Records, constraints : Nat,
   acceptance : Records, questions : Nat, status : Approvals, explicit : BOOLEAN]
Design ==
  [frame : 0..3, approach : [title : 0..3, summary : 0..3], alternatives : Nat, tradeoffs : Nat,
   decisions : Nat, assumptions : Nat, risks : Records, validation : Nat,
   status : Approvals, explicit : BOOLEAN]

ConstantsAssumption ==
  /\ Intents \subseteq Intent /\ Designs \subseteq Design
  /\ Modes \subseteq {"full", "design-to-plan", "decompose-only"}
  /\ Nil \notin {"pending", "approved", "waived"}

VARIABLES
  mode, profile, live, intent, design,
  action,      \* the last result: Nil or [type, stage, questions]
  register     \* the file of --write-register: Nil or [stage, blocking]

vars == <<mode, profile, live, intent, design, action, register>>

--------------------------------------------------------------------------------
(* Scores.  A text is 0 (blank) to 3 (long); a list is its length; a list of *)
(* records is [n, complete], its length and its complete members.            *)

TextScore(t) == <<0, 45, 80, 100>>[t + 1]
ListScore(n, full, partial) == IF n = 0 THEN 0 ELSE IF n >= full THEN 100 ELSE partial
OneComplete(l) == IF l.n = 0 THEN 0 ELSE IF l.complete >= 1 THEN 100 ELSE 40
AcceptanceScore(l) == ListScore(l.complete, 2, 55)
OpenScore(n) == 100 - 25 * (IF n > 4 THEN 4 ELSE n)
ApproachScore(a) ==
  IF a.title = 0 /\ a.summary = 0 THEN 0 ELSE IF a.title > 0 /\ a.summary > 0 THEN 100 ELSE 45

IntentDimensions(i) ==
  [goal |-> TextScore(i.goal), why |-> TextScore(i.why), scope |-> ListScore(i.scope, 2, 55),
   nonGoals |-> ListScore(i.nonGoals, 2, 55), boundaries |-> OneComplete(i.boundaries),
   constraints |-> ListScore(i.constraints, 2, 55), acceptance |-> AcceptanceScore(i.acceptance),
   questions |-> OpenScore(i.questions)]
DesignDimensions(d) ==
  [frame |-> TextScore(d.frame), approach |-> ApproachScore(d.approach), alternatives |-> ListScore(d.alternatives, 2, 55),
   tradeoffs |-> ListScore(d.tradeoffs, 2, 55), decisions |-> ListScore(d.decisions, 2, 55),
   assumptions |-> ListScore(d.assumptions, 1, 40), risks |-> OneComplete(d.risks),
   validation |-> ListScore(d.validation, 1, 40)]

\* weighted_score, with the policy's weights.
IntentReadiness(dims) ==
  20 * dims.goal + 10 * dims.why + 15 * dims.scope + 15 * dims.nonGoals + 15 * dims.boundaries
    + 10 * dims.constraints + 10 * dims.acceptance + 5 * dims.questions
DesignReadiness(dims) ==
  14 * dims.frame + 20 * dims.approach + 16 * dims.alternatives + 16 * dims.tradeoffs
    + 12 * dims.decisions + 8 * dims.assumptions + 8 * dims.risks + 6 * dims.validation

IntentRequired == {"goal", "why", "scope", "nonGoals", "boundaries", "constraints", "acceptance"}
DesignRequired == {"frame", "approach", "alternatives", "tradeoffs", "decisions", "validation"}
Gaps(dims, required) == {d \in required : dims[d] = 0}

\* Mutant: half an answer is not a weak one.
WeakHalf(dims) == {d \in DOMAIN dims : dims[d] < 50}

\* top_weak_dimensions; what is missing altogether is among them.
Weak(dims) == {d \in DOMAIN dims : dims[d] < 85}

\* resolve_profile, and its thresholds.
Resolved == IF profile # Nil THEN profile ELSE IF mode = "decompose-only" THEN "brownfield" ELSE "greenfield"
IntentThreshold == IF Resolved = "greenfield" THEN 6800 ELSE 7200
DesignThreshold == IF Resolved = "greenfield" THEN 7000 ELSE 7600

IntentUnclear ==
  LET dims == IntentDimensions(intent) IN
  IntentReadiness(dims) < IntentThreshold \/ Gaps(dims, IntentRequired) # {}
DesignUnclear ==
  LET dims == DesignDimensions(design) IN
  DesignReadiness(dims) < DesignThreshold \/ Gaps(dims, DesignRequired) # {}

\* How many questions are asked: one for each weak dimension, the user's own open ones in
\* place of theirs, six at most.
AtMostSix(n) == IF n > 6 THEN 6 ELSE n
IntentQuestions ==
  LET weak == Weak(IntentDimensions(intent)) IN
  AtMostSix(Cardinality(weak \ {"questions"}) + (IF "questions" \in weak THEN intent.questions ELSE 0))
DesignQuestions == AtMostSix(Cardinality(Weak(DesignDimensions(design))))

\* Mutant: any waiver counts.
ApprovedSilently(p) == p.status \in {"approved", "waived"}

\* approval_satisfied: a live session's waiver has to be explicit.
Approved(p) == p.status = "approved" \/ (p.status = "waived" /\ (~live \/ p.explicit))

\* Is the intent's approval asked for?  design-to-plan takes a summary that has no status.
IntentToApprove ==
  \/ mode = "full" /\ ~Approved(intent)
  \/ mode = "design-to-plan" /\ intent.status # Nil /\ ~Approved(intent)

--------------------------------------------------------------------------------
Init ==
  /\ mode \in Modes /\ profile \in Profiles /\ live \in BOOLEAN
  /\ intent \in Intents /\ design \in Designs
  /\ action = Nil /\ register = Nil

\* The user answers, or the lead edits the state file.
AnswerIntent(i) ==
  /\ i # intent /\ intent' = i /\ action' = Nil
  /\ UNCHANGED <<mode, profile, live, design, register>>
AnswerDesign(d) ==
  /\ d # design /\ design' = d /\ action' = Nil
  /\ UNCHANGED <<mode, profile, live, intent, register>>

\* evaluate_live_session, and main's --write-register: what asks something writes the
\* register, what asks nothing leaves the last one there.
Result(type, stage, questions) ==
  /\ action' = [type |-> type, stage |-> stage, questions |-> questions]
  /\ register' = IF questions > 0 THEN [stage |-> stage, blocking |-> questions] ELSE register
  /\ UNCHANGED <<mode, profile, live, intent, design>>

AsksIntent == mode # "decompose-only" /\ (IntentUnclear \/ IntentToApprove)
AskIntent ==
  /\ mode # "decompose-only" /\ IntentUnclear
  /\ Result(IF mode = "full" THEN "ask_questions" ELSE "reenter_deep_interview", "intent_clarification", IntentQuestions)
ApproveIntent ==
  /\ mode # "decompose-only" /\ ~IntentUnclear /\ IntentToApprove
  /\ Result("request_approval", "intent_clarification", 1)
AskDesign ==
  /\ ~AsksIntent /\ DesignUnclear
  /\ Result(IF mode = "decompose-only" THEN "reenter_brainstorming" ELSE "ask_questions", "design_clarification", DesignQuestions)
ApproveDesign ==
  /\ ~AsksIntent /\ ~DesignUnclear /\ ~Approved(design)
  /\ Result("request_approval", "design_clarification", 1)
Ready ==
  /\ ~AsksIntent /\ ~DesignUnclear /\ Approved(design)
  /\ Result("ready_for_decomposition", "decomposition", 0)

Next ==
  \/ AskIntent \/ ApproveIntent \/ AskDesign \/ ApproveDesign \/ Ready
  \/ \E i \in Intents : AnswerIntent(i)
  \/ \E d \in Designs : AnswerDesign(d)

Spec == Init /\ [][Next]_vars

--------------------------------------------------------------------------------
\* No gate is "skipped or silently waived" (docs/sejong/VALIDATION.md:72, 766).  A session
\* that is not ready always asks something, so the register the hooks enforce is written and
\* blocks its stage: whatever the answers, a score below the threshold has a dimension weak
\* enough to ask about.  One that is ready has both summaries approved, or waived in so many
\* words by a live user, as far as its mode looks at them, and nothing required is missing
\* (evaluate_live_session:412-535, top_weak_dimensions:172-174, main:538-553).
GatesAreAsked ==
  action # Nil =>
    IF action.type = "ready_for_decomposition"
    THEN /\ \A p \in {intent, design} :
              \/ p.status = "approved" \/ (p.status = "waived" /\ (live => p.explicit))
              \/ p = intent /\ (mode = "decompose-only" \/ (mode = "design-to-plan" /\ p.status = Nil))
         /\ design.approach # [title |-> 0, summary |-> 0]
         /\ mode # "decompose-only" => intent.goal > 0 /\ intent.acceptance.complete > 0
    ELSE action.questions > 0 /\ register = [stage |-> action.stage, blocking |-> action.questions]
================================================================================
