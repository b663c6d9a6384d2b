----------------------------- MODULE DelegationRoute ---------------------------
(***************************************************************************)
(* The route of a task: delegation_route_contract.py, _scoring.py and      *)
(* _policy.py of docs/sejong/scripts.  Gates decide first; then every      *)
(* route collects points, capabilities of host and backend raise and sink  *)
(* them, and the highest score wins.                                       *)
(***************************************************************************)
EXTENDS Integers

CONSTANTS
  Tasks,     \* [class, breadth, coupling, risk, roi]
  Controls,  \* [uigwe, guardrail, authority, artifacts, mode, scopes]
  Hosts,     \* [needs, offers, healthy]
  Nil

ConstantsAssumption ==
  /\ \A c \in Controls : c.scopes \in {"none", "disjoint", "overlapping", "unknown"}
  /\ \A h \in Hosts : h.healthy \in BOOLEAN

VARIABLES case, chosen

vars == <<case, chosen>>

Routes == {"direct_execution", "bounded_subagents", "team_executor", "research_fanout",
           "no_write_dry_run"}
Native == {"bounded_subagents", "research_fanout"}

\* What the work needs of a backend, and what the host has been observed to offer:
\* "host", "cleanup" (exact release with evidence), "isolation", "messaging".
NeedsBackend(c) == c.needs # {}
FallbackReasons(c) ==
  ({"host", "cleanup"} \ c.offers) \cup (c.needs \cap {"process", "recovery"})
    \cup ((c.needs \cap {"isolation", "messaging"}) \ c.offers)

HardGateFailures(c) ==
  {g \in {"uigwe", "authority", "artifacts", "guardrail", "mode", "risk", "scopes"} :
     \/ g = "uigwe" /\ c.uigwe \in {"unstable", "required_missing"}
     \/ g = "authority" /\ c.authority # "evidence_only"
     \/ g = "artifacts" /\ c.artifacts # "sejong_home_or_promoted_refs"
     \/ g = "guardrail" /\ c.guardrail = "blocked"
     \/ g = "mode" /\ c.mode # "allowed"
     \/ g = "risk" /\ c.risk = "unsafe"
     \/ g = "scopes" /\ c.scopes \in {"overlapping", "unknown"} /\ NeedsBackend(c)}

\* Points that a rule gives when its condition holds.
Given(condition, points) == IF condition THEN points ELSE 0

Work == {"implementation", "refactor_cleanup", "validation_review", "bundle_execution"}

RouteScores(c) ==
  [r \in Routes |->
    CASE r = "direct_execution" ->
           Given(c.class \in {"simple_lookup", "install_maintenance"}, 3)
           + Given(c.breadth = "narrow", 2) + Given(c.roi = "low", 2)
           + Given(c.coupling \in {"isolated", "bounded"}, 1) + Given(c.risk \in {"none", "low"}, 1)
      [] r = "bounded_subagents" ->
           Given(c.class \in Work, 2) + Given(c.breadth \in {"moderate", "broad"}, 2)
           + Given(c.coupling \in {"isolated", "bounded"}, 2) + Given(c.roi # "low", 2)
           + Given(c.risk \in {"low", "medium"}, 1)
      [] r = "team_executor" ->
           Given(c.breadth = "broad", 2) + Given(c.roi = "high", 2)
           + Given(c.scopes = "disjoint", 3)
           + Given(c.scopes = "disjoint" /\ c.roi = "high", 1) + Given(c.class \in Work, 1)
           + Given(c.risk \in {"medium", "high"}, 1)
      [] r = "research_fanout" ->
           Given(c.class \in {"research", "architecture", "product_strategy"}, 3)
           + Given(c.breadth \in {"broad", "unknown"}, 2)
           + Given(c.risk \in {"none", "low"}, 1)
           + Given(c.coupling \notin {"isolated", "bounded"}, 1) + Given(c.roi # "low", 1)
      [] OTHER ->
           Given(c.guardrail = "weak", 4)
           + Given(c.coupling \in {"system_wide", "unknown"} /\ c.risk \in {"high", "unsafe"}, 4)
           + Given(c.scopes \in {"overlapping", "unknown"} /\ c.roi = "high", 2)
           + Given(c.uigwe \in {"required_missing", "unstable"}, 4)]

Least(a, b) == IF a < b THEN a ELSE b
Most(a, b) == IF a > b THEN a ELSE b

Capped(c, s) ==
  [s EXCEPT
    !["team_executor"] = IF c.roi = "low" THEN Least(IF c.scopes \in {"overlapping", "unknown"} THEN -1 ELSE @, 0)
                         ELSE IF c.scopes \in {"overlapping", "unknown"} THEN -1 ELSE @,
    !["bounded_subagents"] = LET n == IF c.scopes = "overlapping" THEN Least(@, 1) ELSE @ IN
                             IF c.roi = "low" THEN Least(n, 2) ELSE n,
    !["research_fanout"] = LET n == IF c.roi = "low" THEN Least(@, 2) ELSE @ IN
                           IF c.breadth = "narrow" /\ c.class \notin {"research", "architecture"}
                           THEN Least(n, 1) ELSE n]

\* A needed backend outbids the dry run; what the host cannot do is ruled out.
Backed(c, s) ==
  LET dry == s["no_write_dry_run"] + 1
      best == IF s["bounded_subagents"] >= s["research_fanout"] THEN "bounded_subagents"
              ELSE "research_fanout" IN
  [r \in Routes |->
    CASE NeedsBackend(c) /\ FallbackReasons(c) # {} ->
           IF r = "team_executor" THEN Most(s[r], dry)
           ELSE IF r = "no_write_dry_run" THEN s[r] ELSE -1
      [] NeedsBackend(c) /\ FallbackReasons(c) = {} ->
           IF r \in {"direct_execution", "team_executor"} THEN -1
           ELSE IF r = best THEN Most(s[r], dry) ELSE s[r]
      [] ~NeedsBackend(c) /\ FallbackReasons(c) # {} -> IF r \in Native THEN -1 ELSE s[r]
      [] OTHER -> IF r = "team_executor" THEN -1 ELSE s[r]]

\* Mutant: the health of the team executor is looked at before the backend is demanded.
AdjustedScoresHealthFirst(c) ==
  LET s == Capped(c, RouteScores(c)) IN
  Backed(c, IF c.healthy THEN s ELSE [s EXCEPT !["team_executor"] = -1])

AdjustedScores(c) ==
  LET s == Backed(c, Capped(c, RouteScores(c))) IN
  IF c.healthy THEN s ELSE [s EXCEPT !["team_executor"] = -1]

TieBreak == [r \in Routes |->
  CASE r = "no_write_dry_run" -> 5 [] r = "direct_execution" -> 4 [] r = "bounded_subagents" -> 3
    [] r = "research_fanout" -> 2 [] OTHER -> 1]

SelectRoute(c) ==
  IF HardGateFailures(c) # {} THEN "no_write_dry_run"
  ELSE LET s == AdjustedScores(c) IN
       CHOOSE r \in Routes : \A q \in Routes \ {r} :
         s[r] > s[q] \/ (s[r] = s[q] /\ TieBreak[r] > TieBreak[q])

\* Where the refused or researched task is taken up again.
Reentry(c) ==
  IF c.uigwe \in {"required_missing", "unstable"} THEN "uigwe"
  ELSE IF \/ c.guardrail \in {"weak", "blocked"}
          \/ SelectRoute(c) = "no_write_dry_run" /\ NeedsBackend(c) /\ ~c.healthy
       THEN "seungjeongwon"
  ELSE IF SelectRoute(c) = "research_fanout" THEN "jangyeongsil" ELSE "none"

Input(t, c, h) ==
  [class |-> t.class, breadth |-> t.breadth, coupling |-> t.coupling, risk |-> t.risk, roi |-> t.roi,
   uigwe |-> c.uigwe, guardrail |-> c.guardrail, authority |-> c.authority,
   artifacts |-> c.artifacts, mode |-> c.mode, scopes |-> c.scopes,
   needs |-> h.needs, offers |-> h.offers, healthy |-> h.healthy]

Init ==
  /\ \E t \in Tasks, c \in Controls, h \in Hosts : case = Input(t, c, h)
  /\ chosen = Nil
Evaluate ==
  /\ chosen = Nil
  /\ chosen' = [route |-> SelectRoute(case), reentry |-> Reentry(case)]
  /\ UNCHANGED case
Next == Evaluate

Spec == Init /\ [][Next]_vars

\* However the points fall: nothing is delegated or written past a failed gate; native
\* workers go only to a host that can do all the work needs; the team executor only when
\* it is healthy and scopes are known not to overlap; work that needs a backend of its own
\* is never done in the session; and a task that is not refused is not sent back for
\* want of a backend (hard_gate_failures:171-186, adjusted_scores:88-126, select_route:129-140).
RouteIsSupported ==
  chosen # Nil =>
    LET r == chosen.route IN
    /\ HardGateFailures(case) # {} => r = "no_write_dry_run"
    /\ r \in Native => FallbackReasons(case) = {}
    /\ r = "team_executor" => case.healthy /\ case.scopes \in {"none", "disjoint"}
    /\ NeedsBackend(case) => r # "direct_execution"
    /\ NeedsBackend(case) /\ HardGateFailures(case) = {} /\ (FallbackReasons(case) = {} \/ case.healthy)
         => r # "no_write_dry_run"
================================================================================
