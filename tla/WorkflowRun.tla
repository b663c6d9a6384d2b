------------------------------- MODULE WorkflowRun -----------------------------
(***************************************************************************)
(* sejong_workflow_run.py: the artifact of one evaluated workflow run.     *)
(* Every command loads it, changes it, validates the whole and writes it   *)
(* in place, without a lock; the commands of one lead run one at a time.   *)
(***************************************************************************)
EXTENDS Integers, FiniteSets

CONSTANTS
  Starts,      \* the arguments of start: [kind, backend, mode, described]
  WorkerIds, Scopes, EvidenceIds, Evidence, MaxViolations, Nil, Torn

VARIABLES
  run,        \* the artifact, Nil before the first start, or Torn (cut off)
  writing,    \* what the command under way is writing, or Nil
  forced      \* TRUE in the step after which a start --force has replaced the run

vars == <<run, writing, forced>>

Recommendations == {"promote", "reject", "keep_shadowing", "unknown"}

Artifact ==
  [kind : STRING, provenance : [backend : STRING, described : BOOLEAN], mode : STRING,
   status : {"shadow", "completed"},
   workers : SUBSET [id : WorkerIds, scopes : SUBSET Scopes, claims : BOOLEAN],
   evidence : SUBSET [id : EvidenceIds, kind : STRING, status : STRING],
   comparison : [rec : Recommendations, delta : Int, reviewable : BOOLEAN],
   approval : [approved : BOOLEAN, reviewable : BOOLEAN],
   metrics : [workers : Nat, concurrent : Nat, unsupported : Nat],
   verified : BOOLEAN, violations : Nat, final : Recommendations]

ConstantsAssumption ==
  /\ Starts \subseteq [kind : STRING, backend : STRING, mode : STRING, described : BOOLEAN]
  /\ Evidence \subseteq [kind : STRING, status : STRING]
  /\ MaxViolations \in Nat /\ Nil \notin Artifact /\ Torn \notin Artifact

\* The run that start writes; provenance is described when its summary is specific and
\* its command refs are reviewable.
Fresh(a) ==
  [kind |-> a.kind, provenance |-> [backend |-> a.backend, described |-> a.described],
   mode |-> a.mode, status |-> "shadow", workers |-> {}, evidence |-> {},
   comparison |-> [rec |-> "unknown", delta |-> 0, reviewable |-> FALSE],
   approval |-> [approved |-> FALSE, reviewable |-> FALSE],
   metrics |-> [workers |-> 0, concurrent |-> 0, unsupported |-> 0],
   verified |-> FALSE, violations |-> 0, final |-> "unknown"]

Init == run = Nil /\ writing = Nil /\ forced = FALSE

HasKind(r, kind) == \E e \in r.evidence : e.kind = kind
Violating(r) == \E e \in r.evidence : e.kind = "authority_violation" \/ e.status = "violating"

ProvenanceValid(r) ==
  /\ r.provenance.backend = "other" => r.provenance.described
  /\ ~(r.mode = "promoted_backend" /\ r.provenance.backend = "manual_shadow")

\* Ids are unique, nobody's text claims authority, and a path has one writing worker.
WorkersValid(r) ==
  \A v, w \in r.workers : /\ v # w => v.id # w.id /\ v.scopes \cap w.scopes = {}
                          /\ ~w.claims
EvidenceValid(r) == \A d, e \in r.evidence : d # e => d.id # e.id

\* A recorded comparison names two distinct reviewable results and task-specific criteria.
ComparisonValid(r) ==
  r.comparison.rec # "unknown" \/ r.status = "completed" \/ r.final # "unknown"
    => r.comparison.reviewable

MetricsValid(r) ==
  /\ r.metrics.workers = Cardinality(r.workers)
  /\ r.metrics.concurrent \in (IF r.workers = {} THEN 0 ELSE 1) .. r.metrics.workers

\* Promotion asks for approval, a comparison that says so by a tenth, and a clean run.
PromotionValid(r) ==
  /\ r.mode = "promoted_backend" => r.final = "promote"
  /\ r.final = "promote" =>
    /\ r.approval.approved /\ r.approval.reviewable
    /\ r.comparison.rec = "promote" /\ r.comparison.delta >= 10
    /\ r.violations = 0 /\ r.verified /\ ~Violating(r)

\* Mutant: the final recommendation need not be the comparison's.
CompletionUnmatched(r) ==
  r.status = "completed" => r.verified /\ HasKind(r, "verification_ref") /\ r.final # "unknown"

CompletionValid(r) ==
  r.status = "completed" =>
    /\ r.verified /\ HasKind(r, "verification_ref")
    /\ r.kind = "deep_research" =>
         /\ HasKind(r, "source_ref") /\ HasKind(r, "cross_check")
         /\ r.metrics.unsupported > 0 => HasKind(r, "discarded_claim")
    /\ r.final # "unknown" /\ r.final = r.comparison.rec

Valid(r) ==
  /\ ProvenanceValid(r) /\ WorkersValid(r) /\ EvidenceValid(r) /\ ComparisonValid(r) /\ MetricsValid(r)
  /\ PromotionValid(r) /\ CompletionValid(r)
  /\ Violating(r) => r.violations > 0

Loaded == writing = Nil /\ run \notin {Nil, Torn}

\* Every command but start: what fails validation is not written.
Save(r) ==
  /\ Valid(r) /\ writing' = r /\ forced' = FALSE /\ UNCHANGED run

Start(a, force) ==
  /\ writing = Nil /\ (run # Nil => force) /\ Valid(Fresh(a))
  /\ writing' = Fresh(a) /\ forced' = TRUE /\ UNCHANGED run

AddWorker(id, scopes, claims) ==
  /\ Loaded
  /\ LET ws == run.workers \cup {[id |-> id, scopes |-> scopes, claims |-> claims]}
         n == Cardinality(run.workers) + 1 IN
     /\ \A w \in run.workers : w.id # id
     /\ Save([run EXCEPT !.workers = ws, !.metrics.workers = n,
                !.metrics.concurrent = IF @ > n THEN @ ELSE n])

AddEvidence(id, kind, status) ==
  /\ Loaded /\ \A e \in run.evidence : e.id # id
  /\ Save([run EXCEPT !.evidence = @ \cup {[id |-> id, kind |-> kind, status |-> status]}])

RecordComparison(rec, delta, reviewable) ==
  Loaded /\ Save([run EXCEPT !.comparison = [rec |-> rec, delta |-> delta, reviewable |-> reviewable]])

RecordMetrics(workers, concurrent, unsupported) ==
  Loaded /\ Save([run EXCEPT !.metrics = [workers |-> workers, concurrent |-> concurrent,
                                          unsupported |-> unsupported]])

RecordApproval(reviewable) ==
  Loaded /\ Save([run EXCEPT !.approval = [approved |-> TRUE, reviewable |-> reviewable]])

AddViolation ==
  /\ Loaded /\ run.violations < MaxViolations
  /\ Save([run EXCEPT !.violations = @ + 1])

Complete(final) ==
  Loaded /\ Save([run EXCEPT !.status = "completed", !.verified = TRUE, !.final = final])

\* write_text truncates and writes; a command that dies between leaves no JSON.
WriteOut ==
  /\ writing # Nil
  /\ run' = writing
  /\ writing' = Nil /\ UNCHANGED forced
CommandDies ==
  /\ writing # Nil
  /\ run' \in {run, Torn} /\ writing' = Nil /\ UNCHANGED forced

Next ==
  \/ \E a \in Starts, force \in BOOLEAN : Start(a, force)
  \/ \E id \in WorkerIds, ss \in SUBSET Scopes, c \in BOOLEAN : AddWorker(id, ss, c)
  \/ \E id \in EvidenceIds, e \in Evidence : AddEvidence(id, e.kind, e.status)
  \/ \E rec \in Recommendations, d \in {0, 10}, ok \in BOOLEAN : RecordComparison(rec, d, ok)
  \/ \E w, c \in 0 .. Cardinality(WorkerIds), u \in {0, 1} : RecordMetrics(w, c, u)
  \/ \E ok \in BOOLEAN : RecordApproval(ok)
  \/ AddViolation
  \/ \E f \in Recommendations : Complete(f)
  \/ WriteOut \/ CommandDies

Spec == Init /\ [][Next]_vars

\* Once a run is completed no sequence of commands moves its recommendation, not even one
\* that records another comparison first, and a promoted run never comes to hold a
\* violation; only start --force begins again (run_failures:498-571, complete:747-759).
KeepsVerdict ==
  /\ run \notin {Nil, Torn} /\ run.status = "completed" /\ run' \notin {Nil, Torn} /\ ~forced
     => run'.status = "completed" /\ run'.final = run.final
  /\ run' \notin {Nil, Torn} /\ run'.final = "promote" => run'.violations = 0
================================================================================
