---------------------------- MODULE CandidateReview ----------------------------
(***************************************************************************)
(* From a worker's candidate to a verified ticket: candidate_handoff.py    *)
(* seals an evidence manifest and a handoff that names its digest,         *)
(* candidate_review.py turns dispatches into review receipts and reduces   *)
(* them to a state, ticket_evidence_state.py adds the Core's own           *)
(* verification.  Seals and digests are collision free: a sealed record    *)
(* that was changed is rejected, so it does not occur.                     *)
(***************************************************************************)
EXTENDS Naturals, FiniteSets

CONSTANTS
  Actors,       \* the producer and possible reviewers
  Producer,
  Candidates,   \* what the attempts at a handoff would seal; one digest each
  Requirements, \* verification requirements of the ticket
  MaxReceipts,
  Nil

VARIABLES
  manifest,     \* the candidate evidence-manifest.json was written for, or Nil
  handoff,      \* the candidate candidate-handoff.json was written for, or Nil
  attempt,      \* where each candidate's attempt at the handoff is
  receipts,     \* review receipts
  verification  \* the Core's verification: Nil, or candidate, verdict, what it satisfied

vars == <<manifest, handoff, attempt, receipts, verification>>

Lanes == {"sol", "antigravity"}
Verdicts == {"approved", "changes_requested", "blocked"}

Init ==
  /\ manifest = Nil /\ handoff = Nil /\ attempt = [c \in Candidates |-> "idle"]
  /\ receipts = {} /\ verification = Nil

Goto(c, l) == attempt' = [attempt EXCEPT ![c] = l]

\* write_candidate_handoff, up to and including the look for earlier files
StartHandoff(c) ==
  /\ attempt[c] = "idle" /\ manifest = Nil /\ handoff = Nil
  /\ Goto(c, "manifest")
  /\ UNCHANGED <<manifest, handoff, receipts, verification>>

\* Mutant: the earlier look is thought to be enough, and the file is replaced.
WriteManifestOver(c) ==
  /\ attempt[c] = "manifest"
  /\ manifest' = c /\ Goto(c, "handoff")
  /\ UNCHANGED <<handoff, receipts, verification>>
WriteManifest(c) ==
  /\ attempt[c] = "manifest"
  /\ IF manifest = Nil THEN manifest' = c /\ Goto(c, "handoff")
     ELSE Goto(c, "refused") /\ UNCHANGED manifest
  /\ UNCHANGED <<handoff, receipts, verification>>

WriteHandoff(c) ==
  /\ attempt[c] = "handoff"
  /\ IF handoff = Nil THEN handoff' = c /\ Goto(c, "sealed")
     ELSE Goto(c, "refused") /\ UNCHANGED handoff
  /\ UNCHANGED <<manifest, receipts, verification>>

HandoffDies(c) ==
  /\ attempt[c] \in {"manifest", "handoff"}
  /\ Goto(c, "idle")
  /\ UNCHANGED <<manifest, handoff, receipts, verification>>

\* build_review_dispatch, and review_receipt of what it built.  The producer is what the
\* caller says: the code compares two ids, and these callers give the one that is true.
Dispatchable(reviewer, lane, shadow) ==
  reviewer # Producer /\ shadow = (lane = "antigravity")

Review(c, reviewer, lane, shadow, verdict, satisfied, unknowns) ==
  /\ handoff # Nil /\ Cardinality(receipts) < MaxReceipts
  /\ Dispatchable(reviewer, lane, shadow)
  /\ receipts' = receipts \cup
       {[candidate |-> c, reviewer |-> reviewer, lane |-> lane, shadow |-> shadow,
         verdict |-> verdict, satisfied |-> satisfied, unknowns |-> unknowns]}
  /\ UNCHANGED <<manifest, handoff, attempt, verification>>

CoreVerifies(c, passed, satisfied, evidence) ==
  /\ handoff # Nil
  /\ verification' = [candidate |-> c, passed |-> passed, satisfied |-> satisfied,
                      evidence |-> evidence]
  /\ UNCHANGED <<manifest, handoff, attempt, receipts>>

Next ==
  \/ \E c \in Candidates : StartHandoff(c) \/ WriteManifest(c) \/ WriteHandoff(c) \/ HandoffDies(c)
  \/ \E c \in Candidates, reviewer \in Actors, lane \in Lanes, shadow \in BOOLEAN,
        verdict \in Verdicts, satisfied \in SUBSET Requirements, unknowns \in BOOLEAN :
       Review(c, reviewer, lane, shadow, verdict, satisfied, unknowns)
  \/ \E c \in Candidates, passed \in BOOLEAN, satisfied \in SUBSET Requirements,
        evidence \in BOOLEAN : CoreVerifies(c, passed, satisfied, evidence)

Spec == Init /\ [][Next]_vars

\* evaluate_candidate: only the canonical lane counts, an objection before an approval.
Canonical(c) == {r \in receipts : r.candidate = c /\ r.lane = "sol" /\ ~r.shadow}
Objects(c, verdict) == \E r \in Canonical(c) : r.verdict = verdict
Approves(c) ==
  \E r \in Canonical(c) :
    r.verdict = "approved" /\ Requirements \subseteq r.satisfied /\ ~r.unknowns

\* Mutant: an approval settles the matter.
ReviewStateApproved(c) ==
  IF Approves(c) THEN "review_approved"
  ELSE IF Objects(c, "changes_requested") THEN "changes_requested"
  ELSE IF Objects(c, "blocked") THEN "blocked" ELSE "review_pending"
ReviewState(c) ==
  IF Objects(c, "changes_requested") THEN "changes_requested"
  ELSE IF Objects(c, "blocked") THEN "blocked"
  ELSE IF Approves(c) THEN "review_approved" ELSE "review_pending"

\* reduce_ticket_state; Nil: it refuses, as the verification is of another candidate.
EvidenceComplete ==
  verification.passed /\ Requirements \subseteq verification.satisfied /\ verification.evidence
TicketState(c) ==
  LET s == ReviewState(c)
      pre == IF s = "review_approved" THEN "final_verification_pending" ELSE s IN
  IF verification = Nil \/ s # "review_approved" THEN
    IF verification # Nil /\ verification.candidate # c THEN Nil ELSE pre
  ELSE IF verification.candidate # c THEN Nil
  ELSE IF EvidenceComplete THEN "verified"
  ELSE IF ~verification.passed THEN "blocked" ELSE pre

\* The handoff names the manifest beside it, whoever raced or died
\* (write_candidate_handoff:120-165); a ticket is verified only of a candidate that
\* another actor (by the ids that callers give truthfully) approved in the canonical
\* lane for every requirement, that nobody objected to, and that the Core verified
\* itself (evaluate_candidate:207-238, reduce_ticket_state:46-74).
VerifiedIsEarned ==
  /\ handoff # Nil => manifest = handoff
  /\ \A c \in Candidates : TicketState(c) = "verified" =>
       /\ verification.candidate = c /\ verification.passed
       /\ \E r \in receipts : /\ r.candidate = c /\ r.reviewer # Producer /\ r.lane = "sol"
                              /\ r.verdict = "approved" /\ r.satisfied = Requirements
       /\ \A r \in receipts : r.candidate = c /\ r.verdict # "approved" => r.lane = "antigravity"

NilIsNone == Nil \notin Candidates \cup {"verified"}

\* Further receipts never lift an objection (evaluate_candidate:221-224).
KeepsObjection ==
  \A c \in Candidates :
    ReviewState(c) \in {"changes_requested", "blocked"} =>
      ReviewState(c)' \in {"changes_requested", "blocked"}
================================================================================
