------------------------------- MODULE MCEvidence -------------------------------
(*****************************************************************************)
(* What is kept of finished work and of effects outside, on small instances: *)
(* external actions and the lock their ledger is kept under, ticket runs,    *)
(* host leases, candidates and their review, work events.  A behaviour is    *)
(* one of a single component; the variables of the others are idle.          *)
(*****************************************************************************)
EXTENDS RuntimeLock, TLC

CONSTANTS
  Callers,                                               \* dispatchers, askers, recorders
  ActionIds, KeyOf, MaxTime, Window, MaxAge,             \* external actions
  Runners, Events, EventOf, Delegated, Mortal,           \* ticket runs
  Hosts, Repos, Tickets, LeaseIds, LeaseTime,            \* host leases
  Actors, Producer, Candidates, Requirements, MaxReceipts,   \* candidates
  EventIds, Runs, Patterns, MaxEvents                    \* work events

VARIABLE part   \* the component whose behaviour this is
VARIABLES
  honest, now, ledger, doing, job, performed, premature, \* external actions
  runner, outcome, child, accepted, marker, lease, worker, receipt, reporter,   \* ticket runs
  heartbeat, leases, asking, clock,                      \* host leases
  manifest, handoff, attempt, receipts, verification,    \* candidates
  lines, tail, writing, candidate                        \* work events

Actions == INSTANCE ExternalActions WITH Procs <- Callers, Actions <- ActionIds, pc <- doing
Ticket == INSTANCE TicketRun WITH pc <- runner
Hosting == INSTANCE HostLease WITH MaxTime <- LeaseTime, now <- clock
Review == INSTANCE CandidateReview
Lessons == INSTANCE WorkEvents WITH Recorders <- Callers, ledger <- lines

ASSUME ClockAssumption == Actions!ClockCounts
ASSUME TicketAssumption == Ticket!ConstantsAssumption
ASSUME ReviewAssumption == Review!NilIsNone

\* One key for all actions; one event for all runners but one.
CONSTANTS other, e1, e2, e3
OneKey == [a \in ActionIds |-> "key"]
TwoEvents == [p \in Runners |-> IF p = other THEN e2 ELSE e1]
OneHost == [p \in Procs |-> "a"]

acted == <<honest, now, ledger, doing, job, performed, premature>>
ticketed == <<runner, outcome, child, accepted, marker, lease, worker, receipt, reporter>>
hosted == <<heartbeat, leases, asking, clock>>
reviewed == <<manifest, handoff, attempt, receipts, verification>>
noted == <<lines, tail, writing, candidate>>
AllVars == <<part, vars, acted, ticketed, hosted, reviewed, noted>>

AllInit ==
  /\ part \in {"lock", "actions", "ticket", "host", "review", "events"}
  /\ Init
  /\ IF part = "actions" THEN Actions!Init
     ELSE honest = "idle" /\ now = "idle" /\ ledger = "idle" /\ doing = "idle" /\ job = "idle"
          /\ performed = "idle" /\ premature = "idle"
  /\ IF part = "ticket" THEN Ticket!Init
     ELSE runner = "idle" /\ outcome = "idle" /\ child = "idle" /\ accepted = "idle"
          /\ marker = "idle" /\ lease = "idle" /\ worker = "idle" /\ receipt = "idle"
          /\ reporter = "idle"
  /\ IF part = "host" THEN Hosting!Init
     ELSE heartbeat = "idle" /\ leases = "idle" /\ asking = "idle" /\ clock = "idle"
  /\ IF part = "review" THEN Review!Init
     ELSE manifest = "idle" /\ handoff = "idle" /\ attempt = "idle" /\ receipts = "idle"
          /\ verification = "idle"
  /\ IF part = "events" THEN Lessons!Init
     ELSE lines = "idle" /\ tail = "idle" /\ writing = "idle" /\ candidate = "idle"

AllNext ==
  /\ UNCHANGED part
  /\ \/ part = "lock" /\ Next /\ UNCHANGED <<acted, ticketed, hosted, reviewed, noted>>
     \/ part = "actions" /\ Actions!Next /\ UNCHANGED <<vars, ticketed, hosted, reviewed, noted>>
     \/ part = "ticket" /\ Ticket!Next /\ UNCHANGED <<vars, acted, hosted, reviewed, noted>>
     \/ part = "host" /\ Hosting!Next /\ UNCHANGED <<vars, acted, ticketed, reviewed, noted>>
     \/ part = "review" /\ Review!Next /\ UNCHANGED <<vars, acted, ticketed, hosted, noted>>
     \/ part = "events" /\ Lessons!Next /\ UNCHANGED <<vars, acted, ticketed, hosted, reviewed>>

AllSpec == AllInit /\ [][AllNext]_AllVars

AllSymmetry == Permutations(Callers) \cup Permutations(ActionIds)

--------------------------------------------------------------------------------
\* Only a back-dated cancellation keeps the ledger from being loaded again, and an effect is
\* performed at most once, inside its approval.
LedgerIsSound == part = "actions" => Actions!LedgerIsSound

\* Receipt, child, marker and terminal agree, and one event starts one process.
TicketInv == part = "ticket" => Ticket!TicketInv

\* A repository has one write lease at a time, and an id names one lease.
OneWriterPerRepo == part = "host" => Hosting!OneWriterPerRepo

\* A verified candidate was sealed, approved by another in the canonical lane, and verified.
VerifiedIsEarned == part = "review" => Review!VerifiedIsEarned

\* What is settled stays: an action's approval, dispatch and end, a ticket's sealed receipt
\* and terminal, and a reviewer's objection.
RecordsStand ==
  [][/\ part = "actions" => Actions!KeepsReceipts
     /\ part = "ticket" => Ticket!KeepsSealed
     /\ part = "review" => Review!KeepsObjection]_AllVars

\* A lesson candidate rests on the independent events of a ledger.
CandidateIsJustified == part = "events" => Lessons!CandidateIsJustified
================================================================================
