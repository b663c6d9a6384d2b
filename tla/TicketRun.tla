------------------------------- MODULE TicketRun -------------------------------
(***************************************************************************)
(* One ticket run by a Codex process: the idempotency store of its inbound *)
(* events (discord_idempotency.py), the runner (codex_ticket_runner.py),   *)
(* the child it starts and supervises (codex_subprocess_adapter.py), the   *)
(* binding to a TeamExecutor worker (codex_ticket_binding.py), the sealed  *)
(* receipt and the terminal receipt in the delegation run.                 *)
(*                                                                         *)
(* A runner is one process that handles one delivery of one event and then *)
(* ends.  The store and the delegation run are locked, so accepting an     *)
(* event and recording a terminal are steps; the rest interleaves.         *)
(***************************************************************************)
EXTENDS Naturals

CONSTANTS
  Runners,    \* processes that run the ticket
  Events,     \* inbound events that ask for it
  EventOf,    \* the event each runner has been given, in [Runners -> Events]
  Delegated,  \* is the ticket bound to a TeamExecutor worker, or read-only?
  Mortal,     \* runners that may be killed, a subset of Runners
  Nil

ProcessStatus == {"completed", "failed", "timed_out", "cancelled"}
TerminalStatus == {"completed", "failed", "timed_out", "blocked"}
Exited == {"succeeded", "failed"}
Location == {"event", "sealed", "marker", "lease", "core", "launch", "wait",
             "write", "record", "done", "refused", "killed"}
Ended == {"done", "refused", "killed"}

ASSUME ConstantsAssumption ==
  /\ EventOf \in [Runners -> Events]
  /\ Delegated \in BOOLEAN
  /\ Nil \notin ProcessStatus \cup TerminalStatus \cup {"dry_run", "runner", "lead"}

VARIABLES
  pc,        \* what each runner does next
  outcome,   \* the result it is about to seal
  child,     \* the child it has started
  accepted,  \* the idempotency store
  marker,    \* does the ticket's cancellation marker exist?
  lease,     \* are the worker's leases active?
  worker,    \* the status of the worker in the delegation run
  receipt,   \* ticket-run-receipt.json
  reporter   \* who recorded the terminal: a runner, the lead, or nobody yet

vars == <<pc, outcome, child, accepted, marker, lease, worker, receipt, reporter>>

Init ==
  /\ pc = [p \in Runners |-> "event"]
  /\ outcome = [p \in Runners |-> Nil]
  /\ child = [p \in Runners |-> "none"]
  /\ accepted = {}
  /\ marker = FALSE
  /\ lease = TRUE
  /\ worker = "launched"
  /\ receipt = Nil
  /\ reporter = Nil

\* Runner p goes from location a to location b.
Move(p, a, b) == pc[p] = a /\ pc' = [pc EXCEPT ![p] = b]

-----------------------------------------------------------------------------
(* Before the process                                                      *)

\* A store that is consulted only for the event's ticket.
AcceptAgain(p) ==
  /\ Move(p, "event", "sealed")
  /\ accepted' = accepted \cup {EventOf[p]}
  /\ UNCHANGED <<outcome, child, marker, lease, worker, receipt, reporter>>

\* IdempotencyStore.accept: a duplicate is not run.
Accept(p) ==
  /\ Move(p, "event", IF EventOf[p] \in accepted THEN "refused" ELSE "sealed")
  /\ accepted' = accepted \cup {EventOf[p]}
  /\ UNCHANGED <<outcome, child, marker, lease, worker, receipt, reporter>>

CheckReceipt(p) ==
  /\ Move(p, "sealed", IF receipt # Nil THEN "refused" ELSE "marker")
  /\ UNCHANGED <<outcome, child, accepted, marker, lease, worker, receipt, reporter>>

\* A cancelled ticket is sealed without a process, a dry run without a binding;
\* whether it is a dry run is in the request, which this runner alone has.
CheckMarker(p) ==
  /\ \/ /\ marker
        /\ Move(p, "marker", "lease")
        /\ outcome' = [outcome EXCEPT ![p] = "cancelled"]
     \/ /\ ~marker
        /\ Move(p, "marker", "write")
        /\ outcome' = [outcome EXCEPT ![p] = "dry_run"]
     \/ /\ ~marker
        /\ Move(p, "marker", "lease")
        /\ UNCHANGED outcome
  /\ UNCHANGED <<child, accepted, marker, lease, worker, receipt, reporter>>

\* validate_delegation_binding reads the leases, and the delegation run after
\* them.
CheckLease(p) ==
  /\ Move(p, "lease", IF Delegated /\ ~lease THEN "refused" ELSE "core")
  /\ UNCHANGED <<outcome, child, accepted, marker, lease, worker, receipt, reporter>>

CheckCore(p) ==
  /\ Move(p, "core", IF Delegated /\ worker # "launched" THEN "refused"
                     ELSE IF outcome[p] = "cancelled" THEN "write" ELSE "launch")
  /\ UNCHANGED <<outcome, child, accepted, marker, lease, worker, receipt, reporter>>

-----------------------------------------------------------------------------
(* The process                                                             *)

\* SubprocessCodexProcess.run looks for the marker once more; the start of
\* the child may fail.
Launch(p) ==
  /\ \/ /\ Move(p, "launch", "write")
        /\ outcome' = [outcome EXCEPT ![p] = IF marker THEN "cancelled" ELSE "failed"]
        /\ UNCHANGED child
     \/ /\ ~marker
        /\ Move(p, "launch", "wait")
        /\ child' = [child EXCEPT ![p] = "running"]
        /\ UNCHANGED outcome
  /\ UNCHANGED <<accepted, marker, lease, worker, receipt, reporter>>

\* The child ends by itself, whether its runner lives or not.
ChildExits(p) ==
  /\ child[p] = "running"
  /\ \E s \in Exited : child' = [child EXCEPT ![p] = s]
  /\ UNCHANGED <<pc, outcome, accepted, marker, lease, worker, receipt, reporter>>

ReadExit(p) ==
  /\ child[p] \in Exited
  /\ Move(p, "wait", "write")
  /\ outcome' = [outcome EXCEPT ![p] = IF child[p] = "succeeded" THEN "completed" ELSE "failed"]
  /\ UNCHANGED <<child, accepted, marker, lease, worker, receipt, reporter>>

\* _stop; the child may have ended since it was found running.
Stop(p, status) ==
  /\ Move(p, "wait", "write")
  /\ outcome' = [outcome EXCEPT ![p] = status]
  /\ child' = [child EXCEPT ![p] = IF @ = "running" THEN "stopped" ELSE @]
  /\ UNCHANGED <<accepted, marker, lease, worker, receipt, reporter>>

\* A supervisor that looks for the marker only before the launch.
IgnoreMarker(p) == FALSE /\ UNCHANGED vars

SeeMarker(p) == marker /\ Stop(p, "cancelled")

TimeOut(p) == Stop(p, "timed_out")

-----------------------------------------------------------------------------
(* After the process                                                       *)

AfterSeal(p) == IF Delegated /\ outcome[p] # "dry_run" THEN "record" ELSE "done"

\* A receipt that is replaced.
WriteReceiptOver(p) ==
  /\ Move(p, "write", AfterSeal(p))
  /\ receipt' = outcome[p]
  /\ UNCHANGED <<outcome, child, accepted, marker, lease, worker, reporter>>

\* A retry that goes on from a receipt it finds.
WriteReceiptOnce(p) ==
  /\ Move(p, "write", AfterSeal(p))
  /\ receipt' = IF receipt = Nil THEN outcome[p] ELSE receipt
  /\ UNCHANGED <<outcome, child, accepted, marker, lease, worker, reporter>>

\* os.link: the receipt is created once; whoever comes second has lost its result.
WriteReceipt(p) ==
  /\ Move(p, "write", IF receipt = Nil THEN AfterSeal(p) ELSE "refused")
  /\ receipt' = IF receipt = Nil THEN outcome[p] ELSE receipt
  /\ UNCHANGED <<outcome, child, accepted, marker, lease, worker, reporter>>

Disposition(status) == IF status = "cancelled" THEN "blocked" ELSE status

\* record_terminal_receipt refuses when the worker has its terminal already.
RecordTerminal(p) ==
  /\ IF worker = "launched"
     THEN /\ Move(p, "record", "done")
          /\ worker' = Disposition(outcome[p])
          /\ reporter' = "runner"
     ELSE Move(p, "record", "refused") /\ UNCHANGED <<worker, reporter>>
  /\ UNCHANGED <<outcome, child, accepted, marker, lease, receipt>>

-----------------------------------------------------------------------------
(* Around the runners                                                      *)

Kill(p) ==
  /\ p \in Mortal /\ pc[p] \notin Ended
  /\ pc' = [pc EXCEPT ![p] = "killed"]
  /\ UNCHANGED <<outcome, child, accepted, marker, lease, worker, receipt, reporter>>

Cancel ==
  /\ ~marker /\ marker' = TRUE
  /\ UNCHANGED <<pc, outcome, child, accepted, lease, worker, receipt, reporter>>

\* release_lease asks nobody.
ReleaseLease ==
  /\ lease /\ lease' = FALSE
  /\ UNCHANGED <<pc, outcome, child, accepted, marker, worker, receipt, reporter>>

\* The lead records a terminal itself.
LeadRecords ==
  /\ worker = "launched" /\ Delegated
  /\ worker' \in TerminalStatus
  /\ reporter' = "lead"
  /\ UNCHANGED <<pc, outcome, child, accepted, marker, lease, receipt>>

Run(p) ==
  \/ Accept(p) \/ CheckReceipt(p) \/ CheckMarker(p) \/ CheckLease(p) \/ CheckCore(p)
  \/ Launch(p) \/ ReadExit(p) \/ WriteReceipt(p) \/ RecordTerminal(p)

AllEnded ==
  /\ \A p \in Runners : pc[p] \in Ended /\ child[p] # "running"
  /\ UNCHANGED vars

Next ==
  \/ \E p \in Runners : \/ Run(p) \/ SeeMarker(p) \/ TimeOut(p)
                        \/ ChildExits(p) \/ Kill(p)
  \/ Cancel \/ ReleaseLease \/ LeadRecords \/ AllEnded

Spec == Init /\ [][Next]_vars

\* A runner that lives goes on: it looks for the marker every quarter of a
\* second, which does not depend on the deadline.
FairSpec ==
  /\ Spec
  /\ \A p \in Runners : WF_vars(Run(p)) /\ WF_vars(SeeMarker(p))

-----------------------------------------------------------------------------
(* Properties                                                              *)

TypeOK ==
  /\ pc \in [Runners -> Location]
  /\ outcome \in [Runners -> ProcessStatus \cup {"dry_run", Nil}]
  /\ child \in [Runners -> {"none", "running", "stopped"} \cup Exited]
  /\ accepted \subseteq Events
  /\ marker \in BOOLEAN /\ lease \in BOOLEAN
  /\ worker \in {"launched"} \cup TerminalStatus
  /\ receipt \in ProcessStatus \cup {"dry_run", Nil}
  /\ reporter \in {"runner", "lead", Nil}

\* The evidence is true and says one thing: whichever runners race, are killed
\* or are cancelled, a receipt says completed only when a child has exited with
\* zero and cancelled only when there is a marker, and a terminal that a runner
\* recorded is the sealed receipt's.
EvidenceAgrees ==
  /\ receipt = "completed" => \E p \in Runners : child[p] = "succeeded"
  /\ receipt = "cancelled" => marker
  /\ reporter = "runner" => receipt # Nil /\ worker = Disposition(receipt)

\* "immutable_receipt_exists": no runner changes what has been sealed, and no
\* terminal is recorded twice.
KeepsSealed ==
  /\ receipt # Nil => receipt' = receipt
  /\ reporter # Nil => worker' = worker

\* "starts one child process per executable ticket", for one event: however often
\* it is delivered, and whoever is killed, at most one process is started.
OneProcessPerEvent ==
  \A p, q \in Runners :
    child[p] # "none" /\ child[q] # "none" /\ EventOf[p] = EventOf[q] => p = q

\* Runners, receipt and terminal stay in their vocabulary, and one event starts at
\* most one process (codex_ticket_runner.py:63).
StartInv == TypeOK /\ OneProcessPerEvent

\* Receipt, child, marker and terminal agree, and one event starts one process
\* (codex_ticket_runner.py:63-109).
TicketInv == EvidenceAgrees /\ StartInv

\* "checks the Core cancellation marker before launch and while the child
\* runs": the child of a living runner does not outlive the marker.
CancellationStops ==
  \A p \in Runners :
    (marker /\ child[p] = "running" /\ pc[p] # "killed") ~>
      (child[p] # "running" \/ pc[p] = "killed")

=============================================================================
