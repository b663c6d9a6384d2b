------------------------------ MODULE WorkerLease ------------------------------
(***************************************************************************)
(* The leases on what a worker holds (its host thread, a worktree, a       *)
(* process group) and the cleanup receipts projected from them:            *)
(* worker_resource_model.py, worker_resource_validation.py,                *)
(* worker_resource_lease.py, native_delegation_adapter.py and the          *)
(* projection's checks in delegation_cleanup.py.  A lease file is written  *)
(* under its own flock; record-cleanup reads it without, and records the   *)
(* receipt in the delegation ledger afterwards.                            *)
(***************************************************************************)
EXTENDS Naturals, Sequences, SequencesExt

CONSTANTS
  Leases,      \* lease files; the lease id is the file's
  Workers,     \* native workers of the active wave, and of the ledger's run
  ProofRefs,
  Procs,
  Nil

VARIABLES
  lease,       \* the content of each file, or Nil
  reported,    \* workers with a terminal receipt in the delegation ledger
  receipts,    \* the cleanup receipt of each worker, or Nil
  loaded       \* what each record-cleanup has loaded, or Nil

vars == <<lease, reported, receipts, loaded>>

Init ==
  /\ lease = [f \in Leases |-> Nil] /\ reported = {}
  /\ receipts = [w \in Workers |-> Nil] /\ loaded = [p \in Procs |-> Nil]

SourceOf == [core_owned_exact |-> "sejong_created", host_owned_exact |-> "host_reported",
             audit_only |-> "observed"]
Capabilities == DOMAIN SourceOf
Unresolved == {"preserved", "failed", "orphaned"}
TerminalStatuses == Unresolved \cup {"released"}
ProofLists == UNION {[1..n -> ProofRefs] : n \in 0..2}
Blockers == {"none", "empty", "text"}   \* --blocker is left out, given "", or says something

\* worker_resource_validation.validate_lease, for the one resource a lease has.
ValidLease(l) ==
  /\ l.source = SourceOf[l.cap]
  /\ l.kind = "host_runtime_group" => l.exact
  /\ IsInjective(l.proofs)
  /\ l.status \in TerminalStatuses => l.proofs # <<>>
  /\ l.status = "released" => l.cap # "audit_only" /\ l.blocker = "none"
  /\ l.status \in Unresolved => l.blocker = "text"

\* load_lease takes an empty blocker for damage, which validate_lease lets pass.
Readable(l) == l.blocker # "empty" /\ ValidLease(l)

Allowed == [active |-> {"releasing", "orphaned"}, releasing |-> TerminalStatuses]

CreateLease(f, w, cap, source, kind, exact) ==
  LET l == [worker |-> w, cap |-> cap, source |-> source, kind |-> kind, exact |-> exact,
            status |-> "active", proofs |-> <<>>, blocker |-> "none"] IN
  /\ lease[f] = Nil
  /\ (cap = "audit_only") = (source = "observed")
  /\ ValidLease(l)
  /\ lease' = [lease EXCEPT ![f] = l]
  /\ UNCHANGED <<reported, receipts, loaded>>

TransitionLease(f, status, proofs, blocker) ==
  LET l == lease[f]
      updated == [l EXCEPT !.status = status, !.proofs = proofs, !.blocker = blocker] IN
  /\ l # Nil /\ Readable(l)
  /\ l.status \in DOMAIN Allowed /\ status \in Allowed[l.status]
  /\ status \in TerminalStatuses => proofs # <<>>
  /\ status \in Unresolved => blocker = "text"
  /\ ValidLease(updated)
  /\ lease' = [lease EXCEPT ![f] = updated]
  /\ UNCHANGED <<reported, receipts, loaded>>

\* Mutant: what was orphaned is only audited, whoever owns it.
CleanupStatusAudited(l) ==
  CASE l.status \in {"released", "preserved", "failed"} -> l.status
    [] l.status = "orphaned" -> "audit_only"
    [] OTHER -> Nil
\* native_delegation_adapter._cleanup_status; Nil: the lease is not terminal.
CleanupStatus(l) ==
  CASE l.status \in {"released", "preserved", "failed"} -> l.status
    [] l.status = "orphaned" -> IF l.cap = "audit_only" THEN "audit_only" ELSE "failed"
    [] OTHER -> Nil

Projection(f, l) ==
  LET s == CleanupStatus(l) IN
  [lease |-> f, cap |-> l.cap, status |-> s,
   released |-> s = "released", preserved |-> s = "preserved",
   failed |-> s \in {"failed", "audit_only"}, proofs |-> l.proofs, blocker |-> l.blocker]

\* delegation_cleanup._validate_resource_sets and _validate_status.
ProjectionAccepted(r) ==
  /\ r.proofs # <<>> /\ IsInjective(r.proofs)
  /\ CASE r.status = "released" ->
            r.cap # "audit_only" /\ r.released /\ ~r.preserved /\ ~r.failed /\ r.blocker = "none"
       [] r.status = "preserved" -> r.preserved /\ r.blocker = "text"
       [] r.status = "failed" -> r.failed /\ r.blocker = "text"
       [] r.status = "audit_only" -> r.cap = "audit_only" /\ r.blocker = "text"

\* record-terminal: once per worker of the wave.
RecordTerminal(w) ==
  /\ w \notin reported
  /\ reported' = reported \cup {w}
  /\ UNCHANGED <<lease, receipts, loaded>>

\* record-cleanup up to the lease's status: it names the thread the lease names.
LoadLease(p, f) ==
  /\ loaded[p] = Nil /\ lease[f] # Nil /\ Readable(lease[f])
  /\ CleanupStatus(lease[f]) # Nil
  /\ loaded' = [loaded EXCEPT ![p] = [file |-> f, lease |-> lease[f]]]
  /\ UNCHANGED <<lease, reported, receipts>>

\* record_cleanup_receipt under the ledger's lock, or its refusal.
RecordCleanup(p) ==
  /\ loaded[p] # Nil
  /\ LET w == loaded[p].lease.worker
         r == Projection(loaded[p].file, loaded[p].lease) IN
     receipts' = IF w \in reported /\ receipts[w] = Nil /\ ProjectionAccepted(r)
                 THEN [receipts EXCEPT ![w] = r] ELSE receipts
  /\ loaded' = [loaded EXCEPT ![p] = Nil]
  /\ UNCHANGED <<lease, reported>>

Next ==
  \/ \E f \in Leases, w \in Workers, cap \in Capabilities, exact \in BOOLEAN,
        source \in {SourceOf[c] : c \in Capabilities},
        kind \in {"host_runtime_group", "worktree"} : CreateLease(f, w, cap, source, kind, exact)
  \/ \E f \in Leases, status \in TerminalStatuses \cup {"releasing"},
        proofs \in ProofLists, blocker \in Blockers : TransitionLease(f, status, proofs, blocker)
  \/ \E w \in Workers : RecordTerminal(w)
  \/ \E p \in Procs : RecordCleanup(p) \/ \E f \in Leases : LoadLease(p, f)

Spec == Init /\ [][Next]_vars

\* work_lifecycle_summary: leases without a receipt that says released.
Gaps ==
  {f \in Leases : lease[f] # Nil /\
     \A w \in Workers : receipts[w] # Nil => receipts[w].lease # f \/ receipts[w].status # "released"}

\* The lease's writer, its loader and the receipts' checks agree on every lease that ended:
\* it can be loaded, and its projection is one the delegation ledger accepts, so no wave is
\* kept open by it (native_delegation_adapter:97-148, delegation_cleanup:73-118).  They
\* disagree on one lease only, which was set to releasing with an empty blocker: it is
\* written and never loaded again (README section 7).  A receipt says what its lease says for
\* good, although the lease was read outside its lock; and what the summary does not list
\* as a gap was released by its exact owner.
CleanupIsTrue ==
  /\ \A f \in Leases : lease[f] # Nil =>
       /\ Readable(lease[f]) \/ (lease[f].status = "releasing" /\ lease[f].blocker = "empty")
       /\ lease[f].status \in TerminalStatuses =>
            Readable(lease[f]) /\ ProjectionAccepted(Projection(f, lease[f]))
       /\ f \notin Gaps => lease[f].status = "released" /\ lease[f].cap # "audit_only"
  /\ \A w \in Workers : receipts[w] # Nil =>
       receipts[w] = Projection(receipts[w].lease, lease[receipts[w].lease])
================================================================================
