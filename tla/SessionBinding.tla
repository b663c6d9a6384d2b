---------------------------- MODULE SessionBinding ----------------------------
(***************************************************************************)
(* Durable Contexts, session bindings and the repo index:                  *)
(* docs/sejong/scripts/sejong_context.py and sejong_session_binding.py.    *)
(*                                                                         *)
(* A process runs one command at a time.  A critical section under a       *)
(* runtime lock is one step when it publishes one file (MutualExclusion of *)
(* RuntimeLock is what makes that sound); the two sections that publish or *)
(* read a second file hold their lock over two steps.  What a command      *)
(* reads before it takes the lock stays in its job and may be stale when   *)
(* it is used.                                                             *)
(***************************************************************************)
EXTENDS Naturals

CONSTANTS
  Procs,          \* processes running a command or a hook
  Sessions,       \* host sessions
  Runs,           \* runs; a run names its Context file, repo and context id
  MaxRevision,    \* bound on the revisions of each Context
  MaxBinding,     \* bound on the revisions of a binding
  Legacy,         \* the run the legacy active pointer names, or Nil
  LegacyStatus,   \* the status in the legacy pointer
  Failures,       \* may commands stop half-way (crash, lock timeout, I/O)?
  Nil

Statuses == {"none", "active", "paused", "completed", "closed"}

Commands == {"start", "resume", "unbind", "close", "update", "hook", "migrate"}

ASSUME ConstantsAssumption ==
  /\ MaxRevision \in [Runs -> Nat] /\ MaxBinding \in Nat
  /\ Nil \notin Procs \cup Runs \cup Nat
  /\ Legacy \in Runs \cup {Nil}
  /\ LegacyStatus \in Statuses \ {"none"}
  /\ Failures \in BOOLEAN

VARIABLES
  rev,       \* context_revision of each run's Context file, 0 when missing
  status,    \* context_status of each run's Context file
  applied,   \* the revisions whose mutation the Context file still shows
  runLock,   \* holder of each run-context lock
  binding,   \* the binding file of each session
  bindLock,  \* holder of each session-binding lock
  index,     \* the status the repo index lists for each run
  pc,        \* what each process does next
  job        \* the command of each process and what it has read

vars == <<rev, status, applied, runLock, binding, bindLock, index, pc, job>>
contexts == <<rev, status, applied, runLock>>
bindings == <<binding, bindLock>>

Binding == [target : Runs \cup {Nil}, epoch : Nat, revision : Nat]
Unborn  == [target |-> Nil, epoch |-> 0, revision |-> 0]

\* saw is the binding as the caller knows it, want an explicit
\* --expect-context-revision; base, kept and stat are the Context as loaded.
Job == [cmd : Commands, s : Sessions, r : Runs \cup {Nil}, saw : Binding,
        want : Nat \cup {Nil}, base : Nat, kept : SUBSET Nat, stat : Statuses]

NoJob(s) == [cmd |-> "hook", s |-> s, r |-> Nil, saw |-> Unborn, want |-> Nil,
             base |-> 0, kept |-> {}, stat |-> "active"]

Location == {"idle", "load", "save", "index", "bindRead", "bind", "bindIndex",
             "closeCheck", "closeUnbind", "unbind", "resolve", "touch", "observe",
             "migrate"}

Init ==
  /\ rev = [r \in Runs |-> 0]
  /\ status = [r \in Runs |-> "none"]
  /\ applied = [r \in Runs |-> {}]
  /\ runLock = [r \in Runs |-> Nil]
  /\ binding = [s \in Sessions |-> Unborn]
  /\ bindLock = [s \in Sessions |-> Nil]
  /\ index = [r \in Runs |-> "none"]
  /\ pc = [p \in Procs |-> "idle"]
  /\ job \in [Procs -> {NoJob(s) : s \in Sessions}]

At(p, a) == pc[p] = a
Goto(p, b) == pc' = [pc EXCEPT ![p] = b]
Keep(p, b) == Goto(p, b) /\ UNCHANGED job

\* The command returns or raises; what it had read is forgotten.
Finish(p) == Goto(p, "idle") /\ job' = [job EXCEPT ![p] = NoJob(job[p].s)]

-----------------------------------------------------------------------------
(* Commands begin.  The expected binding revision is the one the caller has  *)
(* last seen; a start expects that there is no binding yet.                  *)

Begin(p, cmd, s, r, want, loc) ==
  /\ At(p, "idle")
  /\ Goto(p, loc)
  /\ job' = [job EXCEPT ![p] =
       [NoJob(s) EXCEPT !.cmd = cmd, !.r = r, !.want = want,
                        !.saw = IF cmd = "start" THEN Unborn ELSE binding[s]]]
  /\ UNCHANGED <<contexts, bindings, index>>

Start(p, s, r) == Begin(p, "start", s, r, Nil, "save")

Resume(p, s, r) == Begin(p, "resume", s, r, Nil, "bindRead")

Unbind(p, s) == Begin(p, "unbind", s, Nil, Nil, "unbind")

\* Without a path the Context is the one the session is bound to.
Close(p, s, r) == Begin(p, "close", s, r, Nil, "load")

\* update and repair, with or without --expect-context-revision.
Update(p, s, r) ==
  \E want \in {Nil} \cup {rev[q] : q \in {r} \ {Nil}} :
    Begin(p, "update", s, r, want, "load")

Hook(p, s) == Begin(p, "hook", s, Nil, Nil, "resolve")

Migrate(p, s) == Legacy # Nil /\ Begin(p, "migrate", s, Legacy, Nil, "migrate")

-----------------------------------------------------------------------------
(* sejong_context.py: load_context_argument and save_context *)

\* A session has a bound Context that is active.
Foreground(s) ==
  binding[s].target # Nil /\ status[binding[s].target] = "active"

Loaded(p, r, next) ==
  /\ Goto(p, next)
  /\ job' = [job EXCEPT ![p] = [@ EXCEPT !.r = r, !.base = rev[r],
                                        !.kept = applied[r], !.stat = status[r]]]
  /\ UNCHANGED <<contexts, bindings, index>>

AfterLoad(p) == IF job[p].cmd = "close" THEN "closeCheck" ELSE "save"

LoadPath(p) ==
  /\ At(p, "load")
  /\ job[p].r # Nil /\ rev[job[p].r] > 0
  /\ Loaded(p, job[p].r, AfterLoad(p))

\* resolve_bound_context without an observation.
LoadBound(p) ==
  /\ At(p, "load")
  /\ job[p].r = Nil
  /\ bindLock[job[p].s] = Nil
  /\ Foreground(job[p].s)
  /\ Loaded(p, binding[job[p].s].target, AfterLoad(p))

LoadMissing(p) ==
  /\ At(p, "load")
  /\ IF job[p].r # Nil THEN rev[job[p].r] = 0 ELSE ~Foreground(job[p].s)
  /\ Finish(p)
  /\ UNCHANGED <<contexts, bindings, index>>

\* Mutant: the revision is read again when the lock is held.
ExpectedCurrent(p) == IF job[p].want = Nil THEN rev[job[p].r] ELSE job[p].want

Expected(p) == IF job[p].want = Nil THEN job[p].base ELSE job[p].want

\* The commit of save_context.  The run-context lock is kept for the index
\* update; a migration updates the index after releasing it.
Save(p) ==
  LET r == job[p].r
      n == rev[r] + 1
  IN  /\ At(p, "save")
      /\ runLock[r] = Nil
      /\ rev[r] = Expected(p)
      /\ n <= MaxRevision[r]
      /\ rev' = [rev EXCEPT ![r] = n]
      /\ status' = [status EXCEPT ![r] = job[p].stat]
      /\ applied' = [applied EXCEPT ![r] = job[p].kept \cup {n}]
      /\ runLock' = [runLock EXCEPT ![r] = IF job[p].cmd = "migrate" THEN Nil ELSE p]
      /\ Keep(p, "index")
      /\ UNCHANGED <<bindings, index>>

\* ContextRevisionConflict
SaveConflict(p) ==
  /\ At(p, "save")
  /\ runLock[job[p].r] = Nil
  /\ rev[job[p].r] # Expected(p)
  /\ Finish(p)
  /\ UNCHANGED <<contexts, bindings, index>>

\* update_repo_index, from the Context the process holds in memory; when it
\* fails the command goes on with a warning.
Indexed(r, st) == index' \in {index, [index EXCEPT ![r] = st]}

IndexAndRelease(p) ==
  /\ At(p, "index")
  /\ Indexed(job[p].r, job[p].stat)
  /\ runLock' = [runLock EXCEPT ![job[p].r] = IF @ = p THEN Nil ELSE @]
  /\ IF job[p].cmd = "start" THEN Keep(p, "bindRead") ELSE Finish(p)
  /\ UNCHANGED <<rev, status, applied, bindings>>

-----------------------------------------------------------------------------
(* sejong_session_binding.py *)

\* bind_context reads the Context before it asks for the binding lock.
BindRead(p) ==
  /\ At(p, "bindRead")
  /\ status[job[p].r] = "active"
  /\ Goto(p, "bind")
  /\ job' = [job EXCEPT ![p] = [@ EXCEPT !.stat = status[job[p].r]]]
  /\ UNCHANGED <<contexts, bindings, index>>

BindRefused(p) ==
  /\ At(p, "bindRead")
  /\ status[job[p].r] # "active"
  /\ Finish(p)
  /\ UNCHANGED <<contexts, bindings, index>>

\* The next binding of a session: a new target is a new epoch, and so is the
\* first binding of all.
Retargeted(b, t) ==
  [target   |-> t,
   epoch    |-> IF b.revision > 0 /\ b.target = t THEN b.epoch ELSE b.epoch + 1,
   revision |-> b.revision + 1]

\* Mutants: without _check_revision, and without the lock.
RebindBlind(p, t) ==
  /\ bindLock[job[p].s] = Nil
  /\ binding[job[p].s].revision < MaxBinding
  /\ binding' = [binding EXCEPT ![job[p].s] = Retargeted(@, t)]
  /\ UNCHANGED bindLock

RebindUnlocked(p, t) ==
  /\ binding[job[p].s].revision = job[p].saw.revision
  /\ binding[job[p].s].revision < MaxBinding
  /\ binding' = [binding EXCEPT ![job[p].s] = Retargeted(@, t)]
  /\ UNCHANGED bindLock

\* _check_revision and the write, under the session-binding lock.
Rebind(p, t) ==
  LET s == job[p].s
  IN  /\ bindLock[s] = Nil
      /\ binding[s].revision = job[p].saw.revision
      /\ binding[s].revision < MaxBinding
      /\ binding' = [binding EXCEPT ![s] = Retargeted(@, t)]
      /\ UNCHANGED bindLock

Bind(p) ==
  /\ At(p, "bind")
  /\ Rebind(p, job[p].r)
  /\ Keep(p, "bindIndex")
  /\ UNCHANGED <<contexts, index>>

BindIndex(p) ==
  /\ At(p, "bindIndex")
  /\ Indexed(job[p].r, job[p].stat)
  /\ Finish(p)
  /\ UNCHANGED <<contexts, bindings>>

Tombstone(p) ==
  /\ At(p, "unbind")
  /\ Rebind(p, Nil)
  /\ Finish(p)
  /\ UNCHANGED <<contexts, index>>

\* BindingRevisionConflict
BindConflict(p) ==
  /\ pc[p] \in {"bind", "unbind", "closeUnbind"}
  /\ bindLock[job[p].s] = Nil
  /\ binding[job[p].s].revision # job[p].saw.revision
  /\ Finish(p)
  /\ UNCHANGED <<contexts, bindings, index>>

\* close_context compares the binding without its lock, ...
CloseCheck(p) ==
  /\ At(p, "closeCheck")
  /\ IF binding[job[p].s].target = job[p].r THEN Keep(p, "closeUnbind") ELSE Finish(p)
  /\ UNCHANGED <<contexts, bindings, index>>

\* ... writes the tombstone, and then saves the Context it has loaded.
CloseUnbind(p) ==
  /\ At(p, "closeUnbind")
  /\ Rebind(p, Nil)
  /\ Goto(p, "save")
  /\ job' = [job EXCEPT ![p] = [@ EXCEPT !.stat = "closed"]]
  /\ UNCHANGED <<contexts, index>>

\* Mutants: the lock is released between the read and the write, and a session
\* without a foreground is recorded as well.
ResolveUnlocked(p) ==
  LET s == job[p].s
  IN  /\ At(p, "resolve")
      /\ bindLock[s] = Nil
      /\ Foreground(s)
      /\ job' = [job EXCEPT ![p] = [@ EXCEPT !.r = binding[s].target, !.saw = binding[s]]]
      /\ Goto(p, "touch")
      /\ UNCHANGED <<contexts, bindings, index>>

\* resolve_bound_context: the hook injects the Context of a bound session and
\* records the turn, holding the binding lock from the read to the write.
Resolve(p) ==
  LET s == job[p].s
  IN  /\ At(p, "resolve")
      /\ bindLock[s] = Nil
      /\ Foreground(s)
      /\ bindLock' = [bindLock EXCEPT ![s] = p]
      /\ job' = [job EXCEPT ![p] = [@ EXCEPT !.r = binding[s].target, !.saw = binding[s]]]
      /\ Goto(p, "touch")
      /\ UNCHANGED <<contexts, binding, index>>

ResolveNothing(p) ==
  /\ At(p, "resolve")
  /\ bindLock[job[p].s] = Nil
  /\ ~Foreground(job[p].s)
  /\ Finish(p)
  /\ UNCHANGED <<contexts, bindings, index>>

Touch(p) ==
  LET s == job[p].s
  IN  /\ At(p, "touch")
      /\ job[p].saw.revision < MaxBinding
      /\ binding' = [binding EXCEPT ![s] = [job[p].saw EXCEPT !.revision = @ + 1]]
      /\ bindLock' = [bindLock EXCEPT ![s] = Nil]
      /\ Keep(p, "observe")
      /\ UNCHANGED <<contexts, index>>

\* observe_binding, with the Context and the epoch that were injected.
SameForeground(p) ==
  /\ binding[job[p].s].target = job[p].r
  /\ binding[job[p].s].epoch = job[p].saw.epoch

Observe(p) ==
  LET s == job[p].s
  IN  /\ At(p, "observe")
      /\ bindLock[s] = Nil
      /\ SameForeground(p)
      /\ binding[s].revision < MaxBinding
      /\ binding' = [binding EXCEPT ![s].revision = @ + 1]
      /\ Finish(p)
      /\ UNCHANGED <<contexts, bindLock, index>>

StaleObservation(p) ==
  /\ At(p, "observe")
  /\ bindLock[job[p].s] = Nil
  /\ ~SameForeground(p)
  /\ Finish(p)
  /\ UNCHANGED <<contexts, bindings, index>>

\* migrate_legacy_pointer: an existing Context is only indexed, as it was read;
\* a missing one is created by save_context with expected revision 0.
MigrateExisting(p) ==
  /\ At(p, "migrate")
  /\ rev[Legacy] > 0
  /\ Loaded(p, Legacy, "index")

\* Mutant: the existing Context is replaced by the legacy one.
MigrateAgain(p) ==
  /\ At(p, "migrate")
  /\ Goto(p, "save")
  /\ job' = [job EXCEPT ![p] = [@ EXCEPT !.base = rev[Legacy], !.kept = applied[Legacy],
                                        !.stat = LegacyStatus]]
  /\ UNCHANGED <<contexts, bindings, index>>

MigrateMissing(p) ==
  /\ At(p, "migrate")
  /\ rev[Legacy] = 0
  /\ Goto(p, "save")
  /\ job' = [job EXCEPT ![p] = [@ EXCEPT !.stat = LegacyStatus]]
  /\ UNCHANGED <<contexts, bindings, index>>

-----------------------------------------------------------------------------
(* A command stops: it crashes (the next contender breaks its locks), it times
   out waiting for a lock, or a read or a write fails. *)
Stop(p) ==
  /\ Failures /\ ~At(p, "idle")
  /\ Finish(p)
  /\ runLock' = [r \in Runs |-> IF runLock[r] = p THEN Nil ELSE runLock[r]]
  /\ bindLock' = [s \in Sessions |-> IF bindLock[s] = p THEN Nil ELSE bindLock[s]]
  /\ UNCHANGED <<rev, status, applied, binding, index>>

Command(p) ==
  \/ \E s \in Sessions, r \in Runs : Start(p, s, r) \/ Resume(p, s, r)
  \/ \E s \in Sessions, r \in Runs \cup {Nil} : Close(p, s, r) \/ Update(p, s, r)
  \/ \E s \in Sessions : Unbind(p, s) \/ Hook(p, s) \/ Migrate(p, s)

Step(p) ==
  \/ LoadPath(p) \/ LoadBound(p) \/ LoadMissing(p)
  \/ Save(p) \/ SaveConflict(p) \/ IndexAndRelease(p)
  \/ BindRead(p) \/ BindRefused(p) \/ Bind(p) \/ BindIndex(p)
  \/ Tombstone(p) \/ BindConflict(p) \/ CloseCheck(p) \/ CloseUnbind(p)
  \/ Resolve(p) \/ ResolveNothing(p) \/ Touch(p) \/ Observe(p)
  \/ StaleObservation(p) \/ MigrateExisting(p) \/ MigrateMissing(p)

Next == \E p \in Procs : Command(p) \/ Step(p) \/ Stop(p)

Spec == Init /\ [][Next]_vars

-----------------------------------------------------------------------------
(* Properties *)

\* Before these steps a command has read which run it works on.
Unread == {"idle", "load", "unbind", "resolve"}

FilesOK ==
  /\ rev \in [Runs -> Nat]
  /\ status \in [Runs -> Statuses]
  /\ applied \in [Runs -> SUBSET Nat]
  /\ runLock \in [Runs -> Procs \cup {Nil}]
  /\ binding \in [Sessions -> Binding]
  /\ bindLock \in [Sessions -> Procs \cup {Nil}]
  /\ index \in [Runs -> Statuses]

JobsOK ==
  /\ pc \in [Procs -> Location]
  /\ job \in [Procs -> Job]
  /\ \A p \in Procs : pc[p] \notin Unread => job[p].r \in Runs
  /\ \A p \in Procs : At(p, "migrate") => job[p].r = Legacy

\* Every variable keeps its type, and a command that works on a run knows which.
TypeOK == FilesOK /\ JobsOK

\* No update of a Context is lost: whatever was committed at some revision is
\* still in the file, although every writer works on a copy loaded earlier.
NoLostUpdate == \A r \in Runs : applied[r] = 1..rev[r]

\* A closed Context stays closed: no writer that loaded it while it was active,
\* and no migration, brings it back.
ClosedIsTerminal ==
  [][\A r \in Runs : status[r] = "closed" => status'[r] = "closed"]_vars

\* Every mutation of a binding is counted once: no write is based on a binding
\* that another process has replaced, and the counters never go back.
RevisionPerMutation ==
  [][\A s \in Sessions : binding'[s] # binding[s] =>
       /\ binding'[s].revision = binding[s].revision + 1
       /\ binding'[s].epoch \in {binding[s].epoch, binding[s].epoch + 1}]_vars

\* The epoch changes exactly when the target does (or the binding is born), so
\* an epoch names one target and a remembered epoch exposes a switch.
EpochFollowsTarget ==
  [][\A s \in Sessions : binding'[s] # binding[s] =>
       (binding'[s].epoch = binding[s].epoch
          <=> binding[s].revision > 0 /\ binding'[s].target = binding[s].target)]_vars

\* A session is moved to another Context, or unbound, only by a process that
\* knew the binding it replaces: a tombstone is not undone by an older resume,
\* nor a switch by an older close.
SwitchSawTarget ==
  [][\A s \in Sessions : binding'[s].target # binding[s].target =>
       \E p \in Procs : /\ pc'[p] # pc[p]
                        /\ job[p].s = s /\ job[p].saw = binding[s]]_vars

\* The reconstructable index is never ahead of the Contexts: it lists as closed
\* only what is closed.
IndexNotAhead ==
  \A r \in Runs : index[r] = "closed" => status[r] = "closed"

-----------------------------------------------------------------------------
(* The inductive invariants behind these properties. *)

\* A Context waiting to be written was loaded whole, at a revision the file has
\* reached; if the file is still at that revision and closed, so is the copy.
\* An explicit expected revision is never newer than what was loaded.
CopyIsSound(p) ==
  LET j == job[p]
  IN  /\ At(p, "load") /\ j.want # Nil => j.r \in Runs /\ j.want <= rev[j.r]
      /\ At(p, "migrate") => j.base = 0 /\ j.kept = {} /\ j.want = Nil
      /\ pc[p] \in {"save", "closeCheck", "closeUnbind"} =>
           /\ j.base <= rev[j.r] /\ j.kept = 1..j.base
           /\ j.want # Nil => j.want <= j.base
           /\ j.base = rev[j.r] /\ status[j.r] = "closed" => j.stat = "closed"
      /\ At(p, "index") /\ j.stat = "closed" => status[j.r] = "closed"
      /\ pc[p] \in {"bind", "bindIndex"} => j.stat # "closed"

ContextInv ==
  /\ TypeOK
  /\ NoLostUpdate
  /\ IndexNotAhead
  /\ \A r \in Runs : status[r] = "closed" => rev[r] > 0
  /\ \A p \in Procs : CopyIsSound(p)

\* What a process knows of its session's binding is older than the file or is
\* the file; a hook between its read and its write has the file.
KnowledgeIsPast(p) ==
  LET b == binding[job[p].s]
  IN  /\ job[p].saw.revision <= b.revision
      /\ job[p].saw.revision = b.revision => job[p].saw = b
      /\ At(p, "touch") =>
           job[p].saw = b /\ b.target = job[p].r /\ bindLock[job[p].s] = p

BindingInv ==
  /\ TypeOK
  /\ \A s \in Sessions : binding[s].revision = 0 => binding[s] = Unborn
  /\ \A p \in Procs : KnowledgeIsPast(p)
================================================================================
