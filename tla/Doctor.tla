--------------------------------- MODULE Doctor --------------------------------
(***************************************************************************)
(* The health check of a session's runtime, docs/sejong/scripts/           *)
(* sejong_doctor.py and sejong_doctor_runtime.py: it reads the Contexts    *)
(* of all runs once, then looks at their artifacts, the locks and the      *)
(* bindings one check after the other, while sessions go on working.       *)
(***************************************************************************)
EXTENDS Naturals, FiniteSets

CONSTANTS
  Runs,        \* the run directories with a Context
  States,      \* what a Context and what it refers to may be: [is, gates, asks, work, refs,
               \*   here]: is "active", "closed", "invalid" or "unreadable"; asks, an open
               \*   or answered question; work, an active Seungjeongwon run; refs, "ok" or
               \*   "broken"; here, it applies to this checkout
  Locks,       \* what a lock file may be: "live", "stale", "malformed", "installer"
  MaxChanges   \* bound: how often the runtime changes under the check

VARIABLES
  state,       \* of each run
  lock,        \* the lock file there is, or "none"
  bindings,    \* "ok" or "malformed"
  pointer,     \* the legacy active pointer: "missing", "unreadable" or "present"
  contexts,    \* the Contexts as the doctor read them
  found,       \* the checks so far, with their status
  steady,      \* ghost: the runs and other things unchanged since the check began
  changes

vars == <<state, lock, bindings, pointer, contexts, found, steady, changes>>

ConstantsAssumption == \A s \in States : s.refs \in {"ok", "broken"}

Checks == {"context", "runs", "pointer", "refs", "locks", "cleanup"}
Order == [context |-> 0, runs |-> 1, pointer |-> 2, refs |-> 3, locks |-> 4, cleanup |-> 5]
NextCheck == CHOOSE c \in Checks : Order[c] = Cardinality(DOMAIN found)
Done == DOMAIN found = Checks
Everything == Runs \cup {"locks", "bindings", "pointer"}

\* runtime_contexts: what cannot be read is left out.
Readable == {r \in Runs : state[r].is # "unreadable"}

\* Mutant: a run that only waits for an answer is not active.
ActiveGated(r) ==
  /\ contexts[r].is = "active"
  /\ contexts[r].gates \/ state[r].work

\* active_run_summaries: the Context is as it was read, what it refers to is looked at now.
Active(r) ==
  /\ contexts[r].is = "active"
  /\ contexts[r].gates \/ state[r].work \/ state[r].asks

\* broken_ref_check: also of Contexts that are closed or invalid.
Broken(r) == state[r].refs = "broken"

\* active_context_check of the Context named by --context, or of none.
ContextStatus(r) ==
  IF state[r].is \in {"unreadable", "invalid"} THEN "fail" ELSE IF state[r].work THEN "warn" ELSE "ok"

RunsStatus == IF \E r \in DOMAIN contexts : Active(r) THEN "warn" ELSE "ok"
PointerStatus == IF pointer = "missing" THEN "ok" ELSE "warn"

\* Mutant: what is broken in another checkout's run is not looked at.
RefsStatusHere == IF \E r \in DOMAIN contexts : Broken(r) /\ contexts[r].here THEN "fail" ELSE "ok"

RefsStatus ==
  IF \E r \in DOMAIN contexts : Broken(r) /\ contexts[r].here THEN "fail"
  ELSE IF \E r \in DOMAIN contexts : Broken(r) THEN "warn" ELSE "ok"

\* runtime_lock_check: the installer's empty file is not a lock record.
LocksStatus ==
  CASE lock = "malformed" -> "fail" [] lock = "stale" -> "warn" [] OTHER -> "ok"

\* cleanup_dry_run_check looks at the bindings once for every Context it has.
CleanupStatus == IF DOMAIN contexts # {} /\ bindings = "malformed" THEN "warn" ELSE "ok"

--------------------------------------------------------------------------------
Init ==
  /\ state \in [Runs -> States] /\ lock \in Locks \cup {"none"}
  /\ bindings \in {"ok", "malformed"} /\ pointer \in {"missing", "present"}
  /\ contexts = <<>> /\ found = <<>> /\ steady = Everything /\ changes = 0

Found(c, status) ==
  /\ ~Done /\ NextCheck = c
  /\ found' = [d \in DOMAIN found \cup {c} |-> IF d = c THEN status ELSE found[d]]
  /\ UNCHANGED <<state, lock, bindings, pointer, steady, changes>>

\* run_checks: the named Context first, then multisession_checks, which reads them all.
CheckContext ==
  /\ \/ Found("context", "ok")
     \/ \E r \in Runs : Found("context", ContextStatus(r))
  /\ contexts' = contexts
CheckRuns ==
  /\ contexts # <<>> /\ Found("runs", RunsStatus) /\ UNCHANGED contexts
ReadContexts ==
  /\ DOMAIN found = {"context"} /\ contexts = <<>> /\ Readable # {}
  /\ contexts' = [r \in Readable |-> state[r]]
  /\ UNCHANGED <<state, lock, bindings, pointer, found, steady, changes>>
CheckNoRuns ==
  /\ contexts = <<>> /\ Readable = {} /\ Found("runs", "ok") /\ UNCHANGED contexts
CheckPointer == Found("pointer", PointerStatus) /\ UNCHANGED contexts
CheckRefs == Found("refs", RefsStatus) /\ UNCHANGED contexts
CheckLocks == Found("locks", LocksStatus) /\ UNCHANGED contexts
CheckCleanup == Found("cleanup", CleanupStatus) /\ UNCHANGED contexts

\* Sessions go on.
Change(thing) ==
  /\ changes < MaxChanges /\ changes' = changes + 1
  /\ steady' = steady \ {thing}
  /\ UNCHANGED <<contexts, found>>
RunChanges(r) ==
  /\ Change(r) /\ \E s \in States : state' = [state EXCEPT ![r] = s]
  /\ UNCHANGED <<lock, bindings, pointer>>
LockChanges ==
  /\ Change("locks") /\ lock' \in (Locks \cup {"none"}) \ {lock}
  /\ UNCHANGED <<state, bindings, pointer>>
BindingsChange ==
  /\ Change("bindings") /\ bindings' \in {"ok", "malformed"} \ {bindings}
  /\ UNCHANGED <<state, lock, pointer>>
PointerChanges ==
  /\ Change("pointer") /\ pointer' \in {"missing", "unreadable", "present"} \ {pointer}
  /\ UNCHANGED <<state, lock, bindings>>

\* exit_code
Passes == Done /\ \A c \in Checks : found[c] # "fail"
Clean == Done /\ \A c \in Checks : found[c] = "ok"

Next ==
  \/ CheckContext \/ ReadContexts \/ CheckRuns \/ CheckNoRuns \/ CheckPointer \/ CheckRefs
  \/ CheckLocks \/ CheckCleanup
  \/ \E r \in Runs : RunChanges(r)
  \/ LockChanges \/ BindingsChange \/ PointerChanges

Spec == Init /\ [][Next]_vars

--------------------------------------------------------------------------------
\* A clean bill of health is never given over something that was wrong all the while the
\* doctor looked: an active run that owes anything, a broken ref, a lock nobody can use, a
\* legacy pointer, and a malformed binding as far as there is a Context to look from; and an
\* exit code of 0 says that no ref of this checkout and no lock record is broken
\* (active_run_summaries:89-100, broken_ref_check:124-144, exit_code:189-190).  A Context
\* that cannot be read is not among them: it is left out without a word.
CleanIsHealthy ==
  /\ Clean =>
       /\ \A r \in steady \cap Runs :
            /\ state[r].is = "active" => ~(state[r].gates \/ state[r].asks \/ state[r].work)
            /\ state[r].is # "unreadable" => state[r].refs = "ok"
       /\ "locks" \in steady => lock \notin {"stale", "malformed"}
       /\ "pointer" \in steady => pointer = "missing"
       /\ "bindings" \in steady /\ (\E r \in steady \cap Runs : state[r].is # "unreadable") => bindings = "ok"
  /\ Passes =>
       /\ \A r \in steady \cap Readable : state[r].here => state[r].refs = "ok"
       /\ "locks" \in steady => lock # "malformed"
================================================================================
