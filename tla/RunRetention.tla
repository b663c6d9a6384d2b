------------------------------ MODULE RunRetention -----------------------------
(***************************************************************************)
(* docs/sejong/scripts/sejong_cleanup.py: finalize-run and prune-runs      *)
(* delete the raw artifacts of runs, or whole runs, unless a session is    *)
(* bound to them or they are promoted.  The commands take no lock: they    *)
(* look at one session binding after the other (bound_run_protection) and  *)
(* delete afterwards, while sessions bind, unbind and work.                *)
(***************************************************************************)
EXTENDS Naturals, FiniteSets, FiniteSetsExt

CONSTANTS
  Runs,        \* the run directories of one repository, numbers from 1 in path order
  Sessions, Procs,
  Named,       \* what a Context's artifact_refs may name: sets of runs
  RawTtl,      \* days after which each status lets go of its raw artifacts
  CompactTtl, MaxCompact, MaxAge,
  Nil

VARIABLES
  dir,         \* each run: Nil, or [raw, status of its summary, promoted, age in days]
  binding,     \* the run each session's Context names, or 0
  damaged,     \* the sessions whose binding file is malformed
  refs,        \* the runs the artifact_refs of that Context name
  job,         \* what each process does, or Nil
  steady       \* per process and session: the binding since its command began, or Nil

vars == <<dir, binding, damaged, refs, job, steady>>

Statuses == DOMAIN RawTtl   \* success, failed, blocked
RunRecord ==   \* a run directory
  [raw : BOOLEAN, status : Statuses \cup {"none"}, promoted : BOOLEAN, age : Nat]
ConstantsAssumption ==
  IsFiniteSet(Runs) /\ Named \subseteq SUBSET Runs /\ Nil \notin RunRecord
NewRunDir == [raw |-> TRUE, status |-> "none", promoted |-> FALSE, age |-> 0]

Init ==
  /\ dir = [r \in Runs |-> Nil]
  /\ binding = [s \in Sessions |-> 0] /\ damaged = {} /\ refs = [s \in Sessions |-> {}]
  /\ job = [p \in Procs |-> Nil]
  /\ steady = [p \in Procs |-> [s \in Sessions |-> Nil]]

Existing == {r \in Runs : dir[r] # Nil}

--------------------------------------------------------------------------------
(* What sessions and time do meanwhile                                     *)

NewRun(r) ==
  /\ dir[r] = Nil
  /\ dir' = [dir EXCEPT ![r] = NewRunDir]
  /\ UNCHANGED <<binding, damaged, refs, job, steady>>

\* More raw artifacts, or the marker of a promoted run; both touch the directory.
Work(r) ==
  /\ dir[r] # Nil
  /\ dir' = [dir EXCEPT ![r] = [@ EXCEPT !.raw = TRUE, !.age = 0]]
  /\ UNCHANGED <<binding, damaged, refs, job, steady>>

Promote(r) ==
  /\ dir[r] # Nil
  /\ dir' = [dir EXCEPT ![r] = [@ EXCEPT !.promoted = TRUE, !.age = 0]]
  /\ UNCHANGED <<binding, damaged, refs, job, steady>>

\* A session binds, moves or unbinds; its binding file may be damaged.
Rebind(s, b, named) ==
  /\ b \in Existing \cup {0} /\ (b = 0 => named = {}) /\ b \notin named
  /\ binding' = [binding EXCEPT ![s] = b] /\ refs' = [refs EXCEPT ![s] = named]
  /\ damaged' = damaged \ {s}
  /\ steady' = [p \in Procs |-> [steady[p] EXCEPT ![s] = Nil]]
  /\ UNCHANGED <<dir, job>>

Damage(s) ==
  /\ damaged' = damaged \cup {s}
  /\ binding' = [binding EXCEPT ![s] = 0] /\ refs' = [refs EXCEPT ![s] = {}]
  /\ steady' = [p \in Procs |-> [steady[p] EXCEPT ![s] = Nil]]
  /\ UNCHANGED <<dir, job>>

Day ==
  /\ \E r \in Existing : dir[r].age < MaxAge
  /\ dir' = [r \in Runs |-> IF r \in Existing /\ dir[r].age < MaxAge
                            THEN [dir[r] EXCEPT !.age = @ + 1] ELSE dir[r]]
  /\ UNCHANGED <<binding, damaged, refs, job, steady>>

--------------------------------------------------------------------------------
(* The commands                                                            *)

\* A fresh look of bound_run_protection at every binding.
Look(j) == [j EXCEPT !.todo = Sessions, !.active = FALSE, !.bad = FALSE]

Begin(p, j) ==
  /\ job' = [job EXCEPT ![p] = Look(j)]
  /\ steady' = [steady EXCEPT ![p] = [s \in Sessions |-> binding[s]]]
  /\ UNCHANGED <<dir, binding, damaged, refs>>

FinalizeRun(p, r, status) ==
  /\ job[p] = Nil /\ dir[r] # Nil
  /\ Begin(p, [run |-> r, status |-> status, raw |-> status = "success",
               at |-> "summary", todo |-> {}, active |-> FALSE, bad |-> FALSE, rank |-> 0])

\* Without --execute all that remains of finalize-run is the summary it writes; a
\* prune-runs without it writes the status it has read.
FinalizeDry(r, status) ==
  /\ dir[r] # Nil
  /\ dir' = [dir EXCEPT ![r].status = status]
  /\ UNCHANGED <<binding, damaged, refs, job, steady>>

\* newest_by_repo: how many directories were changed after this one.
Rank(r) == Cardinality({q \in Existing : dir[q].age < dir[r].age \/ (dir[q].age = dir[r].age /\ q < r)})

\* One directory's turn in prune-runs; the ranks are those of the command's start.
PruneRun(p, r) ==
  /\ job[p] = Nil /\ dir[r] # Nil
  /\ Begin(p, [run |-> r, status |-> dir[r].status, raw |-> FALSE,
               at |-> "prune", todo |-> {}, active |-> FALSE, bad |-> FALSE, rank |-> Rank(r)])

\* Mutant: what other Contexts name is nobody's.
ProtectsOwn(s, r) == binding[s] = r
Protects(s, r) == binding[s] = r \/ r \in refs[s]

\* One more binding file is read.
Saw(j, s) ==
  [j EXCEPT !.todo = @ \ {s}, !.active = @ \/ Protects(s, j.run), !.bad = @ \/ s \in damaged]

LookAt(p) ==
  /\ job[p] # Nil /\ job[p].todo # {}
  /\ \E s \in job[p].todo :      \* the file names are digests: no order to rely on
       job' = [job EXCEPT ![p] = Saw(job[p], s)]
  /\ UNCHANGED <<dir, binding, damaged, refs, steady>>

Looked(p, at) == job[p] # Nil /\ job[p].todo = {} /\ job[p].at = at
End(p) ==
  /\ job' = [job EXCEPT ![p] = Nil]
  /\ steady' = [steady EXCEPT ![p] = [s \in Sessions |-> Nil]]

Expired(j) == dir[j.run].age >= CompactTtl /\ j.rank >= MaxCompact
RawExpired(j) == dir[j.run].age >= RawTtl[j.status]

\* The middle of prune_runs: skip, delete the run, or go on to its raw artifacts.
PruneDecides(p) ==
  LET j == job[p] r == j.run IN
  /\ Looked(p, "prune")
  /\ IF dir[r] = Nil THEN End(p) /\ UNCHANGED dir       \* gone: the command fails
     ELSE IF j.status \notin Statuses \/ j.bad \/ j.active \/ dir[r].promoted
     THEN End(p) /\ UNCHANGED dir
     ELSE IF Expired(j)
     THEN /\ dir' = [dir EXCEPT ![r] = Nil]
          /\ End(p)
     ELSE /\ job' = [job EXCEPT ![p] = Look([j EXCEPT !.at = "summary", !.raw = RawExpired(j)])]
          /\ UNCHANGED <<dir, steady>>
  /\ UNCHANGED <<binding, damaged, refs>>

\* build_run_summary after its look: can_delete is computed, and not asked.
Deletes(j) == j.raw /\ ~j.active /\ ~dir[j.run].promoted

PrunesRaw(p) ==
  LET j == job[p] r == j.run IN
  /\ Looked(p, "summary")
  /\ IF dir[r] = Nil THEN End(p) /\ UNCHANGED dir
     ELSE /\ dir' = IF Deletes(j) /\ dir[r].raw
                    THEN [dir EXCEPT ![r] = [@ EXCEPT !.raw = FALSE, !.age = 0]] ELSE dir
          /\ job' = [job EXCEPT ![p].at = "write"] /\ UNCHANGED steady
  /\ UNCHANGED <<binding, damaged, refs>>

\* run-summary.json is written in place: a crash may leave it unreadable.
WritesSummary(p) ==
  LET j == job[p] IN
  /\ Looked(p, "write")
  /\ dir' = IF dir[j.run] = Nil THEN dir ELSE [dir EXCEPT ![j.run].status = j.status]
  /\ End(p)
  /\ UNCHANGED <<binding, damaged, refs>>

Dies(p) ==
  /\ job[p] # Nil
  /\ \/ UNCHANGED dir
     \/ Looked(p, "write") /\ dir[job[p].run] # Nil /\ dir' = [dir EXCEPT ![job[p].run].status = "none"]
  /\ End(p)
  /\ UNCHANGED <<binding, damaged, refs>>

Next ==
  \/ Day
  \/ \E r \in Runs : \/ NewRun(r) \/ Work(r) \/ Promote(r)
                     \/ \E s \in Statuses : FinalizeDry(r, s)
  \/ \E s \in Sessions : \/ Damage(s)
                          \/ \E b \in Runs \cup {0}, n \in Named : Rebind(s, b, n)
  \/ \E p \in Procs :
       \/ LookAt(p) \/ PruneDecides(p) \/ PrunesRaw(p) \/ WritesSummary(p) \/ Dies(p)
       \/ \E r \in Runs : PruneRun(p, r) \/ \E s \in Statuses : FinalizeRun(p, r, s)

Spec == Init /\ [][Next]_vars

--------------------------------------------------------------------------------
Removes(r) == dir[r] # Nil /\ (dir'[r] = Nil \/ (dir[r].raw /\ ~dir'[r].raw))

\* What a session works on is not deleted: when artifacts of a run go, no session has
\* been bound to a Context of it, or naming it, since the command began; the run is not
\* promoted; and when a whole run goes, it is as old as its retention and its command has
\* read a summary of it
\* (build_run_summary:171-260, prune_runs:325-352).
SparesBound ==
  \A r \in Runs : Removes(r) =>
    /\ ~dir[r].promoted
    /\ \E p \in Procs :
         /\ job[p] # Nil /\ job[p].run = r /\ job'[p] # job[p]
         /\ \A s \in Sessions : steady[p][s] \notin {Nil, 0} => steady[p][s] # r /\ r \notin refs[s]
         /\ dir'[r] = Nil => dir[r].age >= CompactTtl /\ job[p].status \in Statuses
BoundRunsSurvive == [][SparesBound]_vars

\* "Destructive cleanup ... fails closed on malformed binding state"
\* (docs/sejong/MULTI_SESSION.md:170): a command that met a malformed binding deletes
\* nothing (build_run_summary:183-201).
FailsClosed ==
  [][\A r \in Runs, p \in Procs :
       Removes(r) /\ job'[p] # job[p] => ~job[p].bad]_vars
================================================================================
