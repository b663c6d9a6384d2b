------------------------------ MODULE TeamWorkers ------------------------------
(***************************************************************************)
(* The workers of one TeamExecutor run that is linked to a delegation      *)
(* ledger of the Core: their records, their git worktrees and their launch *)
(* in tmux, docs/sejong/scripts/team_executor.py.  A worker has a record   *)
(* in team.json, a file workers/<id>/state.json and an entry in the Core's *)
(* ledger.  Only a wave launch takes the lock of the run directory: every  *)
(* other command replaces team.json by the copy it loaded, changed.        *)
(***************************************************************************)
EXTENDS Naturals, FiniteSets

CONSTANTS
  Procs,
  Initial,     \* the workers `init` registers
  Added,       \* the workers add-worker may add
  WaveWorkers, \* the workers of the one declared wave, a subset of Initial
  Writers,     \* the write-capable workers
  Nil

Roster == Initial \cup Added

WorkerRecord ==
  [status : {"registered", "launched", "failed"},
   iso : {"none", "active", "preserved", "removed", "failed"}]
Copies == [Roster -> WorkerRecord \cup {Nil}]      \* of team.json

\* add-worker refuses an id that `init` has registered.
ConstantsAssumption ==
  /\ WaveWorkers \subseteq Initial /\ Initial \cap Added = {}
  /\ Nil \notin WorkerRecord \cup Copies \cup Procs

VARIABLES
  run,         \* "absent", "writing", "ready", or "torn" by an init that died
  team,        \* team.json: the record of each worker, or Nil
  files,       \* the state file of each worker, or Nil
  core, wave,  \* the Core's status of each worker and of the wave
  attempt,     \* does the wave's launch-attempt file exist?
  panes,       \* the panes that run: <<session, worker>>
  started,     \* how often a wave launch started each worker's command
  tree,        \* the worktree of each worker
  lock,        \* holder of the flock on the run directory
  pc, job,
  raced        \* have two add-worker commands of one id met?

records == <<team, files, raced>>
ledger == <<core, wave>>
tmux == <<panes, started, attempt>>
vars == <<run, records, ledger, tmux, tree, lock, pc, job>>

NoJob == [who |-> {}, worker |-> Nil, iso |-> "none", copy |-> Nil, mark |-> Nil, ret |-> "idle"]
Registered == [status |-> "registered", iso |-> "none"]
Terminal == {"completed", "failed"}
Direct == "direct"   \* the session name of every launch that is not a wave's

Init ==
  /\ run = "absent"
  /\ team = [w \in Roster |-> Nil] /\ files = [w \in Roster |-> Nil] /\ raced = FALSE
  /\ core = [w \in Roster |-> "none"] /\ wave = "undeclared"
  /\ attempt = FALSE /\ panes = {} /\ started = [w \in Roster |-> 0]
  /\ tree = [w \in Roster |-> "none"]
  /\ lock = Nil
  /\ pc = [p \in Procs |-> "idle"] /\ job = [p \in Procs |-> NoJob]

Members == {w \in Roster : team[w] # Nil}
Usable(p) == pc[p] = "idle" /\ run \in {"ready", "torn"}
Goto(p, l) == pc' = [pc EXCEPT ![p] = l]
Begin(p, l, j) == Goto(p, l) /\ job' = [job EXCEPT ![p] = j]
End(p) == Begin(p, "idle", NoJob) /\ lock' = (IF lock = p THEN Nil ELSE lock)
SetCore(ws, s) == core' = [w \in Roster |-> IF w \in ws THEN s ELSE core[w]]
Marked(f, m) == [w \in Roster |->
                   IF w \in DOMAIN m THEN [f[w] EXCEPT !.status = m[w]] ELSE f[w]]

--------------------------------------------------------------------------------
(* init and add-worker                                                     *)

InitRun(p) ==
  /\ run = "absent" /\ pc[p] = "idle"
  /\ \A w \in Initial : core[w] = "none"      \* the dry registration
  /\ run' = "writing"
  /\ team' = [w \in Roster |-> IF w \in Initial THEN Registered ELSE Nil]
  /\ files' = team'
  /\ Goto(p, "init")
  /\ UNCHANGED <<ledger, tmux, tree, lock, job, raced>>

InitRegisters(p) ==
  /\ pc[p] = "init"
  /\ run' = "ready" /\ SetCore(Initial, "registered")
  /\ Goto(p, "idle")
  /\ UNCHANGED <<records, wave, tmux, tree, lock, job>>

InitFails(p) ==      \* the run directory is removed
  /\ pc[p] = "init"
  /\ run' = "absent"
  /\ team' = [w \in Roster |-> Nil] /\ files' = team'
  /\ Goto(p, "idle")
  /\ UNCHANGED <<ledger, tmux, tree, lock, job, raced>>

AddLoads(p, w) ==
  /\ Usable(p) /\ w \in Added
  /\ team[w] = Nil /\ files[w] = Nil /\ core[w] = "none"
  /\ Begin(p, "addFiles", [NoJob EXCEPT !.worker = w, !.copy = team])
  /\ UNCHANGED <<run, records, ledger, tmux, tree, lock>>

RemoveFiles(w) == files' = [files EXCEPT ![w] = Nil]

\* Mutant: team.json is saved without a registration.
AddFilesUnregistered(p) ==
  LET w == job[p].worker IN
  /\ pc[p] = "addFiles"
  /\ files[w] = Nil /\ files' = [files EXCEPT ![w] = Registered]
  /\ Goto(p, "addSave")
  /\ UNCHANGED <<run, team, raced, ledger, tmux, tree, job, lock>>

AddFiles(p) ==
  LET w == job[p].worker IN
  /\ pc[p] = "addFiles"
  /\ IF files[w] = Nil
     THEN /\ files' = [files EXCEPT ![w] = Registered]
          /\ Goto(p, "addRegister") /\ UNCHANGED <<job, lock, raced>>
     ELSE RemoveFiles(w) /\ raced' = TRUE /\ End(p)   \* mkdir fails: the other's files go
  /\ UNCHANGED <<run, team, ledger, tmux, tree>>

AddRegisters(p) ==
  LET w == job[p].worker IN
  /\ pc[p] = "addRegister"
  /\ \/ /\ core[w] = "none" /\ SetCore({w}, "registered")
        /\ Goto(p, "addSave") /\ UNCHANGED <<files, job, lock>>
     \/ RemoveFiles(w) /\ End(p) /\ UNCHANGED core     \* refused, or an I/O error before
  /\ UNCHANGED <<run, team, raced, wave, tmux, tree>>

AddSaves(p) ==
  /\ pc[p] = "addSave"
  /\ team' = [job[p].copy EXCEPT ![job[p].worker] = Registered]
  /\ End(p)
  /\ UNCHANGED <<run, files, raced, ledger, tmux, tree>>

\* OSError: unregister, which only a worker still registered allows, and remove the files.
AddSaveFails(p) ==
  LET w == job[p].worker IN
  /\ pc[p] = "addSave"
  /\ SetCore({w} \cap {v \in Roster : core[v] = "registered"}, "none")
  /\ RemoveFiles(w) /\ End(p)
  /\ UNCHANGED <<run, team, raced, wave, tmux, tree>>

--------------------------------------------------------------------------------
(* Worktrees.  update_worker_isolation loads and replaces team.json, then  *)
(* the state file; ensure_worker_worktree and the cleanup end with it.     *)

Update(p, w, iso, todo, ret) ==
  Begin(p, "isoLoad", [job[p] EXCEPT !.worker = w, !.iso = iso, !.who = todo, !.ret = ret])

\* prepare-workspaces
Prepare(p, ws) ==
  /\ Usable(p) /\ ws # {} /\ ws \subseteq Members
  /\ Begin(p, "ensure", [NoJob EXCEPT !.who = ws \cap Writers])
  /\ UNCHANGED <<run, records, ledger, tmux, tree, lock>>

\* ensure_worker_worktree for the next worker; git worktree add makes a missing one.
Ensure(p) ==
  /\ pc[p] = "ensure"
  /\ IF job[p].who = {}
     THEN /\ IF job[p].ret = "idle" THEN End(p) ELSE Goto(p, job[p].ret) /\ UNCHANGED <<job, lock>>
          /\ UNCHANGED tree
     ELSE \E w \in job[p].who :
            /\ tree' = [tree EXCEPT ![w] = IF @ = "none" THEN "clean" ELSE @]
            /\ Update(p, w, "active", job[p].who \ {w}, job[p].ret)
            /\ UNCHANGED lock
  /\ UNCHANGED <<run, records, ledger, tmux>>

IsoLoads(p) ==
  /\ pc[p] = "isoLoad"
  /\ IF team[job[p].worker] = Nil THEN End(p)
     ELSE Begin(p, "isoSave", [job[p] EXCEPT !.copy = team]) /\ UNCHANGED lock
  /\ UNCHANGED <<run, records, ledger, tmux, tree>>

IsoSaves(p) ==
  LET j == job[p] IN
  /\ pc[p] = "isoSave"
  /\ team' = [j.copy EXCEPT ![j.worker] = [@ EXCEPT !.iso = j.iso]]
  /\ IF files[j.worker] = Nil      \* load_worker_state fails
     THEN End(p) /\ UNCHANGED files
     ELSE /\ files' = [files EXCEPT ![j.worker] = [@ EXCEPT !.iso = j.iso]]
          /\ IF j.iso = "failed" THEN End(p) ELSE Goto(p, "ensure") /\ UNCHANGED <<job, lock>>
  /\ UNCHANGED <<run, ledger, raced, tmux, tree>>

\* cleanup-workspaces for one worker, up to git status.
CleanupLooks(p, w) ==
  LET left(iso) == Update(p, w, iso, {}, "idle") IN
  /\ Usable(p) /\ w \in Members /\ files[w] # Nil /\ files[w].iso # "none"
  /\ \/ tree[w] = "dirty" /\ left("preserved")
     \/ tree[w] = "none" /\ left("removed")
     \/ tree[w] = "clean" /\ Begin(p, "remove", [NoJob EXCEPT !.worker = w])
     \/ tree[w] # "none" /\ left("failed")      \* git status fails
  /\ UNCHANGED <<run, records, ledger, tmux, tree, lock>>

\* Mutant: git worktree remove --force.
RemovableForced(w) == tree[w] # "none"
\* git worktree remove refuses a worktree that has changed since, or is gone.
Removable(w) == tree[w] = "clean"

CleanupRemoves(p) ==
  LET w == job[p].worker IN
  /\ pc[p] = "remove"
  /\ \/ Removable(w) /\ tree' = [tree EXCEPT ![w] = "none"] /\ Update(p, w, "removed", {}, "idle")
     \/ Update(p, w, "failed", {}, "idle") /\ UNCHANGED tree
  /\ UNCHANGED <<run, records, ledger, tmux, lock>>

\* A worker edits its worktree; its lead integrates what it finds there.
Edit(w) ==
  /\ tree[w] = "clean" /\ \E x \in panes : x[2] = w
  /\ tree' = [tree EXCEPT ![w] = "dirty"]
  /\ UNCHANGED <<run, records, ledger, tmux, lock, pc, job>>

Integrate(w) ==
  /\ tree[w] = "dirty"
  /\ tree' = [tree EXCEPT ![w] = "clean"]
  /\ UNCHANGED <<run, records, ledger, tmux, lock, pc, job>>

--------------------------------------------------------------------------------
(* launch --wave-id, under the lock                                        *)

Contract ==
  /\ wave = "pending"
  /\ \A w \in WaveWorkers : core[w] = "registered" /\ team[w] # Nil /\ team[w].status = "registered"

LaunchWave(p, isolate) ==
  /\ Usable(p) /\ lock = Nil /\ Contract
  /\ lock' = p
  /\ Begin(p, "ensure", [NoJob EXCEPT !.who = IF isolate THEN WaveWorkers \cap Writers ELSE {},
                                      !.ret = "attempt"])
  /\ UNCHANGED <<run, records, ledger, tmux, tree>>

\* create_wave_launch_attempt links the file, or finds that it is there.
Attempts(p) ==
  /\ pc[p] = "attempt"
  /\ IF attempt THEN End(p) /\ UNCHANGED attempt
     ELSE attempt' = TRUE /\ Goto(p, "open") /\ UNCHANGED <<job, lock>>
  /\ UNCHANGED <<run, records, ledger, panes, started, tree>>

CanOpen == wave = "pending" /\ \A w \in WaveWorkers : core[w] = "registered"

\* Mutant: the attempt is withdrawn and the panes are started before the Core is asked.
OpensUnasked(p) ==
  /\ pc[p] = "open"
  /\ Begin(p, "tmux", [job[p] EXCEPT !.who = WaveWorkers])
  /\ attempt' = FALSE
  /\ UNCHANGED <<run, records, ledger, panes, started, tree, lock>>
Opens(p) ==
  /\ pc[p] = "open"
  /\ IF CanOpen
     THEN /\ wave' = "active" /\ SetCore(WaveWorkers, "launched")
          /\ Begin(p, "tmux", [job[p] EXCEPT !.who = WaveWorkers])
          /\ UNCHANGED <<attempt, lock>>
     ELSE attempt' = FALSE /\ End(p) /\ UNCHANGED ledger
  /\ UNCHANGED <<run, records, panes, started, tree>>

PaneStarts(p) ==
  /\ pc[p] = "tmux"
  /\ \E w \in job[p].who :
       /\ panes' = panes \cup {<<p, w>>}
       /\ started' = [started EXCEPT ![w] = @ + 1]
       /\ LET left == job[p].who \ {w} IN
          Begin(p, IF left = {} THEN "statuses" ELSE "tmux",
                [job[p] EXCEPT !.who = left,
                   !.mark = [v \in WaveWorkers |-> "launched"]])
  /\ UNCHANGED <<run, records, ledger, attempt, tree, lock>>

\* save_local_wave_statuses: load everything, then save the state files, then team.json.
StatusLoads(p) ==
  /\ pc[p] \in {"statuses", "copyBack"}
  /\ \A w \in DOMAIN job[p].mark :
       /\ team[w] # Nil /\ files[w] # Nil
       /\ pc[p] = "statuses" => team[w].status = "registered" /\ files[w].status = "registered"
  /\ Begin(p, "statusSave", [job[p] EXCEPT !.copy = team, !.ret = pc[p]])
  /\ UNCHANGED <<run, records, ledger, tmux, tree, lock>>

StatusSaves(p) ==
  /\ pc[p] = "statusSave"
  /\ files' = Marked(files, job[p].mark)
  /\ team' = Marked(job[p].copy, job[p].mark)
  /\ End(p)
  /\ UNCHANGED <<run, raced, ledger, tmux, tree>>

\* A pane does not start, or the statuses cannot be saved: remove the session, if any
\* pane of it was started; tmux may fail at that too.
LaunchFails(p) ==
  /\ pc[p] \in {"tmux", "statuses"} \/ (pc[p] = "statusSave" /\ job[p].ret = "statuses")
  /\ panes' \in {panes, {x \in panes : x[1] # p}}
  /\ Goto(p, "evidence")
  /\ UNCHANGED <<run, records, ledger, started, attempt, tree, lock, job>>

\* Mutant: a worker that has already reported is failed all the same.
UnreportedAny(w) == core[w] \in {"launched", "completed"}
Unreported(w) == core[w] = "launched"

\* record_wave_launch_failure: without its evidence file it records no receipt.
RecordsFailure(p) ==
  /\ pc[p] = "evidence"
  /\ \/ SetCore({w \in WaveWorkers : Unreported(w)}, "failed")
     \/ UNCHANGED core
  /\ LET failed == {w \in WaveWorkers : core'[w] = "failed"} IN
     Begin(p, "copyBack", [job[p] EXCEPT !.mark = [w \in failed |-> "failed"]])
  /\ UNCHANGED <<run, records, wave, tmux, tree, lock>>

CopyBackFails(p) ==
  /\ pc[p] = "copyBack" \/ (pc[p] = "statusSave" /\ job[p].ret = "copyBack")
  /\ End(p)
  /\ UNCHANGED <<run, records, ledger, tmux, tree>>

--------------------------------------------------------------------------------
(* launch without a wave: no lock, one session name for the run             *)

DirectReserves(p, ws) ==
  /\ Usable(p) /\ ws # {} /\ ws \subseteq Members \ WaveWorkers
  /\ \A w \in ws : core[w] = "registered"
  /\ SetCore(ws, "launched")
  /\ Begin(p, "direct", [NoJob EXCEPT !.who = ws])
  /\ UNCHANGED <<run, records, wave, tmux, tree, lock>>

DirectStarts(p) ==
  /\ pc[p] = "direct"
  /\ \A x \in panes : x[1] # Direct      \* tmux new-session refuses a name in use
  /\ panes' = panes \cup {<<Direct, w>> : w \in job[p].who}
  /\ End(p)
  /\ UNCHANGED <<run, records, ledger, started, attempt, tree>>

\* Release the workers and kill the session of that name, whoever started it.
DirectFails(p) ==
  /\ pc[p] = "direct"
  /\ SetCore({w \in job[p].who : core[w] = "launched"}, "registered")
  /\ panes' \in {panes, {x \in panes : x[1] # Direct}}
  /\ End(p)
  /\ UNCHANGED <<run, records, wave, started, attempt, tree>>

--------------------------------------------------------------------------------
(* The Core's own commands, and the end of processes                       *)

DeclareWave ==
  /\ wave = "undeclared" /\ \A w \in WaveWorkers : core[w] = "registered"
  /\ wave' = "pending"
  /\ UNCHANGED <<run, records, core, tmux, tree, lock, pc, job>>

\* A worker that was started ends, and its terminal receipt is recorded.
Report(w, status) ==
  /\ core[w] = "launched" /\ \E x \in panes : x[2] = w
  /\ core' = [core EXCEPT ![w] = status]
  /\ panes' = {x \in panes : x[2] # w}
  /\ UNCHANGED <<run, records, wave, started, attempt, tree, lock, pc, job>>

Die(p) ==
  /\ pc[p] # "idle"
  /\ run' = IF pc[p] = "init" THEN "torn" ELSE run
  /\ End(p)
  /\ UNCHANGED <<records, ledger, tmux, tree>>

Next ==
  \/ DeclareWave
  \/ \E w \in Roster : \/ Edit(w) \/ Integrate(w)
                        \/ \E s \in Terminal : Report(w, s)
  \/ \E p \in Procs :
       \/ InitRun(p) \/ InitRegisters(p) \/ InitFails(p)
       \/ \E w \in Roster : AddLoads(p, w) \/ CleanupLooks(p, w)
       \/ AddFiles(p) \/ AddRegisters(p) \/ AddSaves(p) \/ AddSaveFails(p)
       \/ \E ws \in SUBSET Roster : Prepare(p, ws) \/ DirectReserves(p, ws)
       \/ Ensure(p) \/ IsoLoads(p) \/ IsoSaves(p) \/ CleanupRemoves(p)
       \/ \E isolate \in BOOLEAN : LaunchWave(p, isolate)
       \/ Attempts(p) \/ Opens(p) \/ PaneStarts(p) \/ StatusLoads(p) \/ StatusSaves(p)
       \/ LaunchFails(p) \/ RecordsFailure(p) \/ CopyBackFails(p)
       \/ DirectStarts(p) \/ DirectFails(p)
       \/ Die(p)

Spec == Init /\ [][Next]_vars

--------------------------------------------------------------------------------
TypeOK ==
  /\ run \in {"absent", "writing", "ready", "torn"}
  /\ \A f \in {team, files} : \A w \in Roster :
       f[w] # Nil => f[w] \in WorkerRecord
  /\ core \in [Roster -> {"none", "registered", "launched"} \cup Terminal]
  /\ wave \in {"undeclared", "pending", "active"}
  /\ tree \in [Roster -> {"none", "clean", "dirty"}]
  /\ panes \subseteq (Procs \cup {Direct}) \X Roster
  /\ started \in [Roster -> Nat] /\ lock \in Procs \cup {Nil}

\* "The per-run lock serializes the local dispatch-once transition"
\* (docs/sejong/TEAM_EXECUTOR.md): however often a wave is launched, by whomever, and
\* wherever launchers die or fail, each worker's command is started at most once, and
\* only once the Core has opened the wave (launch_wave:2195-2295); a local record says
\* "launched" or "failed" only of such a worker.
DispatchOnce ==
  /\ TypeOK
  /\ \A w \in WaveWorkers :
       /\ started[w] <= 1
       /\ started[w] = 1 => wave = "active" /\ core[w] \notin {"none", "registered"}
       /\ \A f \in {team, files} : f[w] # Nil /\ f[w].status # "registered" => wave = "active"

\* A member of the run has its files and its registration in the Core
\* (add_worker_record:770-881, init_run:884-1001), but for an init that died or works,
\* and for add-worker commands of one id that met.
MembersRegistered ==
  run = "ready" /\ ~raced =>
    \A w \in Members : files[w] # Nil /\ core[w] # "none"

\* "Dirty worktrees are preserved" (docs/sejong/TEAM_EXECUTOR.md): no command removes a
\* worktree with changes in it, even when they are made after it was looked at
\* (cleanup_workspaces:1692-1734), and no terminal state of a worker is rewritten by a
\* launch that fails (record_wave_launch_failure:2063-2124).
LosesNothing ==
  \A w \in Roster :
    /\ tree[w] = "dirty" => tree'[w] # "none"
    /\ core[w] \in Terminal => core'[w] = core[w]
NothingLost == [][LosesNothing]_vars
================================================================================
