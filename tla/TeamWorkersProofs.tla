---------------------------- MODULE TeamWorkersProofs ----------------------------
(***************************************************************************)
(* The inductive invariant of TeamWorkers, for any processes and workers.  *)
(* MCTeam takes two instances of this module, and TeamProofs cites its     *)
(* lemmas about each of them.                                              *)
(***************************************************************************)
EXTENDS TeamWorkers, TLAPS

Isos == {"none", "active", "preserved", "removed", "failed"}
Marks == UNION {[S -> {"launched", "failed"}] : S \in SUBSET WaveWorkers}
Jobs ==
  [who : SUBSET Roster, worker : Roster \cup {Nil}, iso : Isos, copy : Copies \cup {Nil},
   mark : Marks \cup {Nil}, ret : {"idle", "attempt", "statuses", "copyBack"}]

Kinds ==
  /\ run \in {"absent", "writing", "ready", "torn"}
  /\ team \in Copies /\ files \in Copies
  /\ core \in [Roster -> {"none", "registered", "launched"} \cup Terminal]
  /\ wave \in {"undeclared", "pending", "active"}
  /\ tree \in [Roster -> {"none", "clean", "dirty"}]
  /\ panes \subseteq (Procs \cup {Direct}) \X Roster
  /\ started \in [Roster -> Nat] /\ lock \in Procs \cup {Nil}
  /\ DOMAIN pc = Procs /\ job \in [Procs -> Jobs]

\* The places at which a launch of the wave holds the lock, and those after the Core opened it.
AfterOpen == {"tmux", "statuses", "statusSave", "evidence", "copyBack"}
HoldsLock(l, j) ==
  l \in AfterOpen \cup {"attempt", "open"} \/ (l \in {"ensure", "isoLoad", "isoSave"} /\ j.ret = "attempt")

\* A copy of team.json, however old, has the workers of `init`, and none of the wave launched
\* before the wave was.
GoodCopy(f) ==
  /\ \A w \in Initial : f[w] # Nil
  /\ \A w \in WaveWorkers : f[w].status # "registered" => wave = "active"

\* What a process at l with the job j relies on.
Place(l, j, p) ==
  /\ l \in {"idle", "init"} => j = NoJob
  /\ l = "init" => run = "writing"
  /\ l \notin {"idle", "init"} => run \in {"ready", "torn"}
  /\ l \in {"addFiles", "addRegister", "addSave"} => j.worker \in Added /\ j.copy \in Copies
  /\ l \in {"isoLoad", "isoSave", "remove"} => j.worker \in Roster
  /\ l \in {"ensure", "isoLoad", "isoSave"} => j.ret \in {"idle", "attempt"}
  /\ l = "isoSave" => j.copy \in Copies /\ j.copy[j.worker] # Nil
  /\ HoldsLock(l, j) => lock = p
  /\ l \in AfterOpen => wave = "active"
  /\ l = "tmux" => j.who \subseteq WaveWorkers /\ \A w \in j.who : started[w] = 0
  /\ l \in {"statuses", "statusSave", "copyBack"} => j.mark \in Marks
  /\ l = "statusSave" => j.copy \in Copies
  /\ l = "direct" => j.who \cap WaveWorkers = {}
  /\ j.copy \in Copies => GoodCopy(j.copy)

Places == \A p \in Procs : Place(pc[p], job[p], p)
OneInit == \A p, q \in Procs : pc[p] = "init" /\ pc[q] = "init" => p = q

Shared ==
  /\ run \in {"absent", "writing"} => \A w \in Roster : core[w] = "none"
  /\ run = "absent" => \A w \in Roster : team[w] = Nil /\ files[w] = Nil
  /\ run = "writing" => \A w \in Added : team[w] = Nil
  /\ run # "absent" => GoodCopy(team) /\ GoodCopy(files)
  /\ wave = "active" => \A w \in WaveWorkers : core[w] \notin {"none", "registered"}
  /\ wave # "active" => \A w \in WaveWorkers : started[w] = 0
  /\ \A w \in WaveWorkers : started[w] <= 1

\* Whoever is in some copy of team.json has its files and its registration; whoever is being
\* added has its files, is in no copy yet, and is added by one process.
Copied(w) == team[w] # Nil \/ \E p \in Procs : job[p].copy \in Copies /\ job[p].copy[w] # Nil
IsAdding(p, w) == pc[p] \in {"addRegister", "addSave"} /\ job[p].worker = w
Registrations ==
  run = "ready" /\ ~raced =>
    /\ \A w \in Roster : Copied(w) => files[w] # Nil /\ core[w] # "none"
    /\ \A p \in Procs, w \in Roster : IsAdding(p, w) =>
         /\ files[w] # Nil /\ ~Copied(w)
         /\ pc[p] = "addSave" => core[w] # "none"
         /\ \A q \in Procs : IsAdding(q, w) => q = p

IInv == Kinds /\ Places /\ OneInit /\ Shared /\ Registrations

--------------------------------------------------------------------------------
LEMMA Initially == ASSUME ConstantsAssumption, Init PROVE IInv
<1>1. NoJob \in Jobs
  BY DEF NoJob, Jobs, Isos
<1>2. Kinds
  BY <1>1 DEF Init, Kinds, Copies
<1>3. Places
  <2>1. \A p \in Procs : pc[p] = "idle" /\ job[p] = NoJob
    BY DEF Init
  <2>2. ASSUME NEW p \in Procs PROVE Place("idle", NoJob, p)
    BY DEF Place, HoldsLock, AfterOpen, NoJob, ConstantsAssumption
  <2> QED BY <2>1, <2>2 DEF Places
<1>4. OneInit /\ Shared
  BY DEF Init, OneInit, Shared, GoodCopy, ConstantsAssumption, Roster
<1> QED BY <1>2, <1>3, <1>4 DEF IInv, Registrations, Init

--------------------------------------------------------------------------------
\* One process moves; the others stay where they are, on what they rely on.
OnlyMoves(p) ==
  /\ DOMAIN pc' = Procs /\ job' \in [Procs -> Jobs]
  /\ \A q \in Procs : q # p => pc'[q] = pc[q] /\ job'[q] = job[q]

LEMMA Moving ==
  ASSUME Kinds, NEW p \in Procs, NEW l, pc' = [pc EXCEPT ![p] = l],
         \E j \in Jobs : job' = [job EXCEPT ![p] = j]
  PROVE  OnlyMoves(p) /\ pc'[p] = l
<1>1. PICK j \in Jobs : job' = [job EXCEPT ![p] = j]
  OBVIOUS
<1> QED BY <1>1 DEF OnlyMoves, Kinds

LEMMA OthersStay ==
  ASSUME ConstantsAssumption, IInv, NEW p \in Procs, OnlyMoves(p),
         run' = run \/ (run = "writing" /\ run' \in {"ready", "torn", "absent"} /\ pc[p] = "init")
           \/ (run = "absent" /\ run' = "writing"),
         lock' \in {lock, Nil} \/ lock = p \/ lock = Nil, lock' = Nil => lock \in {p, Nil},
         wave' = wave \/ wave # "active", started' = started \/ lock = p,
         Place(pc[p], job[p], p)', pc'[p] = "init" => pc[p] = "init" \/ run = "absent"
  PROVE  Places' /\ OneInit'
<1>1. ASSUME NEW q \in Procs, q # p PROVE Place(pc[q], job[q], q)'
  <2> DEFINE l == pc[q]
             j == job[q]
  <2>1. pc'[q] = l /\ job'[q] = j
    BY <1>1 DEF OnlyMoves
  <2>2. Place(l, j, q)
    BY DEF IInv, Places
  <2>3. HoldsLock(l, j) => lock = q /\ lock' = q /\ started' = started
    BY <1>1, <2>2 DEF Place, ConstantsAssumption
  <2>4. l = "init" => run' = "writing"
    BY <1>1, <2>2 DEF Place, IInv, OneInit
  <2>5. l \notin {"idle", "init"} => run' \in {"ready", "torn"}
    BY <2>2 DEF Place
  <2>6. \A f : GoodCopy(f) => GoodCopy(f)'
    BY DEF GoodCopy
  <2>7. wave = "active" => wave' = "active"
    OBVIOUS
  <2>8. l = "tmux" => HoldsLock(l, j)
    BY DEF HoldsLock, AfterOpen
  <2> HIDE DEF l, j
  <2> PICK m, k : m = l /\ k = j
    OBVIOUS
  <2>9. Place(m, k, q)'
    BY <2>2, <2>3, <2>4, <2>5, <2>6, <2>7, <2>8 DEF Place, HoldsLock
  <2> QED BY <2>1, <2>9 DEF Place, HoldsLock
<1>2. Places'
  BY <1>1 DEF Places
<1>3. OneInit'
  BY DEF IInv, OneInit, Places, Place, OnlyMoves
<1> QED BY <1>2, <1>3

\* Neither a copy, a file nor a registration that somebody relies on goes.
LEMMA RegistrationsStay ==
  ASSUME IInv, NEW p \in Procs, OnlyMoves(p),
         run' = "ready" /\ ~raced' => run = "ready" /\ ~raced,
         \A w \in Roster : Copied(w)' => Copied(w),
         \A w \in Roster : files[w] # Nil => files'[w] # Nil,
         \A w \in Roster : core[w] # "none" => core'[w] # "none",
         pc'[p] \notin {"addRegister", "addSave"}
  PROVE  Registrations'
BY DEF IInv, Registrations, OnlyMoves, IsAdding

LockMoves(p) == lock' = lock \/ (lock \in {p, Nil} /\ lock' \in {p, Nil})

LEMMA Quiet ==
  ASSUME ConstantsAssumption, IInv, NEW p \in Procs, OnlyMoves(p), LockMoves(p),
         UNCHANGED <<run, team, files, core, wave, started, raced>>,
         tree' \in [Roster -> {"none", "clean", "dirty"}],
         panes' \subseteq (Procs \cup {Direct}) \X Roster,
         Place(pc[p], job[p], p)', pc'[p] \notin {"init", "addRegister", "addSave"},
         job'[p].copy \in {job[p].copy, team, Nil}
  PROVE  IInv'
<1>1. Kinds'
  BY DEF IInv, Kinds, OnlyMoves, LockMoves
<1>2. Places' /\ OneInit'
  BY OthersStay DEF LockMoves
<1>3. Shared'
  BY DEF IInv, Shared, GoodCopy
<1>4. \A w \in Roster : Copied(w)' => Copied(w)
  BY DEF Copied, OnlyMoves, ConstantsAssumption
<1>5. Registrations'
  BY <1>4, RegistrationsStay
<1> QED BY <1>1, <1>2, <1>3, <1>5 DEF IInv

LEMMA Ending ==
  ASSUME Kinds, NEW p \in Procs, End(p)
  PROVE  OnlyMoves(p) /\ LockMoves(p) /\ pc'[p] = "idle" /\ job'[p] = NoJob
<1>1. NoJob \in Jobs
  BY DEF NoJob, Jobs, Isos
<1> QED BY <1>1 DEF End, Begin, Goto, Kinds, OnlyMoves, LockMoves

LEMMA AtRest == ASSUME ConstantsAssumption, NEW p PROVE Place("idle", NoJob, p)
BY DEF Place, HoldsLock, AfterOpen, NoJob, ConstantsAssumption

LEMMA EndingQuiet ==
  ASSUME ConstantsAssumption, IInv, NEW p \in Procs, End(p),
         UNCHANGED <<run, team, files, core, wave, started, raced>>,
         tree' \in [Roster -> {"none", "clean", "dirty"}],
         panes' \subseteq (Procs \cup {Direct}) \X Roster
  PROVE  IInv'
<1>1. OnlyMoves(p) /\ LockMoves(p) /\ pc'[p] = "idle" /\ job'[p] = NoJob
  BY Ending DEF IInv
<1>2. Place(pc[p], job[p], p)'
  BY <1>1, AtRest DEF Place, HoldsLock, AfterOpen, NoJob, ConstantsAssumption
<1> QED BY <1>1, <1>2, Quiet DEF NoJob

--------------------------------------------------------------------------------
(* One lemma per action, or per group of actions that move alike.          *)

LEMMA Now ==
  ASSUME IInv, NEW p \in Procs
  PROVE  job[p] \in Jobs /\ Place(pc[p], job[p], p)
BY DEF IInv, Kinds, Places

LEMMA Updating ==
  ASSUME Kinds, NEW p \in Procs, NEW w \in Roster, NEW iso \in Isos, NEW todo \in SUBSET Roster,
         NEW ret \in {"idle", "attempt"}, Update(p, w, iso, todo, ret)
  PROVE  /\ OnlyMoves(p) /\ pc'[p] = "isoLoad"
         /\ job'[p].worker = w /\ job'[p].ret = ret /\ job'[p].copy = job[p].copy
<1> DEFINE j == job[p]
           k == [j EXCEPT !.worker = w, !.iso = iso, !.who = todo, !.ret = ret]
<1>1. j \in Jobs
  BY DEF Kinds
<1>2. k \in Jobs /\ k.worker = w /\ k.ret = ret /\ k.copy = j.copy
  BY <1>1 DEF Jobs
<1>3. pc' = [pc EXCEPT ![p] = "isoLoad"] /\ job' = [job EXCEPT ![p] = k]
  BY DEF Update, Begin, Goto
<1> HIDE DEF k
<1> QED BY <1>2, <1>3 DEF Kinds, OnlyMoves

LEMMA UpdatingQuiet ==
  ASSUME ConstantsAssumption, IInv, NEW p \in Procs, NEW w \in Roster, NEW iso \in Isos,
         NEW todo \in SUBSET Roster, NEW ret \in {"idle", "attempt"}, Update(p, w, iso, todo, ret),
         run \in {"ready", "torn"}, ret = "attempt" => lock = p,
         UNCHANGED <<run, team, files, core, wave, started, raced, lock, panes>>,
         tree' \in [Roster -> {"none", "clean", "dirty"}]
  PROVE  IInv'
<1>1. /\ OnlyMoves(p) /\ pc'[p] = "isoLoad"
      /\ job'[p].worker = w /\ job'[p].ret = ret /\ job'[p].copy = job[p].copy
  BY Updating DEF IInv
<1>2. Place(pc[p], job[p], p)'
  BY <1>1, Now DEF Place, HoldsLock, AfterOpen, GoodCopy
<1>3. panes' \subseteq (Procs \cup {Direct}) \X Roster
  BY DEF IInv, Kinds
<1> QED BY <1>1, <1>2, <1>3, Quiet DEF LockMoves

\* DeclareWave, Edit, Integrate and Report are nobody's steps.
LEMMA OutsideSteps ==
  ASSUME ConstantsAssumption, IInv,
         DeclareWave \/ \E w \in Roster : Edit(w) \/ Integrate(w) \/ \E s \in Terminal : Report(w, s)
  PROVE  IInv'
<1>1. UNCHANGED <<run, team, files, raced, started, lock, pc, job>>
  BY DEF DeclareWave, Edit, Integrate, Report, records, tmux, ledger
<1>2. wave' = wave \/ (wave = "undeclared" /\ wave' = "pending")
  BY DEF DeclareWave, Edit, Integrate, Report, records, tmux, ledger
<1>3. /\ core' \in [Roster -> {"none", "registered", "launched"} \cup Terminal]
      /\ \A w \in Roster : core'[w] = core[w] \/ (core[w] = "launched" /\ core'[w] \in Terminal)
  BY DEF IInv, Kinds, DeclareWave, Edit, Integrate, Report, records, tmux, ledger
<1>4. Kinds'
  <2>1. tree' \in [Roster -> {"none", "clean", "dirty"}] /\ panes' \subseteq panes
    BY DEF IInv, Kinds, DeclareWave, Edit, Integrate, Report, records, tmux, ledger
  <2> QED BY <1>1, <1>2, <1>3, <2>1 DEF IInv, Kinds
<1>5. Places' /\ OneInit'
  BY <1>1, <1>2 DEF IInv, Places, Place, GoodCopy, OneInit, HoldsLock
<1>6. \A w \in Roster : (core[w] = "none") = (core'[w] = "none")
  BY <1>3 DEF Terminal
<1>7. Shared'
  BY <1>1, <1>2, <1>3, <1>6 DEF IInv, Shared, GoodCopy, ConstantsAssumption, Roster, Terminal
<1>8. Registrations'
  BY <1>1, <1>6 DEF IInv, Registrations, Copied, IsAdding
<1> QED BY <1>4, <1>5, <1>7, <1>8 DEF IInv

\* While no run is ready or torn, every process is idle or in `init`.
LEMMA NobodyWorks ==
  ASSUME IInv, run \in {"absent", "writing"}, NEW p \in Procs
  PROVE  pc[p] \in {"idle", "init"} /\ job[p] = NoJob /\ (run = "absent" => pc[p] = "idle")
BY DEF IInv, Places, Place

LEMMA InitRunKept == ASSUME ConstantsAssumption, IInv, NEW p \in Procs, InitRun(p) PROVE IInv'
<1>1. /\ run = "absent" /\ run' = "writing" /\ pc' = [pc EXCEPT ![p] = "init"]
      /\ team' = [w \in Roster |-> IF w \in Initial THEN Registered ELSE Nil] /\ files' = team'
      /\ UNCHANGED <<core, wave, panes, started, attempt, tree, lock, job, raced>>
  BY DEF InitRun, Goto, ledger, tmux
<1>2. Registered \in WorkerRecord /\ Registered.status = "registered" /\ Registered # Nil
  BY DEF Registered, WorkerRecord, ConstantsAssumption
<1>3. team' \in Copies /\ (GoodCopy(team) /\ GoodCopy(files))'
  BY <1>1, <1>2 DEF Copies, GoodCopy, ConstantsAssumption, Roster
<1>4. Kinds'
  BY <1>1, <1>3 DEF IInv, Kinds
<1>5. job[p] = NoJob
  BY <1>1, NobodyWorks
<1>6. OnlyMoves(p) /\ pc'[p] = "init" /\ job'[p] = NoJob
  BY <1>1, <1>5 DEF IInv, Kinds, OnlyMoves
<1>7. Place(pc[p], job[p], p)'
  BY <1>1, <1>6 DEF Place, HoldsLock, AfterOpen, NoJob, ConstantsAssumption
<1>8. Places' /\ OneInit'
  BY <1>1, <1>6, <1>7, OthersStay
<1>9. Shared'
  BY <1>1, <1>3 DEF IInv, Shared, ConstantsAssumption, Roster
<1> QED BY <1>1, <1>4, <1>8, <1>9 DEF IInv, Registrations

LEMMA InitRegistersKept ==
  ASSUME ConstantsAssumption, IInv, NEW p \in Procs, InitRegisters(p) PROVE IInv'
<1>1. /\ pc[p] = "init" /\ run' = "ready" /\ pc' = [pc EXCEPT ![p] = "idle"]
      /\ core' = [w \in Roster |-> IF w \in Initial THEN "registered" ELSE core[w]]
      /\ UNCHANGED <<team, files, raced, wave, panes, started, attempt, tree, lock, job>>
  BY DEF InitRegisters, Goto, SetCore, records, tmux
<1>2. run = "writing" /\ job[p] = NoJob
  BY <1>1, Now DEF Place
<1>3. Kinds'
  BY <1>1 DEF IInv, Kinds
<1>4. OnlyMoves(p) /\ pc'[p] = "idle" /\ job'[p] = NoJob
  BY <1>1, <1>2 DEF IInv, Kinds, OnlyMoves
<1>5. Place(pc[p], job[p], p)'
  BY <1>4, AtRest DEF Place, HoldsLock, AfterOpen, NoJob, ConstantsAssumption
<1>6. Places' /\ OneInit'
  BY <1>1, <1>2, <1>4, <1>5, OthersStay
<1>7. wave # "active" \/ WaveWorkers = {}
  BY <1>2 DEF IInv, Shared, ConstantsAssumption, Roster
<1>8. Shared'
  BY <1>1, <1>2, <1>7 DEF IInv, Shared, GoodCopy
<1>9. \A q \in Procs : job'[q] = NoJob /\ pc'[q] \in {"idle", "init"}
  BY <1>2, <1>4, NobodyWorks DEF OnlyMoves
<1>10. \A w \in Initial : files'[w] # Nil /\ core'[w] # "none"
  BY <1>1, <1>8 DEF Shared, GoodCopy, Roster
<1>11. \A w \in Roster : team[w] # Nil => w \in Initial
  BY <1>2 DEF IInv, Shared, Roster
<1>12. Registrations'
  BY <1>1, <1>9, <1>10, <1>11 DEF Registrations, Copied, IsAdding, NoJob, ConstantsAssumption
<1> QED BY <1>3, <1>6, <1>8, <1>12 DEF IInv

LEMMA InitFailsKept ==
  ASSUME ConstantsAssumption, IInv, NEW p \in Procs, InitFails(p) PROVE IInv'
<1>1. /\ pc[p] = "init" /\ run' = "absent" /\ pc' = [pc EXCEPT ![p] = "idle"]
      /\ team' = [w \in Roster |-> Nil] /\ files' = team'
      /\ UNCHANGED <<core, wave, panes, started, attempt, tree, lock, job, raced>>
  BY DEF InitFails, Goto, ledger, tmux
<1>2. run = "writing" /\ job[p] = NoJob
  BY <1>1, Now DEF Place
<1>3. Kinds'
  BY <1>1 DEF IInv, Kinds, Copies
<1>4. OnlyMoves(p) /\ pc'[p] = "idle" /\ job'[p] = NoJob
  BY <1>1, <1>2 DEF IInv, Kinds, OnlyMoves
<1>5. Place(pc[p], job[p], p)'
  BY <1>4, AtRest DEF Place, HoldsLock, AfterOpen, NoJob, ConstantsAssumption
<1>6. Places' /\ OneInit'
  BY <1>1, <1>2, <1>4, <1>5, OthersStay
<1>7. Shared'
  BY <1>1, <1>2 DEF IInv, Shared
<1> QED BY <1>1, <1>3, <1>6, <1>7 DEF IInv, Registrations

LEMMA DieKept == ASSUME ConstantsAssumption, IInv, NEW p \in Procs, Die(p) PROVE IInv'
<1>1. /\ run' = (IF pc[p] = "init" THEN "torn" ELSE run) /\ End(p)
      /\ UNCHANGED <<team, files, raced, core, wave, panes, started, attempt, tree>>
  BY DEF Die, records, ledger, tmux
<1>2. CASE pc[p] # "init"
  BY <1>1, <1>2, EndingQuiet DEF IInv, Kinds
<1>3. CASE pc[p] = "init"
  <2>1. run = "writing" /\ run' = "torn"
    BY <1>1, <1>3, Now DEF Place
  <2>2. OnlyMoves(p) /\ LockMoves(p) /\ pc'[p] = "idle" /\ job'[p] = NoJob
    BY <1>1, Ending DEF IInv
  <2>3. Kinds'
    BY <1>1, <2>1, <2>2 DEF IInv, Kinds, OnlyMoves, LockMoves
  <2>4. Place(pc[p], job[p], p)'
    BY <2>2, AtRest DEF Place, HoldsLock, AfterOpen, NoJob, ConstantsAssumption
  <2>5. Places' /\ OneInit'
    BY <1>1, <1>3, <2>1, <2>2, <2>4, OthersStay DEF LockMoves
  <2>6. Shared'
    BY <1>1, <2>1 DEF IInv, Shared, GoodCopy
  <2> QED BY <2>1, <2>3, <2>5, <2>6 DEF IInv, Registrations
<1> QED BY <1>2, <1>3

\* A new job at its first place.
LEMMA Beginning ==
  ASSUME Kinds, NEW p \in Procs, NEW l, NEW j \in Jobs, Begin(p, l, j)
  PROVE  OnlyMoves(p) /\ pc'[p] = l /\ job'[p] = j
BY DEF Kinds, Begin, Goto, OnlyMoves

LEMMA NewJobs ==
  ASSUME NEW w \in Roster, NEW ws \in SUBSET Roster, NEW f \in Copies
  PROVE  /\ NoJob \in Jobs
         /\ [NoJob EXCEPT !.worker = w, !.copy = f] \in Jobs
         /\ [NoJob EXCEPT !.who = ws] \in Jobs
         /\ [NoJob EXCEPT !.worker = w] \in Jobs
         /\ [NoJob EXCEPT !.who = ws, !.ret = "attempt"] \in Jobs
BY DEF NoJob, Jobs, Isos

LEMMA AddLoadsKept ==
  ASSUME ConstantsAssumption, IInv, NEW p \in Procs, NEW w \in Roster, AddLoads(p, w) PROVE IInv'
<1> DEFINE j == [NoJob EXCEPT !.worker = w, !.copy = team]
<1>1. /\ pc[p] = "idle" /\ run \in {"ready", "torn"} /\ w \in Added /\ Begin(p, "addFiles", j)
      /\ UNCHANGED <<run, team, files, core, wave, started, raced, tree, panes, lock>>
  BY DEF AddLoads, Usable, records, ledger, tmux
<1>2. j \in Jobs /\ j.worker = w /\ j.copy = team /\ team \in Copies
  BY NewJobs DEF IInv, Kinds, NoJob
<1>3. OnlyMoves(p) /\ pc'[p] = "addFiles" /\ job'[p] = j
  BY <1>1, <1>2, Beginning DEF IInv
<1>4. GoodCopy(team)'
  BY <1>1 DEF IInv, Shared, GoodCopy
<1> HIDE DEF j
<1>5. Place(pc[p], job[p], p)'
  BY <1>1, <1>2, <1>3, <1>4 DEF Place, HoldsLock, AfterOpen, GoodCopy
<1> QED BY <1>1, <1>2, <1>3, <1>5, Quiet DEF IInv, Kinds, LockMoves

LEMMA PrepareKept ==
  ASSUME ConstantsAssumption, IInv, NEW p \in Procs, NEW ws \in SUBSET Roster, Prepare(p, ws)
  PROVE  IInv'
<1> DEFINE j == [NoJob EXCEPT !.who = ws \cap Writers]
<1>1. /\ pc[p] = "idle" /\ run \in {"ready", "torn"} /\ Begin(p, "ensure", j)
      /\ UNCHANGED <<run, team, files, core, wave, started, raced, tree, panes, lock>>
  BY DEF Prepare, Usable, records, ledger, tmux
<1>2. j \in Jobs /\ j.copy = Nil /\ j.ret = "idle"
  BY DEF NoJob, Jobs, Isos
<1>3. OnlyMoves(p) /\ pc'[p] = "ensure" /\ job'[p] = j
  BY <1>1, <1>2, Beginning DEF IInv
<1> HIDE DEF j
<1>5. Place(pc[p], job[p], p)'
  BY <1>1, <1>2, <1>3 DEF Place, HoldsLock, AfterOpen, ConstantsAssumption
<1> QED BY <1>1, <1>2, <1>3, <1>5, Quiet DEF IInv, Kinds, LockMoves

LEMMA LaunchWaveKept ==
  ASSUME ConstantsAssumption, IInv, NEW p \in Procs, NEW isolate \in BOOLEAN, LaunchWave(p, isolate)
  PROVE  IInv'
<1> PICK ws \in SUBSET Roster : ws = IF isolate THEN WaveWorkers \cap Writers ELSE {}
  BY DEF ConstantsAssumption, Roster
<1> DEFINE j == [NoJob EXCEPT !.who = ws, !.ret = "attempt"]
<1>1. /\ pc[p] = "idle" /\ run \in {"ready", "torn"} /\ lock = Nil /\ lock' = p /\ Begin(p, "ensure", j)
      /\ UNCHANGED <<run, team, files, core, wave, started, raced, tree, panes>>
  BY DEF LaunchWave, Usable, records, ledger, tmux
<1>2. j \in Jobs /\ j.copy = Nil /\ j.ret = "attempt"
  BY DEF NoJob, Jobs, Isos
<1>3. OnlyMoves(p) /\ pc'[p] = "ensure" /\ job'[p] = j
  BY <1>1, <1>2, Beginning DEF IInv
<1> HIDE DEF j
<1>5. Place(pc[p], job[p], p)'
  BY <1>1, <1>2, <1>3 DEF Place, HoldsLock, AfterOpen, ConstantsAssumption
<1> QED BY <1>1, <1>2, <1>3, <1>5, Quiet DEF IInv, Kinds, LockMoves

\* A process that goes on to another place with the job it has.
LEMMA Going ==
  ASSUME Kinds, NEW p \in Procs, NEW l, Goto(p, l), UNCHANGED job
  PROVE  OnlyMoves(p) /\ pc'[p] = l /\ job'[p] = job[p]
BY DEF Kinds, Goto, OnlyMoves

LEMMA AddFilesKept == ASSUME ConstantsAssumption, IInv, NEW p \in Procs, AddFiles(p) PROVE IInv'
<1> DEFINE w == job[p].worker
<1>1. pc[p] = "addFiles" /\ UNCHANGED <<run, team, core, wave, panes, started, attempt, tree>>
  BY DEF AddFiles, ledger, tmux
<1>2. w \in Added /\ w \in Roster /\ job[p].copy \in Copies /\ GoodCopy(job[p].copy) /\ run \in {"ready", "torn"}
  BY <1>1, Now DEF Place, Roster
<1>3. CASE files[w] = Nil
  <2>1. files' = [files EXCEPT ![w] = Registered] /\ Goto(p, "addRegister") /\ UNCHANGED <<job, lock, raced>>
    BY <1>3 DEF AddFiles
  <2>2. Registered \in WorkerRecord /\ Registered # Nil
    BY DEF Registered, WorkerRecord, ConstantsAssumption
  <2>3. OnlyMoves(p) /\ pc'[p] = "addRegister" /\ job'[p] = job[p]
    BY <2>1, Going DEF IInv
  <2>4. Kinds'
    BY <1>1, <1>2, <2>1, <2>2, <2>3 DEF IInv, Kinds, OnlyMoves, Copies
  <2>5. Place(pc[p], job[p], p)'
    BY <1>1, <1>2, <2>1, <2>3 DEF Place, HoldsLock, AfterOpen, GoodCopy
  <2>6. Places' /\ OneInit'
    BY <1>1, <2>1, <2>3, <2>5, OthersStay
  <2>7. files' \in Copies /\ files'[w] # Nil /\ \A v \in Roster : v # w => files'[v] = files[v]
    BY <1>2, <2>1, <2>2, <2>4 DEF IInv, Kinds, Copies
  <2>8. Shared'
    BY <1>1, <1>2, <2>7 DEF IInv, Shared, GoodCopy, ConstantsAssumption, Roster
  <2>9. \A v \in Roster : Copied(v)' = Copied(v)
    BY <1>1, <2>1 DEF Copied
  <2>10. Registrations'
    <3> SUFFICES ASSUME run = "ready", ~raced PROVE Registrations'
      BY <1>1, <2>1 DEF Registrations
    <3>1. ~Copied(w) /\ \A q \in Procs : ~IsAdding(q, w)
      BY <1>2, <1>3 DEF IInv, Registrations
    <3>2. \A q \in Procs, v \in Roster : q # p => IsAdding(q, v)' = IsAdding(q, v)
      BY <2>3 DEF OnlyMoves, IsAdding
    <3>3. \A v \in Roster : IsAdding(p, v)' => v = w
      BY <2>3 DEF IsAdding
    <3>4. \A v \in Roster : Copied(v)' => files'[v] # Nil /\ core'[v] # "none"
      BY <1>1, <2>7, <2>9 DEF IInv, Registrations
    <3>5. ASSUME NEW q \in Procs, NEW v \in Roster, IsAdding(q, v)'
          PROVE  /\ files'[v] # Nil /\ ~Copied(v)'
                 /\ pc'[q] = "addSave" => core'[v] # "none"
                 /\ \A o \in Procs : IsAdding(o, v)' => o = q
      <4>1. CASE q = p
        BY <2>3, <2>7, <2>9, <3>1, <3>2, <3>3, <3>5, <4>1
      <4>2. CASE q # p
        <5>1. IsAdding(q, v) /\ v # w
          BY <3>1, <3>2, <3>5, <4>2
        <5> QED BY <1>1, <2>3, <2>7, <2>9, <3>2, <3>3, <4>2, <5>1 DEF IInv, Registrations, OnlyMoves
      <4> QED BY <4>1, <4>2
    <3> QED BY <3>4, <3>5 DEF Registrations
  <2> QED BY <2>4, <2>6, <2>8, <2>10 DEF IInv
<1>4. CASE files[w] # Nil
  <2>1. files' = [files EXCEPT ![w] = Nil] /\ raced' = TRUE /\ End(p)
    BY <1>4 DEF AddFiles, RemoveFiles
  <2>2. OnlyMoves(p) /\ LockMoves(p) /\ pc'[p] = "idle" /\ job'[p] = NoJob
    BY <2>1, Ending DEF IInv
  <2>3. Kinds'
    BY <1>1, <2>1, <2>2 DEF IInv, Kinds, OnlyMoves, LockMoves, Copies
  <2>4. Place(pc[p], job[p], p)'
    BY <2>2, AtRest DEF Place, HoldsLock, AfterOpen, NoJob, ConstantsAssumption
  <2>5. Places' /\ OneInit'
    BY <1>1, <2>2, <2>4, OthersStay DEF LockMoves
  <2>6. \A v \in Roster : v # w => files'[v] = files[v]
    BY <2>1 DEF IInv, Kinds, Copies
  <2>7. Shared'
    BY <1>1, <1>2, <2>6 DEF IInv, Shared, GoodCopy, ConstantsAssumption, Roster
  <2> QED BY <2>1, <2>3, <2>5, <2>7 DEF IInv, Registrations
<1> QED BY <1>3, <1>4

\* The files of a worker that is being added are removed: no copy of team.json has it.
LEMMA FilesRemoved ==
  ASSUME ConstantsAssumption, IInv, NEW p \in Procs, pc[p] \in {"addRegister", "addSave"},
         End(p), RemoveFiles(job[p].worker), NEW gone \in {{}, {job[p].worker}},
         core' = [w \in Roster |-> IF w \in gone THEN "none" ELSE core[w]],
         \A w \in gone : core[w] = "registered",
         UNCHANGED <<run, team, raced, wave, panes, started, attempt, tree>>
  PROVE  IInv'
<1> DEFINE w == job[p].worker
<1>1. w \in Added /\ w \in Roster /\ w \notin Initial /\ w \notin WaveWorkers /\ run \in {"ready", "torn"}
  BY Now DEF Place, Roster, ConstantsAssumption
<1>2. OnlyMoves(p) /\ LockMoves(p) /\ pc'[p] = "idle" /\ job'[p] = NoJob
  BY Ending DEF IInv
<1>3. files' = [files EXCEPT ![w] = Nil]
  BY DEF RemoveFiles
<1>4. /\ files' \in Copies /\ \A v \in Roster : v # w => files'[v] = files[v]
      /\ core' \in [Roster -> {"none", "registered", "launched"} \cup Terminal]
      /\ \A v \in Roster : v # w => core'[v] = core[v]
  BY <1>1, <1>3 DEF IInv, Kinds, Copies
<1>5. Kinds'
  BY <1>2, <1>4 DEF IInv, Kinds, OnlyMoves, LockMoves
<1>6. Place(pc[p], job[p], p)'
  BY <1>2, AtRest DEF Place, HoldsLock, AfterOpen, NoJob, ConstantsAssumption
<1>7. Places' /\ OneInit'
  BY <1>2, <1>6, OthersStay DEF LockMoves
<1>8. Shared'
  BY <1>1, <1>4 DEF IInv, Shared, GoodCopy, ConstantsAssumption, Roster
<1>9. Registrations'
  <2> SUFFICES ASSUME run = "ready", ~raced PROVE Registrations'
    BY DEF Registrations
  <2>1. IsAdding(p, w)
    BY DEF IsAdding
  <2>2. ~Copied(w) /\ \A q \in Procs : IsAdding(q, w) => q = p
    BY <1>1, <2>1 DEF IInv, Registrations
  <2>3. \A v \in Roster : Copied(v)' => Copied(v)
    BY <1>2 DEF Copied, OnlyMoves, NoJob, ConstantsAssumption
  <2>4. \A q \in Procs, v \in Roster : IsAdding(q, v)' => IsAdding(q, v) /\ q # p /\ pc'[q] = pc[q]
    BY <1>2 DEF OnlyMoves, IsAdding
  <2>5. \A v \in Roster : Copied(v)' => files'[v] # Nil /\ core'[v] # "none"
    BY <1>4, <2>2, <2>3 DEF IInv, Registrations
  <2>6. ASSUME NEW q \in Procs, NEW v \in Roster, IsAdding(q, v)'
        PROVE  /\ files'[v] # Nil /\ ~Copied(v)'
               /\ pc'[q] = "addSave" => core'[v] # "none"
               /\ \A o \in Procs : IsAdding(o, v)' => o = q
    <3>1. IsAdding(q, v) /\ v # w /\ pc'[q] = pc[q]
      BY <2>2, <2>4, <2>6
    <3> QED BY <1>4, <2>3, <2>4, <3>1 DEF IInv, Registrations
  <2> QED BY <2>5, <2>6 DEF Registrations
<1> QED BY <1>5, <1>7, <1>8, <1>9 DEF IInv

LEMMA AddRegistersKept ==
  ASSUME ConstantsAssumption, IInv, NEW p \in Procs, AddRegisters(p) PROVE IInv'
<1> DEFINE w == job[p].worker
<1>1. pc[p] = "addRegister" /\ UNCHANGED <<run, team, raced, wave, panes, started, attempt, tree>>
  BY DEF AddRegisters, tmux
<1>2. w \in Added /\ w \in Roster /\ w \notin Initial /\ w \notin WaveWorkers
      /\ job[p].copy \in Copies /\ GoodCopy(job[p].copy) /\ run \in {"ready", "torn"}
  BY <1>1, Now DEF Place, Roster, ConstantsAssumption
<1>3. CASE core[w] = "none" /\ SetCore({w}, "registered") /\ Goto(p, "addSave") /\ UNCHANGED <<files, job, lock>>
  <2>1. OnlyMoves(p) /\ pc'[p] = "addSave" /\ job'[p] = job[p]
    BY <1>3, Going DEF IInv
  <2>2. /\ core' \in [Roster -> {"none", "registered", "launched"} \cup Terminal]
        /\ core'[w] = "registered" /\ \A v \in Roster : v # w => core'[v] = core[v]
    BY <1>2, <1>3 DEF IInv, Kinds, SetCore
  <2>3. Kinds'
    BY <1>1, <1>3, <2>1, <2>2 DEF IInv, Kinds, OnlyMoves
  <2>4. Place(pc[p], job[p], p)'
    BY <1>1, <1>2, <1>3, <2>1 DEF Place, HoldsLock, AfterOpen, GoodCopy
  <2>5. Places' /\ OneInit'
    BY <1>1, <1>3, <2>1, <2>4, OthersStay
  <2>6. Shared'
    BY <1>1, <1>2, <1>3, <2>2 DEF IInv, Shared, GoodCopy, ConstantsAssumption, Roster
  <2>7. \A v \in Roster : Copied(v)' = Copied(v)
    BY <1>1, <1>3 DEF Copied
  <2>8. \A q \in Procs, v \in Roster : IsAdding(q, v)' = IsAdding(q, v)
    BY <1>1, <1>3, <2>1 DEF IsAdding, OnlyMoves
  <2>9. \A v \in Roster : core[v] # "none" => core'[v] # "none"
    BY <2>2
  <2>10. \A q \in Procs, v \in Roster :
           IsAdding(q, v) /\ pc'[q] = "addSave" => core'[v] # "none" \/ pc[q] = "addSave"
    BY <2>1, <2>2 DEF IsAdding, OnlyMoves
  <2>11. Registrations'
    BY <1>1, <1>3, <2>7, <2>8, <2>9, <2>10 DEF IInv, Registrations
  <2> QED BY <2>3, <2>5, <2>6, <2>11 DEF IInv
<1>4. CASE RemoveFiles(w) /\ End(p) /\ UNCHANGED core
  <2>1. core' = [v \in Roster |-> IF v \in {} THEN "none" ELSE core[v]]
    BY <1>4 DEF IInv, Kinds
  <2> QED BY <1>1, <1>4, <2>1, FilesRemoved
<1> QED BY <1>3, <1>4 DEF AddRegisters

LEMMA AddSaveFailsKept ==
  ASSUME ConstantsAssumption, IInv, NEW p \in Procs, AddSaveFails(p) PROVE IInv'
<1> DEFINE w == job[p].worker
<1>1. pc[p] = "addSave" /\ UNCHANGED <<run, team, raced, wave, panes, started, attempt, tree>>
      /\ RemoveFiles(w) /\ End(p)
  BY DEF AddSaveFails, tmux
<1>2. PICK gone \in {{}, {w}} : gone = {w} \cap {v \in Roster : core[v] = "registered"}
  OBVIOUS
<1>3. core' = [v \in Roster |-> IF v \in gone THEN "none" ELSE core[v]] /\ \A v \in gone : core[v] = "registered"
  BY <1>2 DEF AddSaveFails, SetCore
<1> QED BY <1>1, <1>3, FilesRemoved

LEMMA AddSavesKept == ASSUME ConstantsAssumption, IInv, NEW p \in Procs, AddSaves(p) PROVE IInv'
<1> DEFINE w == job[p].worker
           f == job[p].copy
<1>1. /\ pc[p] = "addSave" /\ team' = [f EXCEPT ![w] = Registered] /\ End(p)
      /\ UNCHANGED <<run, files, raced, core, wave, panes, started, attempt, tree>>
  BY DEF AddSaves, tmux, ledger
<1>2. w \in Added /\ w \in Roster /\ w \notin Initial /\ w \notin WaveWorkers
      /\ f \in Copies /\ GoodCopy(f) /\ run \in {"ready", "torn"}
  BY <1>1, Now DEF Place, Roster, ConstantsAssumption
<1>3. Registered \in WorkerRecord
  BY DEF Registered, WorkerRecord
<1>4. team' \in Copies /\ \A v \in Roster : v # w => team'[v] = f[v]
  BY <1>1, <1>2, <1>3 DEF Copies
<1>5. OnlyMoves(p) /\ LockMoves(p) /\ pc'[p] = "idle" /\ job'[p] = NoJob
  BY <1>1, Ending DEF IInv
<1>6. Kinds'
  BY <1>1, <1>4, <1>5 DEF IInv, Kinds, OnlyMoves, LockMoves
<1>7. Place(pc[p], job[p], p)'
  BY <1>5, AtRest DEF Place, HoldsLock, AfterOpen, NoJob, ConstantsAssumption
<1>8. Places' /\ OneInit'
  BY <1>1, <1>5, <1>7, OthersStay DEF LockMoves
<1>9. Shared'
  BY <1>1, <1>2, <1>4 DEF IInv, Shared, GoodCopy, ConstantsAssumption, Roster
<1>10. Registrations'
  <2> SUFFICES ASSUME run = "ready", ~raced PROVE Registrations'
    BY <1>1 DEF Registrations
  <2>1. IsAdding(p, w)
    BY <1>1 DEF IsAdding
  <2>2. files[w] # Nil /\ core[w] # "none" /\ \A q \in Procs : IsAdding(q, w) => q = p
    BY <1>1, <1>2, <2>1 DEF IInv, Registrations
  <2>3. \A v \in Roster : Copied(v)' => Copied(v) \/ v = w
    BY <1>2, <1>4, <1>5 DEF Copied, OnlyMoves, NoJob, ConstantsAssumption
  <2>4. \A q \in Procs, v \in Roster : IsAdding(q, v)' => IsAdding(q, v) /\ q # p /\ pc'[q] = pc[q]
    BY <1>5 DEF OnlyMoves, IsAdding
  <2>5. \A v \in Roster : Copied(v)' => files'[v] # Nil /\ core'[v] # "none"
    BY <1>1, <2>2, <2>3 DEF IInv, Registrations
  <2>6. ASSUME NEW q \in Procs, NEW v \in Roster, IsAdding(q, v)'
        PROVE  /\ files'[v] # Nil /\ ~Copied(v)'
               /\ pc'[q] = "addSave" => core'[v] # "none"
               /\ \A o \in Procs : IsAdding(o, v)' => o = q
    <3>1. IsAdding(q, v) /\ v # w /\ pc'[q] = pc[q]
      BY <2>2, <2>4, <2>6
    <3> QED BY <1>1, <2>3, <2>4, <3>1 DEF IInv, Registrations
  <2> QED BY <2>5, <2>6 DEF Registrations
<1> QED BY <1>6, <1>8, <1>9, <1>10 DEF IInv

LEMMA EnsureKept == ASSUME ConstantsAssumption, IInv, NEW p \in Procs, Ensure(p) PROVE IInv'
<1>1. pc[p] = "ensure" /\ UNCHANGED <<run, team, files, raced, core, wave, panes, started, attempt>>
  BY DEF Ensure, records, ledger, tmux
<1>2. /\ job[p] \in Jobs /\ Place(pc[p], job[p], p) /\ run \in {"ready", "torn"}
      /\ job[p].ret \in {"idle", "attempt"} /\ (job[p].ret = "attempt" => lock = p)
      /\ job[p].copy \in Copies => GoodCopy(job[p].copy)
  BY <1>1, Now DEF Place, HoldsLock
<1>3. CASE job[p].who = {}
  <2>1. UNCHANGED tree /\ (End(p) \/ (Goto(p, "attempt") /\ UNCHANGED <<job, lock>> /\ job[p].ret = "attempt"))
    BY <1>2, <1>3 DEF Ensure
  <2>2. CASE End(p)
    BY <1>1, <2>1, <2>2, EndingQuiet DEF IInv, Kinds
  <2>3. CASE Goto(p, "attempt") /\ UNCHANGED <<job, lock>> /\ job[p].ret = "attempt"
    <3>1. OnlyMoves(p) /\ pc'[p] = "attempt" /\ job'[p] = job[p]
      BY <2>3, Going DEF IInv
    <3>2. Place(pc[p], job[p], p)'
      BY <1>1, <1>2, <2>3, <3>1 DEF Place, HoldsLock, AfterOpen, GoodCopy
    <3> QED BY <1>1, <2>1, <2>3, <3>1, <3>2, Quiet DEF IInv, Kinds, LockMoves
  <2> QED BY <2>1, <2>2, <2>3
<1>4. CASE job[p].who # {}
  <2>1. PICK w \in job[p].who :
          /\ tree' = [tree EXCEPT ![w] = IF @ = "none" THEN "clean" ELSE @]
          /\ Update(p, w, "active", job[p].who \ {w}, job[p].ret) /\ UNCHANGED lock
    BY <1>4 DEF Ensure
  <2>2. w \in Roster /\ job[p].who \ {w} \in SUBSET Roster /\ "active" \in Isos
    BY <1>2 DEF Jobs, Isos
  <2>3. tree' \in [Roster -> {"none", "clean", "dirty"}]
    BY <2>1, <2>2 DEF IInv, Kinds
  <2> QED BY <1>1, <1>2, <2>1, <2>2, <2>3, UpdatingQuiet
<1> QED BY <1>3, <1>4

LEMMA IsoLoadsKept == ASSUME ConstantsAssumption, IInv, NEW p \in Procs, IsoLoads(p) PROVE IInv'
<1> DEFINE j == job[p]
           k == [j EXCEPT !.copy = team]
<1>1. pc[p] = "isoLoad" /\ UNCHANGED <<run, team, files, raced, core, wave, panes, started, attempt, tree>>
  BY DEF IsoLoads, records, ledger, tmux
<1>2. /\ j \in Jobs /\ Place("isoLoad", j, p) /\ team \in Copies
  BY <1>1, Now DEF IInv, Kinds
<1>3. CASE End(p)
  BY <1>1, <1>3, EndingQuiet DEF IInv, Kinds
<1>4. CASE team[j.worker] # Nil /\ Begin(p, "isoSave", k) /\ UNCHANGED lock
  <2>1. k \in Jobs /\ k.worker = j.worker /\ k.ret = j.ret /\ k.copy = team
    BY <1>2 DEF Jobs
  <2>2. OnlyMoves(p) /\ pc'[p] = "isoSave" /\ job'[p] = k
    <3> HIDE DEF k
    <3> QED BY <1>4, <2>1, Beginning DEF IInv
  <2>3. run \in {"ready", "torn"} /\ GoodCopy(team) /\ j.worker \in Roster /\ j.ret \in {"idle", "attempt"}
        /\ (j.ret = "attempt" => lock = p)
    BY <1>2 DEF IInv, Shared, Place, HoldsLock
  <2> HIDE DEF k, j
  <2>4. Place(pc[p], job[p], p)'
    BY <1>1, <1>2, <1>4, <2>1, <2>2, <2>3 DEF Place, HoldsLock, AfterOpen, GoodCopy
  <2> QED BY <1>1, <1>4, <2>1, <2>2, <2>4, Quiet DEF IInv, Kinds, LockMoves
<1> QED BY <1>3, <1>4 DEF IsoLoads

\* team.json is replaced by a copy of it whose members have all been members.
LEMMA CopySaved ==
  ASSUME ConstantsAssumption, IInv, NEW p \in Procs, OnlyMoves(p), LockMoves(p),
         run \in {"ready", "torn"}, UNCHANGED <<run, raced, core, wave, panes, started, tree>>,
         team' \in Copies, GoodCopy(team)', \A v \in Roster : team'[v] # Nil => Copied(v),
         files' \in Copies, GoodCopy(files)', \A v \in Roster : files[v] # Nil => files'[v] # Nil,
         Place(pc[p], job[p], p)', pc'[p] \notin {"init", "addRegister", "addSave"},
         job'[p].copy \in {job[p].copy, Nil}
  PROVE  IInv'
<1>1. Kinds'
  BY DEF IInv, Kinds, OnlyMoves, LockMoves
<1>2. Places' /\ OneInit'
  BY OthersStay DEF LockMoves
<1>3. Shared'
  BY DEF IInv, Shared
<1>4. \A w \in Roster : Copied(w)' => Copied(w)
  BY DEF Copied, OnlyMoves, ConstantsAssumption
<1>5. Registrations'
  BY <1>4, RegistrationsStay
<1> QED BY <1>1, <1>2, <1>3, <1>5 DEF IInv

LEMMA IsoSavesKept == ASSUME ConstantsAssumption, IInv, NEW p \in Procs, IsoSaves(p) PROVE IInv'
<1> DEFINE j == job[p]
           w == j.worker
           saved(f) == [f EXCEPT ![w] = [f[w] EXCEPT !.iso = j.iso]]
<1>1. pc[p] = "isoSave" /\ team' = saved(j.copy) /\ UNCHANGED <<run, raced, core, wave, panes, started, tree>>
  BY DEF IsoSaves, ledger, tmux
<1>2. /\ j \in Jobs /\ run \in {"ready", "torn"} /\ w \in Roster /\ j.copy \in Copies /\ GoodCopy(j.copy)
      /\ j.copy[w] # Nil /\ j.ret \in {"idle", "attempt"} /\ (j.ret = "attempt" => lock = p) /\ j.iso \in Isos
  BY <1>1, Now DEF Place, HoldsLock, Jobs
<1>3. ASSUME NEW f \in Copies, f[w] # Nil
      PROVE  /\ saved(f) \in Copies /\ \A v \in Roster : v # w => saved(f)[v] = f[v]
             /\ saved(f)[w] # Nil /\ saved(f)[w].status = f[w].status
  <2> DEFINE r == [f[w] EXCEPT !.iso = j.iso]
  <2>1. f[w] \in WorkerRecord
    BY <1>2, <1>3 DEF Copies
  <2>2. r \in WorkerRecord /\ r.status = f[w].status /\ r # Nil
    BY <1>2, <2>1 DEF WorkerRecord, Isos, ConstantsAssumption
  <2> DEFINE g == saved(f)
  <2>3. g = [f EXCEPT ![w] = r]
    OBVIOUS
  <2> HIDE DEF r, g
  <2>4. g \in Copies /\ g[w] = r /\ \A v \in Roster : v # w => g[v] = f[v]
    BY <1>2, <2>2, <2>3 DEF Copies
  <2> QED BY <2>2, <2>4 DEF g
<1>4. GoodCopy(files) /\ files \in Copies
  BY <1>2 DEF IInv, Kinds, Shared
<1>5. /\ team' \in Copies /\ GoodCopy(team)' /\ \A v \in Roster : team'[v] # Nil => Copied(v)
  <2> HIDE DEF saved, j
  <2> QED BY <1>1, <1>2, <1>3 DEF GoodCopy, Copied, j, ConstantsAssumption, Roster
<1>6. CASE files[w] = Nil
  <2>1. End(p) /\ UNCHANGED files
    BY <1>6 DEF IsoSaves
  <2>2. OnlyMoves(p) /\ LockMoves(p) /\ pc'[p] = "idle" /\ job'[p] = NoJob
    BY <2>1, Ending DEF IInv
  <2>3. Place(pc[p], job[p], p)'
    BY <2>2, AtRest DEF Place, HoldsLock, AfterOpen, NoJob, ConstantsAssumption
  <2>4. GoodCopy(files)'
    BY <1>1, <1>4, <2>1 DEF GoodCopy
  <2>5. NoJob.copy = Nil
    BY DEF NoJob
  <2> QED BY <1>1, <1>2, <1>4, <1>5, <2>1, <2>2, <2>3, <2>4, <2>5, CopySaved
<1>7. CASE files[w] # Nil
  <2>1. files' = saved(files) /\ (End(p) \/ (Goto(p, "ensure") /\ UNCHANGED <<job, lock>>))
    BY <1>7 DEF IsoSaves
  <2>2. /\ files' \in Copies /\ GoodCopy(files)' /\ \A v \in Roster : files[v] # Nil => files'[v] # Nil
    <3> HIDE DEF saved, j
    <3> QED BY <1>1, <1>3, <1>4, <1>7, <2>1 DEF GoodCopy, ConstantsAssumption, Roster
  <2>3. CASE End(p)
    <3>2. OnlyMoves(p) /\ LockMoves(p) /\ pc'[p] = "idle" /\ job'[p] = NoJob
      BY <2>3, Ending DEF IInv
    <3>3. Place(pc[p], job[p], p)'
      BY <3>2, AtRest DEF Place, HoldsLock, AfterOpen, NoJob, ConstantsAssumption
    <3>5. NoJob.copy = Nil
      BY DEF NoJob
    <3> QED BY <1>1, <1>2, <1>5, <2>2, <3>2, <3>3, <3>5, CopySaved
  <2>4. CASE Goto(p, "ensure") /\ UNCHANGED <<job, lock>>
    <3>1. OnlyMoves(p) /\ pc'[p] = "ensure" /\ job'[p] = job[p]
      BY <2>4, Going DEF IInv
    <3>2. Place(pc[p], job[p], p)'
      BY <1>1, <1>2, <2>4, <3>1 DEF Place, HoldsLock, AfterOpen, GoodCopy
    <3> QED BY <1>1, <1>2, <1>5, <2>2, <2>4, <3>1, <3>2, CopySaved DEF LockMoves
  <2> QED BY <2>1, <2>3, <2>4
<1> QED BY <1>6, <1>7

LEMMA CleanupLooksKept ==
  ASSUME ConstantsAssumption, IInv, NEW p \in Procs, NEW w \in Roster, CleanupLooks(p, w) PROVE IInv'
<1>1. /\ pc[p] = "idle" /\ run \in {"ready", "torn"}
      /\ UNCHANGED <<run, team, files, raced, core, wave, panes, started, attempt, tree, lock>>
  BY DEF CleanupLooks, Usable, records, ledger, tmux
<1>2. CASE \E iso \in {"preserved", "removed", "failed"} : Update(p, w, iso, {}, "idle")
  BY <1>1, <1>2, UpdatingQuiet DEF Isos, IInv, Kinds
<1>3. CASE Begin(p, "remove", [NoJob EXCEPT !.worker = w])
  <2> DEFINE j == [NoJob EXCEPT !.worker = w]
  <2>1. j \in Jobs /\ j.copy = Nil /\ j.worker = w
    BY DEF NoJob, Jobs, Isos
  <2>2. OnlyMoves(p) /\ pc'[p] = "remove" /\ job'[p] = j
    BY <1>3, <2>1, Beginning DEF IInv
  <2> HIDE DEF j
  <2>3. Place(pc[p], job[p], p)'
    BY <1>1, <2>1, <2>2 DEF Place, HoldsLock, AfterOpen, ConstantsAssumption
  <2> QED BY <1>1, <2>1, <2>2, <2>3, Quiet DEF IInv, Kinds, LockMoves
<1> QED BY <1>2, <1>3 DEF CleanupLooks

LEMMA CleanupRemovesKept ==
  ASSUME ConstantsAssumption, IInv, NEW p \in Procs, CleanupRemoves(p) PROVE IInv'
<1> DEFINE w == job[p].worker
<1>1. /\ pc[p] = "remove"
      /\ UNCHANGED <<run, team, files, raced, core, wave, panes, started, attempt, lock>>
  BY DEF CleanupRemoves, records, ledger, tmux
<1>2. w \in Roster /\ run \in {"ready", "torn"}
  BY <1>1, Now DEF Place
<1>3. tree' \in [Roster -> {"none", "clean", "dirty"}]
  BY <1>2 DEF CleanupRemoves, IInv, Kinds
<1>4. Update(p, w, "removed", {}, "idle") \/ Update(p, w, "failed", {}, "idle")
  BY DEF CleanupRemoves
<1> QED BY <1>1, <1>2, <1>3, <1>4, UpdatingQuiet DEF Isos

LEMMA AttemptsKept == ASSUME ConstantsAssumption, IInv, NEW p \in Procs, Attempts(p) PROVE IInv'
<1>1. pc[p] = "attempt" /\ UNCHANGED <<run, team, files, raced, core, wave, panes, started, tree>>
  BY DEF Attempts, records, ledger
<1>2. CASE End(p)
  BY <1>1, <1>2, EndingQuiet DEF IInv, Kinds
<1>3. CASE Goto(p, "open") /\ UNCHANGED <<job, lock>>
  <2>1. OnlyMoves(p) /\ pc'[p] = "open" /\ job'[p] = job[p]
    BY <1>3, Going DEF IInv
  <2>2. Place(pc[p], job[p], p)'
    BY <1>1, <1>3, <2>1, Now DEF Place, HoldsLock, AfterOpen, GoodCopy
  <2> QED BY <1>1, <1>3, <2>1, <2>2, Quiet DEF IInv, Kinds, LockMoves
<1> QED BY <1>2, <1>3 DEF Attempts

LEMMA OpensKept == ASSUME ConstantsAssumption, IInv, NEW p \in Procs, Opens(p) PROVE IInv'
<1> DEFINE j == job[p]
           k == [j EXCEPT !.who = WaveWorkers]
<1>1. pc[p] = "open" /\ UNCHANGED <<run, team, files, raced, panes, started, tree>>
  BY DEF Opens, records
<1>2. j \in Jobs /\ Place("open", j, p)
  BY <1>1, Now
<1>3. CASE CanOpen
  <2>1. /\ wave = "pending" /\ wave' = "active" /\ SetCore(WaveWorkers, "launched") /\ Begin(p, "tmux", k)
        /\ UNCHANGED lock /\ \A w \in WaveWorkers : core[w] = "registered"
    BY <1>3 DEF Opens, CanOpen
  <2>2. k \in Jobs /\ k.copy = j.copy /\ k.who = WaveWorkers
    BY <1>2 DEF Jobs, Roster, ConstantsAssumption
  <2>3. OnlyMoves(p) /\ pc'[p] = "tmux" /\ job'[p] = k
    <3> HIDE DEF k
    <3> QED BY <2>1, <2>2, Beginning DEF IInv
  <2>4. /\ core' \in [Roster -> {"none", "registered", "launched"} \cup Terminal]
        /\ \A w \in WaveWorkers : core'[w] = "launched"
        /\ \A w \in Roster \ WaveWorkers : core'[w] = core[w]
    BY <2>1 DEF IInv, Kinds, SetCore, Roster, ConstantsAssumption
  <2>5. lock = p /\ run \in {"ready", "torn"} /\ (j.copy \in Copies => GoodCopy(j.copy))
    BY <1>2 DEF Place, HoldsLock
  <2> HIDE DEF j, k
  <2>6. \A w \in WaveWorkers : started'[w] = 0
    BY <1>1, <2>1 DEF IInv, Shared
  <2>7. Place(pc[p], job[p], p)'
    BY <1>1, <2>1, <2>2, <2>3, <2>5, <2>6 DEF Place, HoldsLock, AfterOpen, GoodCopy
  <2>8. Kinds'
    BY <1>1, <2>1, <2>3, <2>4 DEF IInv, Kinds, OnlyMoves
  <2>9. Places' /\ OneInit'
    BY <1>1, <2>1, <2>3, <2>7, OthersStay
  <2>10. Shared'
    BY <1>1, <2>1, <2>4, <2>5, <2>6 DEF IInv, Shared, GoodCopy
  <2>11. \A w \in Roster : Copied(w)' => Copied(w)
    BY <1>1, <2>2, <2>3 DEF Copied, OnlyMoves, j
  <2>12. \A w \in Roster : core[w] # "none" => core'[w] # "none"
    BY <2>1, <2>4
  <2>13. Registrations'
    BY <1>1, <2>3, <2>11, <2>12, RegistrationsStay
  <2> QED BY <2>8, <2>9, <2>10, <2>13 DEF IInv
<1>4. CASE ~CanOpen
  BY <1>1, <1>4, EndingQuiet DEF Opens, IInv, Kinds, ledger
<1> QED BY <1>3, <1>4

LEMMA PaneStartsKept == ASSUME ConstantsAssumption, IInv, NEW p \in Procs, PaneStarts(p) PROVE IInv'
<1> DEFINE j == job[p]
<1>1. pc[p] = "tmux" /\ UNCHANGED <<run, team, files, raced, core, wave, tree, lock>>
  BY DEF PaneStarts, records, ledger
<1>2. j \in Jobs /\ Place("tmux", j, p)
  BY <1>1, Now
<1>3. PICK w \in j.who :
        /\ panes' = panes \cup {<<p, w>>} /\ started' = [started EXCEPT ![w] = @ + 1]
        /\ Begin(p, IF j.who \ {w} = {} THEN "statuses" ELSE "tmux",
                 [j EXCEPT !.who = j.who \ {w}, !.mark = [v \in WaveWorkers |-> "launched"]])
  BY DEF PaneStarts
<1> DEFINE m == [v \in WaveWorkers |-> "launched"]
           k == [j EXCEPT !.who = j.who \ {w}, !.mark = m]
<1>4. m \in Marks
  BY DEF Marks
<1>5. k \in Jobs /\ k.copy = j.copy /\ k.who = j.who \ {w} /\ k.mark \in Marks
  <2> HIDE DEF m
  <2> QED BY <1>2, <1>4 DEF Jobs
<1>6. OnlyMoves(p) /\ pc'[p] \in {"statuses", "tmux"} /\ job'[p] = k
  <2> PICK l \in {"statuses", "tmux"} : l = IF j.who \ {w} = {} THEN "statuses" ELSE "tmux"
    OBVIOUS
  <2>1. Begin(p, l, k)
    BY <1>3
  <2> HIDE DEF k
  <2> QED BY <1>5, <2>1, Beginning DEF IInv
<1>7. /\ lock = p /\ run \in {"ready", "torn"} /\ (j.copy \in Copies => GoodCopy(j.copy)) /\ wave = "active"
      /\ j.who \subseteq WaveWorkers /\ \A v \in j.who : started[v] = 0
  BY <1>2 DEF Place, HoldsLock, AfterOpen
<1> HIDE DEF j, k, m
<1>8. w \in WaveWorkers /\ w \in Roster /\ started[w] = 0
  BY <1>7 DEF ConstantsAssumption, Roster
<1>9. /\ started' \in [Roster -> Nat] /\ started'[w] = 1
      /\ \A v \in Roster : v # w => started'[v] = started[v]
  BY <1>3, <1>8 DEF IInv, Kinds
<1>10. Place(pc[p], job[p], p)'
  BY <1>1, <1>5, <1>6, <1>7, <1>9 DEF Place, HoldsLock, AfterOpen, GoodCopy, ConstantsAssumption, Roster
<1>11. Kinds'
  BY <1>1, <1>3, <1>6, <1>8, <1>9 DEF IInv, Kinds, OnlyMoves
<1>12. Places' /\ OneInit'
  BY <1>1, <1>6, <1>7, <1>10, OthersStay
<1>13. Shared'
  BY <1>1, <1>7, <1>8, <1>9 DEF IInv, Shared, GoodCopy, ConstantsAssumption, Roster
<1>14. \A v \in Roster : Copied(v)' => Copied(v)
  BY <1>1, <1>5, <1>6 DEF Copied, OnlyMoves, j
<1>15. Registrations'
  BY <1>1, <1>6, <1>14, RegistrationsStay
<1> QED BY <1>11, <1>12, <1>13, <1>15 DEF IInv

LEMMA StatusLoadsKept == ASSUME ConstantsAssumption, IInv, NEW p \in Procs, StatusLoads(p) PROVE IInv'
<1> DEFINE j == job[p]
<1>1. /\ pc[p] \in {"statuses", "copyBack"}
      /\ UNCHANGED <<run, team, files, raced, core, wave, panes, started, attempt, tree, lock>>
  BY DEF StatusLoads, records, ledger, tmux
<1>2. PICK r \in {"statuses", "copyBack"} : r = pc[p]
  BY <1>1
<1> DEFINE k == [j EXCEPT !.copy = team, !.ret = r]
<1>3. Begin(p, "statusSave", k)
  BY <1>2 DEF StatusLoads
<1>4. j \in Jobs /\ Place(pc[p], j, p)
  BY Now
<1>5. k \in Jobs /\ k.copy = team /\ k.mark = j.mark /\ team \in Copies
  BY <1>4 DEF Jobs, IInv, Kinds
<1>6. OnlyMoves(p) /\ pc'[p] = "statusSave" /\ job'[p] = k
  <2> HIDE DEF k
  <2> QED BY <1>3, <1>5, Beginning DEF IInv
<1>7. lock = p /\ run \in {"ready", "torn"} /\ wave = "active" /\ j.mark \in Marks /\ GoodCopy(team)
  BY <1>1, <1>4 DEF Place, HoldsLock, AfterOpen, IInv, Shared
<1> HIDE DEF j, k
<1>8. Place(pc[p], job[p], p)'
  BY <1>1, <1>5, <1>6, <1>7 DEF Place, HoldsLock, AfterOpen, GoodCopy
<1> QED BY <1>1, <1>5, <1>6, <1>8, Quiet DEF IInv, Kinds, LockMoves

LEMMA MarkedTyped ==
  ASSUME ConstantsAssumption, NEW f \in Copies, \A w \in Initial : f[w] # Nil, NEW m \in Marks
  PROVE  /\ Marked(f, m) \in Copies
         /\ \A w \in Roster : f[w] # Nil => Marked(f, m)[w] # Nil
         /\ \A w \in Roster : Marked(f, m)[w] # Nil => f[w] # Nil
<1>1. PICK S \in SUBSET WaveWorkers : m \in [S -> {"launched", "failed"}]
  BY DEF Marks
<1>2. ASSUME NEW w \in S PROVE f[w] # Nil /\ [f[w] EXCEPT !.status = m[w]] \in WorkerRecord
  <2>1. w \in Initial /\ w \in Roster /\ m[w] \in {"launched", "failed"}
    BY <1>1 DEF ConstantsAssumption, Roster
  <2>2. f[w] \in WorkerRecord
    BY <2>1 DEF Copies
  <2> QED BY <2>1, <2>2 DEF WorkerRecord
<1>3. DOMAIN m = S
  BY <1>1
<1> DEFINE r(w) == [f[w] EXCEPT !.status = m[w]]
           g == [w \in Roster |-> IF w \in S THEN r(w) ELSE f[w]]
<1>4. Marked(f, m) = g
  BY <1>3 DEF Marked
<1>5. \A w \in S : r(w) \in WorkerRecord /\ f[w] # Nil
  BY <1>2
<1> HIDE DEF r
<1>6. g \in Copies /\ \A w \in Roster : g[w] = IF w \in S THEN r(w) ELSE f[w]
  BY <1>5 DEF Copies
<1> HIDE DEF g
<1> QED BY <1>4, <1>5, <1>6 DEF ConstantsAssumption

LEMMA StatusSavesKept == ASSUME ConstantsAssumption, IInv, NEW p \in Procs, StatusSaves(p) PROVE IInv'
<1> DEFINE j == job[p]
<1>1. /\ pc[p] = "statusSave" /\ files' = Marked(files, j.mark) /\ team' = Marked(j.copy, j.mark)
      /\ End(p) /\ UNCHANGED <<run, raced, core, wave, panes, started, attempt, tree>>
  BY DEF StatusSaves, ledger, tmux
<1>2. /\ run \in {"ready", "torn"} /\ wave = "active" /\ j.mark \in Marks
      /\ j.copy \in Copies /\ GoodCopy(j.copy)
  BY <1>1, Now DEF Place, AfterOpen
<1>3. files \in Copies /\ GoodCopy(files)
  BY <1>2 DEF IInv, Kinds, Shared
<1>4. /\ files' \in Copies /\ team' \in Copies
      /\ \A w \in Roster : files[w] # Nil => files'[w] # Nil
      /\ \A w \in Roster : j.copy[w] # Nil => team'[w] # Nil
      /\ \A w \in Roster : team'[w] # Nil => j.copy[w] # Nil
  BY <1>1, <1>2, <1>3, MarkedTyped DEF GoodCopy
<1>5. GoodCopy(files)' /\ GoodCopy(team)'
  BY <1>1, <1>2, <1>3, <1>4 DEF GoodCopy, Roster
<1>6. \A w \in Roster : team'[w] # Nil => Copied(w)
  BY <1>2, <1>4 DEF Copied
<1>7. OnlyMoves(p) /\ LockMoves(p) /\ pc'[p] = "idle" /\ job'[p] = NoJob
  BY <1>1, Ending DEF IInv
<1>8. Place(pc[p], job[p], p)'
  BY <1>7, AtRest DEF Place, HoldsLock, AfterOpen, NoJob, ConstantsAssumption
<1>9. NoJob.copy = Nil
  BY DEF NoJob
<1> QED BY <1>1, <1>2, <1>4, <1>5, <1>6, <1>7, <1>8, <1>9, CopySaved

LEMMA LaunchFailsKept == ASSUME ConstantsAssumption, IInv, NEW p \in Procs, LaunchFails(p) PROVE IInv'
<1>1. /\ pc[p] \in {"tmux", "statuses", "statusSave"} /\ panes' \subseteq panes
      /\ Goto(p, "evidence")
      /\ UNCHANGED <<run, team, files, raced, core, wave, started, attempt, tree, lock, job>>
  BY DEF LaunchFails, records, ledger
<1>2. OnlyMoves(p) /\ pc'[p] = "evidence" /\ job'[p] = job[p]
  BY <1>1, Going DEF IInv
<1>3. Place(pc[p], job[p], p)'
  BY <1>1, <1>2, Now DEF Place, HoldsLock, AfterOpen, GoodCopy
<1> QED BY <1>1, <1>2, <1>3, Quiet DEF IInv, Kinds, LockMoves

LEMMA RecordsFailureKept ==
  ASSUME ConstantsAssumption, IInv, NEW p \in Procs, RecordsFailure(p) PROVE IInv'
<1> DEFINE j == job[p]
           failed == {w \in WaveWorkers : core'[w] = "failed"}
           m == [w \in failed |-> "failed"]
           k == [j EXCEPT !.mark = m]
<1>1. /\ pc[p] = "evidence" /\ Begin(p, "copyBack", k)
      /\ UNCHANGED <<run, team, files, raced, wave, panes, started, attempt, tree, lock>>
  BY DEF RecordsFailure, records, tmux
<1>2. /\ core' \in [Roster -> {"none", "registered", "launched"} \cup Terminal]
      /\ \A w \in Roster : core'[w] = core[w] \/ (core[w] = "launched" /\ core'[w] = "failed")
  BY DEF RecordsFailure, SetCore, Unreported, IInv, Kinds, Terminal
<1>3. j \in Jobs /\ Place("evidence", j, p)
  BY <1>1, Now
<1>4. m \in Marks
  <2> HIDE DEF failed
  <2>1. failed \subseteq WaveWorkers
    BY DEF failed
  <2> QED BY <2>1 DEF Marks
<1>5. k \in Jobs /\ k.copy = j.copy /\ k.mark \in Marks
  <2> HIDE DEF m
  <2> QED BY <1>3, <1>4 DEF Jobs
<1> HIDE DEF m
<1>6. OnlyMoves(p) /\ pc'[p] = "copyBack" /\ job'[p] = k
  <2> HIDE DEF k
  <2> QED BY <1>1, <1>5, Beginning DEF IInv
<1>7. lock = p /\ run \in {"ready", "torn"} /\ wave = "active" /\ (j.copy \in Copies => GoodCopy(j.copy))
  BY <1>3 DEF Place, HoldsLock, AfterOpen
<1> HIDE DEF j, k
<1>8. Place(pc[p], job[p], p)'
  BY <1>1, <1>5, <1>6, <1>7 DEF Place, HoldsLock, AfterOpen, GoodCopy
<1>9. Kinds'
  BY <1>1, <1>2, <1>6 DEF IInv, Kinds, OnlyMoves
<1>10. Places' /\ OneInit'
  BY <1>1, <1>6, <1>8, OthersStay
<1>11. Shared'
  BY <1>1, <1>2, <1>7 DEF IInv, Shared, GoodCopy, ConstantsAssumption, Roster
<1>12. \A w \in Roster : Copied(w)' => Copied(w)
  BY <1>1, <1>5, <1>6 DEF Copied, OnlyMoves, j
<1>13. Registrations'
  BY <1>1, <1>2, <1>6, <1>12, RegistrationsStay
<1> QED BY <1>9, <1>10, <1>11, <1>13 DEF IInv

\* A launch without a wave reserves or gives back workers outside of the wave.
LEMMA DirectMoves ==
  ASSUME ConstantsAssumption, IInv, NEW p \in Procs, OnlyMoves(p), LockMoves(p), run \in {"ready", "torn"},
         UNCHANGED <<run, team, files, raced, wave, started, tree>>,
         panes' \subseteq (Procs \cup {Direct}) \X Roster,
         NEW ws \in SUBSET (Roster \ WaveWorkers), NEW s \in {"registered", "launched"},
         SetCore(ws, s), \A w \in ws : core[w] \in {"registered", "launched"},
         Place(pc[p], job[p], p)', pc'[p] \notin {"init", "addRegister", "addSave"},
         job'[p].copy = Nil
  PROVE  IInv'
<1>1. /\ core' \in [Roster -> {"none", "registered", "launched"} \cup Terminal]
      /\ \A w \in Roster : (core'[w] = "none") = (core[w] = "none")
      /\ \A w \in WaveWorkers : core'[w] = core[w]
  BY DEF SetCore, IInv, Kinds, Roster, ConstantsAssumption
<1>2. Kinds'
  BY <1>1 DEF IInv, Kinds, OnlyMoves, LockMoves
<1>3. Places' /\ OneInit'
  BY OthersStay DEF LockMoves
<1>4. Shared'
  BY <1>1 DEF IInv, Shared, GoodCopy
<1>5. \A w \in Roster : Copied(w)' => Copied(w)
  BY DEF Copied, OnlyMoves, ConstantsAssumption
<1>6. Registrations'
  BY <1>1, <1>5, RegistrationsStay
<1> QED BY <1>2, <1>3, <1>4, <1>6 DEF IInv

LEMMA DirectReservesKept ==
  ASSUME ConstantsAssumption, IInv, NEW p \in Procs, NEW ws \in SUBSET Roster, DirectReserves(p, ws)
  PROVE  IInv'
<1> DEFINE j == [NoJob EXCEPT !.who = ws]
<1>1. /\ run \in {"ready", "torn"} /\ ws \in SUBSET (Roster \ WaveWorkers)
      /\ \A w \in ws : core[w] = "registered"
      /\ SetCore(ws, "launched") /\ Begin(p, "direct", j)
      /\ UNCHANGED <<run, team, files, raced, wave, panes, started, attempt, tree, lock>>
  BY DEF DirectReserves, Usable, Members, records, tmux
<1>2. j \in Jobs /\ j.copy = Nil /\ j.who = ws
  BY DEF NoJob, Jobs, Isos
<1>3. OnlyMoves(p) /\ pc'[p] = "direct" /\ job'[p] = j
  BY <1>1, <1>2, Beginning DEF IInv
<1> HIDE DEF j
<1>4. Place(pc[p], job[p], p)'
  BY <1>1, <1>2, <1>3 DEF Place, HoldsLock, AfterOpen, ConstantsAssumption
<1>5. panes' \subseteq (Procs \cup {Direct}) \X Roster
  BY <1>1 DEF IInv, Kinds
<1> QED BY <1>1, <1>2, <1>3, <1>4, <1>5, DirectMoves DEF LockMoves

LEMMA DirectStartsKept == ASSUME ConstantsAssumption, IInv, NEW p \in Procs, DirectStarts(p) PROVE IInv'
<1>1. /\ pc[p] = "direct" /\ End(p) /\ panes' = panes \cup {<<Direct, w>> : w \in job[p].who}
      /\ UNCHANGED <<run, team, files, raced, core, wave, started, attempt, tree>>
  BY DEF DirectStarts, records, ledger
<1>2. job[p].who \subseteq Roster
  BY Now DEF Jobs
<1>3. panes' \subseteq (Procs \cup {Direct}) \X Roster
  BY <1>1, <1>2 DEF IInv, Kinds
<1> QED BY <1>1, <1>3, EndingQuiet DEF IInv, Kinds

LEMMA DirectFailsKept == ASSUME ConstantsAssumption, IInv, NEW p \in Procs, DirectFails(p) PROVE IInv'
<1> DEFINE ws == {w \in job[p].who : core[w] = "launched"}
<1>1. /\ pc[p] = "direct" /\ SetCore(ws, "registered") /\ End(p) /\ panes' \subseteq panes
      /\ UNCHANGED <<run, team, files, raced, wave, started, attempt, tree>>
  BY DEF DirectFails, records
<1>2. run \in {"ready", "torn"} /\ job[p].who \cap WaveWorkers = {} /\ job[p].who \subseteq Roster
  BY <1>1, Now DEF Place, Jobs
<1>3. PICK vs \in SUBSET (Roster \ WaveWorkers) : vs = ws
  BY <1>2
<1>4. OnlyMoves(p) /\ LockMoves(p) /\ pc'[p] = "idle" /\ job'[p] = NoJob
  BY <1>1, Ending DEF IInv
<1>5. Place(pc[p], job[p], p)'
  BY <1>4, AtRest DEF Place, HoldsLock, AfterOpen, NoJob, ConstantsAssumption
<1>6. SetCore(vs, "registered") /\ (\A w \in vs : core[w] \in {"registered", "launched"}) /\ NoJob.copy = Nil
  BY <1>1, <1>3 DEF NoJob
<1>7. panes' \subseteq (Procs \cup {Direct}) \X Roster
  BY <1>1 DEF IInv, Kinds
<1> QED BY <1>1, <1>2, <1>4, <1>5, <1>6, <1>7, DirectMoves

--------------------------------------------------------------------------------
LEMMA Kept == ASSUME ConstantsAssumption, IInv, [Next]_vars PROVE IInv'
<1>1. CASE UNCHANGED vars
  BY <1>1 DEF vars, records, ledger, tmux, IInv, Kinds, Places, Place, HoldsLock, GoodCopy, OneInit,
              Shared, Registrations, Copied, IsAdding
<1>2. ASSUME NEW w \in Roster, Edit(w) \/ Integrate(w) \/ \E s \in Terminal : Report(w, s) PROVE IInv'
  BY <1>2, OutsideSteps
<1>3. CASE DeclareWave
  BY <1>3, OutsideSteps
<1>4. ASSUME NEW p \in Procs, InitRun(p) \/ InitRegisters(p) \/ InitFails(p) \/ Die(p) PROVE IInv'
  BY <1>4, InitRunKept, InitRegistersKept, InitFailsKept, DieKept
<1>5. ASSUME NEW p \in Procs, AddFiles(p) \/ AddRegisters(p) \/ AddSaves(p) \/ AddSaveFails(p) PROVE IInv'
  BY <1>5, AddFilesKept, AddRegistersKept, AddSavesKept, AddSaveFailsKept
<1>6. ASSUME NEW p \in Procs, NEW w \in Roster, AddLoads(p, w) \/ CleanupLooks(p, w) PROVE IInv'
  BY <1>6, AddLoadsKept, CleanupLooksKept
<1>7. ASSUME NEW p \in Procs, NEW ws \in SUBSET Roster, Prepare(p, ws) \/ DirectReserves(p, ws) PROVE IInv'
  BY <1>7, PrepareKept, DirectReservesKept
<1>8. ASSUME NEW p \in Procs, Ensure(p) \/ IsoLoads(p) \/ IsoSaves(p) \/ CleanupRemoves(p) PROVE IInv'
  BY <1>8, EnsureKept, IsoLoadsKept, IsoSavesKept, CleanupRemovesKept
<1>9. ASSUME NEW p \in Procs, NEW isolate \in BOOLEAN, LaunchWave(p, isolate) PROVE IInv'
  BY <1>9, LaunchWaveKept
<1>10. ASSUME NEW p \in Procs, Attempts(p) \/ Opens(p) \/ PaneStarts(p) \/ StatusLoads(p) \/ StatusSaves(p)
       PROVE  IInv'
  BY <1>10, AttemptsKept, OpensKept, PaneStartsKept, StatusLoadsKept, StatusSavesKept
<1>11. ASSUME NEW p \in Procs, LaunchFails(p) \/ RecordsFailure(p) \/ CopyBackFails(p) PROVE IInv'
  <2>1. ASSUME CopyBackFails(p) PROVE IInv'
    <3>1. End(p) /\ UNCHANGED <<run, team, files, raced, core, wave, started, tree, panes>>
      BY <2>1 DEF CopyBackFails, records, ledger, tmux
    <3> QED BY <3>1, EndingQuiet DEF IInv, Kinds
  <2> QED BY <1>11, <2>1, LaunchFailsKept, RecordsFailureKept
<1>12. ASSUME NEW p \in Procs, DirectStarts(p) \/ DirectFails(p) PROVE IInv'
  BY <1>12, DirectStartsKept, DirectFailsKept
<1> QED BY <1>1, <1>2, <1>3, <1>4, <1>5, <1>6, <1>7, <1>8, <1>9, <1>10, <1>11, <1>12 DEF Next

LEMMA Types == ASSUME IInv PROVE TypeOK
BY DEF IInv, Kinds, TypeOK, Copies

LEMMA OnceDispatched == ASSUME ConstantsAssumption, IInv PROVE DispatchOnce
<1>1. ASSUME NEW w \in WaveWorkers
      PROVE  /\ started[w] <= 1
             /\ started[w] = 1 => wave = "active" /\ core[w] \notin {"none", "registered"}
  BY DEF IInv, Shared
<1>2. ASSUME NEW w \in WaveWorkers, NEW f \in {team, files}, f[w] # Nil, f[w].status # "registered"
      PROVE  wave = "active"
  <2>1. CASE run # "absent"
    BY <1>2, <2>1 DEF IInv, Shared, GoodCopy
  <2>2. CASE run = "absent"
    BY <1>2, <2>2 DEF IInv, Shared, ConstantsAssumption, Roster
  <2> QED BY <2>1, <2>2
<1> QED BY <1>1, <1>2, Types DEF DispatchOnce

LEMMA MembersAreRegistered == ASSUME IInv PROVE MembersRegistered
BY DEF IInv, Registrations, MembersRegistered, Members, Copied

\* What leaves both the trees and the Core's entries as they are.
LEMMA Elsewhere ==
  ASSUME NEW p \in Procs,
         \/ InitRun(p) \/ InitFails(p) \/ AddFiles(p) \/ AddSaves(p)
         \/ \E w \in Roster : AddLoads(p, w) \/ CleanupLooks(p, w)
         \/ \E ws \in SUBSET Roster : Prepare(p, ws)
         \/ \E isolate \in BOOLEAN : LaunchWave(p, isolate)
         \/ IsoLoads(p) \/ IsoSaves(p) \/ Attempts(p) \/ PaneStarts(p)
         \/ StatusLoads(p) \/ StatusSaves(p) \/ LaunchFails(p) \/ CopyBackFails(p)
         \/ DirectStarts(p) \/ Die(p)
  PROVE  tree' = tree /\ core' = core
<1>1. CASE InitRun(p) \/ InitFails(p) \/ AddFiles(p) \/ AddSaves(p)
  BY <1>1 DEF InitRun, InitFails, AddFiles, AddSaves, ledger
<1>2. CASE \E w \in Roster : AddLoads(p, w) \/ CleanupLooks(p, w)
  BY <1>2 DEF AddLoads, CleanupLooks, ledger
<1>3. CASE \E ws \in SUBSET Roster : Prepare(p, ws)
  BY <1>3 DEF Prepare, ledger
<1>4. CASE \E isolate \in BOOLEAN : LaunchWave(p, isolate)
  BY <1>4 DEF LaunchWave, ledger
<1>5. CASE IsoLoads(p) \/ IsoSaves(p) \/ Attempts(p) \/ PaneStarts(p)
  BY <1>5 DEF IsoLoads, IsoSaves, Attempts, PaneStarts, ledger
<1>6. CASE StatusLoads(p) \/ StatusSaves(p) \/ LaunchFails(p) \/ CopyBackFails(p) \/ DirectStarts(p) \/ Die(p)
  BY <1>6 DEF StatusLoads, StatusSaves, LaunchFails, CopyBackFails, DirectStarts, Die, ledger
<1> QED BY <1>1, <1>2, <1>3, <1>4, <1>5, <1>6

LEMMA TreesTouched ==
  ASSUME Next
  PROVE  \/ UNCHANGED tree \/ (\E v \in Roster : Edit(v) \/ Integrate(v))
         \/ \E p \in Procs : Ensure(p) \/ CleanupRemoves(p)
<1>1. ASSUME DeclareWave \/ \E v \in Roster, s \in Terminal : Report(v, s) PROVE tree' = tree
  BY <1>1 DEF DeclareWave, Report
<1>2. ASSUME NEW p \in Procs,
             \/ InitRegisters(p) \/ AddRegisters(p) \/ AddSaveFails(p) \/ Opens(p)
             \/ RecordsFailure(p) \/ DirectFails(p) \/ \E ws \in SUBSET Roster : DirectReserves(p, ws)
      PROVE  tree' = tree
  BY <1>2 DEF InitRegisters, AddRegisters, AddSaveFails, Opens, RecordsFailure, DirectFails, DirectReserves
<1> QED BY <1>1, <1>2, Elsewhere DEF Next

LEMMA CoreTouched ==
  ASSUME Next
  PROVE  \/ UNCHANGED core \/ (\E v \in Roster, s \in Terminal : Report(v, s))
         \/ \E p \in Procs : \/ InitRegisters(p) \/ AddRegisters(p) \/ AddSaveFails(p) \/ Opens(p)
                             \/ RecordsFailure(p) \/ DirectFails(p)
                             \/ \E ws \in SUBSET Roster : DirectReserves(p, ws)
<1>1. ASSUME DeclareWave \/ \E v \in Roster : Edit(v) \/ Integrate(v) PROVE core' = core
  BY <1>1 DEF DeclareWave, Edit, Integrate, ledger
<1>2. ASSUME NEW p \in Procs, Ensure(p) \/ CleanupRemoves(p) PROVE core' = core
  BY <1>2 DEF Ensure, CleanupRemoves, ledger
<1> QED BY <1>1, <1>2, Elsewhere DEF Next

\* The worktree of a worker goes only when it is clean, and its end is written once.
LEMMA NothingIsLost == ASSUME ConstantsAssumption, IInv, [Next]_vars PROVE [LosesNothing]_vars
<1> SUFFICES ASSUME Next PROVE LosesNothing
  OBVIOUS
<1>1. ASSUME NEW w \in Roster, tree[w] = "dirty" PROVE tree'[w] # "none"
  <2>1. CASE UNCHANGED tree
    BY <1>1, <2>1
  <2>2. ASSUME NEW v \in Roster, tree' = [tree EXCEPT ![v] = "clean"] \/ tree' = [tree EXCEPT ![v] = "dirty"]
        PROVE  tree'[w] # "none"
    BY <1>1, <2>2 DEF IInv, Kinds
  <2>3. ASSUME NEW v \in Roster, Edit(v) \/ Integrate(v) PROVE tree'[w] # "none"
    BY <2>2, <2>3 DEF Edit, Integrate
  <2>4. ASSUME NEW p \in Procs, Ensure(p) PROVE tree'[w] # "none"
    <3>1. job[p].who \subseteq Roster
      BY Now DEF Jobs
    <3>2. UNCHANGED tree \/ \E v \in Roster : tree' = [tree EXCEPT ![v] = IF @ = "none" THEN "clean" ELSE @]
      BY <2>4, <3>1 DEF Ensure
    <3> QED BY <1>1, <3>2 DEF IInv, Kinds
  <2>5. ASSUME NEW p \in Procs, CleanupRemoves(p) PROVE tree'[w] # "none"
    <3>1. job[p].worker \in Roster
      BY <2>5, Now DEF CleanupRemoves, Place
    <3>2. UNCHANGED tree \/ (tree[job[p].worker] = "clean" /\ tree' = [tree EXCEPT ![job[p].worker] = "none"])
      BY <2>5 DEF CleanupRemoves, Removable
    <3> QED BY <1>1, <3>1, <3>2 DEF IInv, Kinds
  <2>6. \/ UNCHANGED tree \/ (\E v \in Roster : Edit(v) \/ Integrate(v))
        \/ \E p \in Procs : Ensure(p) \/ CleanupRemoves(p)
    BY TreesTouched
  <2> QED BY <2>1, <2>3, <2>4, <2>5, <2>6
<1>2. ASSUME NEW w \in Roster, core[w] \in Terminal PROVE core'[w] = core[w]
  <2>0. core[w] \notin {"none", "registered", "launched"}
    BY <1>2 DEF Terminal
  <2>1. CASE UNCHANGED core
    BY <2>1
  <2>2. ASSUME NEW ws, NEW s, SetCore(ws, s), \A v \in ws : core[v] \in {"none", "registered", "launched"}
        PROVE  core'[w] = core[w]
    BY <2>0, <2>2 DEF SetCore
  <2>3. ASSUME NEW v \in Roster, NEW s \in Terminal, Report(v, s) PROVE core'[w] = core[w]
    BY <2>0, <2>3 DEF Report, IInv, Kinds
  <2>4. ASSUME NEW p \in Procs, InitRegisters(p) PROVE core'[w] = core[w]
    <3>1. run = "writing"
      BY <2>4, Now DEF InitRegisters, Place
    <3>2. \A v \in Initial : core[v] = "none"
      BY <3>1 DEF IInv, Shared, Roster
    <3> QED BY <2>2, <2>4, <3>2 DEF InitRegisters
  <2>5. ASSUME NEW p \in Procs, AddRegisters(p) PROVE core'[w] = core[w]
    BY <2>1, <2>2, <2>5 DEF AddRegisters
  <2>6. ASSUME NEW p \in Procs, AddSaveFails(p) PROVE core'[w] = core[w]
    BY <2>2, <2>6 DEF AddSaveFails
  <2>7. ASSUME NEW p \in Procs, Opens(p) PROVE core'[w] = core[w]
    BY <2>1, <2>2, <2>7 DEF Opens, CanOpen, ledger
  <2>8. ASSUME NEW p \in Procs, RecordsFailure(p) PROVE core'[w] = core[w]
    BY <2>1, <2>2, <2>8 DEF RecordsFailure, Unreported
  <2>9. ASSUME NEW p \in Procs, NEW ws \in SUBSET Roster, DirectReserves(p, ws) PROVE core'[w] = core[w]
    BY <2>2, <2>9 DEF DirectReserves
  <2>10. ASSUME NEW p \in Procs, DirectFails(p) PROVE core'[w] = core[w]
    BY <2>2, <2>10 DEF DirectFails
  <2>11. \/ UNCHANGED core \/ (\E v \in Roster, s \in Terminal : Report(v, s))
         \/ \E p \in Procs : \/ InitRegisters(p) \/ AddRegisters(p) \/ AddSaveFails(p) \/ Opens(p)
                             \/ RecordsFailure(p) \/ DirectFails(p)
                             \/ \E ws \in SUBSET Roster : DirectReserves(p, ws)
    BY CoreTouched
  <2> QED BY <2>1, <2>3, <2>4, <2>5, <2>6, <2>7, <2>8, <2>9, <2>10, <2>11
<1> QED BY <1>1, <1>2 DEF LosesNothing
================================================================================
