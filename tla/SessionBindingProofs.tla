------------------------- MODULE SessionBindingProofs -------------------------
(***************************************************************************)
(* Machine-checked theorems about SessionBinding, for every set of         *)
(* processes, sessions and runs, and every bound on the revisions.         *)
(***************************************************************************)
EXTENDS SessionBinding, TLAPS

\* A process that does nothing has the record of a process.
LEMMA NoJobType == \A s \in Sessions : NoJob(s) \in Job
BY DEF NoJob, Job, Unborn, Binding, Commands, Statuses

\* The replacement of a binding is a binding, one revision on.
LEMMA RetargetedType ==
  ASSUME NEW b \in Binding, NEW t \in Runs \cup {Nil}
  PROVE  /\ Retargeted(b, t) \in Binding
         /\ Retargeted(b, t).revision = b.revision + 1
         /\ Retargeted(b, t).epoch \in {b.epoch, b.epoch + 1}
         /\ Retargeted(b, t).epoch = b.epoch <=> b.revision > 0 /\ t = b.target
         /\ Retargeted(b, t).target = t
BY DEF Retargeted, Binding

\* A process moves on to loc with the job x; the others stay where they are.
LEMMA MoveType ==
  ASSUME JobsOK, NEW p \in Procs, NEW loc \in Location, NEW x \in Job,
         pc' = [pc EXCEPT ![p] = loc], job' = [job EXCEPT ![p] = x],
         loc \notin Unread => x.r \in Runs,
         loc = "migrate" => x.r = Legacy
  PROVE  JobsOK'
BY DEF JobsOK, At

\* The same when the job stays as it is.
LEMMA KeepType ==
  ASSUME JobsOK, NEW p \in Procs, NEW loc \in Location, Keep(p, loc),
         loc \notin Unread => job[p].r \in Runs, loc # "migrate"
  PROVE  JobsOK'
BY DEF JobsOK, At, Keep, Goto

\* And when the command ends.
LEMMA FinishType ==
  ASSUME JobsOK, NEW p \in Procs, Finish(p)
  PROVE  JobsOK'
<1>1. job[p].s \in Sessions
  BY DEF JobsOK, Job
<1>2. NoJob(job[p].s) \in Job
  BY <1>1, NoJobType
<1>3. "idle" \in Location /\ "idle" \in Unread
  BY DEF Location, Unread
<1> QED BY <1>2, <1>3, MoveType DEF Finish, Goto

\* What TypeOK says of the job of one process and of the files it uses.
LEMMA JobTypes ==
  ASSUME TypeOK, NEW p \in Procs
  PROVE  /\ job[p] \in Job /\ job[p].s \in Sessions /\ job[p].r \in Runs \cup {Nil}
         /\ job[p].saw \in Binding /\ binding[job[p].s] \in Binding
         /\ binding[job[p].s].target \in Runs \cup {Nil}
         /\ pc[p] \notin Unread => job[p].r \in Runs
         /\ At(p, "migrate") => job[p].r = Legacy
BY DEF TypeOK, FilesOK, JobsOK, Job, Binding

\* A Context that is there has been loaded.
LEMMA LoadedType ==
  ASSUME TypeOK, NEW p \in Procs, NEW r \in Runs,
         NEW loc \in Location, loc # "migrate", Loaded(p, r, loc)
  PROVE  TypeOK'
<1> DEFINE x == [job[p] EXCEPT !.r = r, !.base = rev[r],
                               !.kept = applied[r], !.stat = status[r]]
<1>1. job[p] \in Job /\ rev[r] \in Nat /\ applied[r] \in SUBSET Nat /\ status[r] \in Statuses
  BY DEF TypeOK, FilesOK, JobsOK
<1>2. x \in Job /\ x.r = r
  BY <1>1 DEF Job
<1>3. pc' = [pc EXCEPT ![p] = loc] /\ job' = [job EXCEPT ![p] = x]
  BY DEF Loaded, Goto
<1>4. JobsOK'
  <2> HIDE DEF x
  <2> QED BY <1>2, <1>3, MoveType DEF TypeOK
<1>5. FilesOK'
  BY DEF Loaded, TypeOK, FilesOK, contexts, bindings
<1> QED BY <1>4, <1>5 DEF TypeOK

\* A command that begins: TypeOK, and what becomes of its job.
LEMMA BeginType ==
  ASSUME TypeOK, NEW p \in Procs, NEW cmd \in Commands, NEW s \in Sessions,
         NEW r \in Runs \cup {Nil}, NEW want \in Nat \cup {Nil}, NEW loc \in Location,
         loc \notin Unread => r \in Runs, loc = "migrate" => r = Legacy,
         Begin(p, cmd, s, r, want, loc)
  PROVE  TypeOK'
<1> DEFINE x == [NoJob(s) EXCEPT !.cmd = cmd, !.r = r, !.want = want,
                   !.saw = IF cmd = "start" THEN Unborn ELSE binding[s]]
<1>1. binding[s] \in Binding /\ Unborn \in Binding /\ NoJob(s) \in Job
  BY NoJobType DEF TypeOK, FilesOK, Unborn, Binding
<1>2. x \in Job /\ x.r = r
  BY <1>1 DEF Job, NoJob
<1>3. pc' = [pc EXCEPT ![p] = loc] /\ job' = [job EXCEPT ![p] = x]
  BY DEF Begin, Goto
<1>4. JobsOK'
  <2> HIDE DEF x
  <2> QED BY <1>2, <1>3, MoveType DEF TypeOK
<1> QED BY <1>4 DEF Begin, TypeOK, FilesOK, contexts, bindings

\* Every command begins in its types.
LEMMA CommandType == ASSUME TypeOK, NEW p \in Procs, Command(p) PROVE TypeOK'
<1> USE DEF Commands, Location, Unread
<1>1. \A q \in Runs : rev[q] \in Nat
  BY DEF TypeOK, FilesOK
<1>2. ASSUME NEW s \in Sessions, NEW r \in Runs, Start(p, s, r) \/ Resume(p, s, r)
      PROVE  TypeOK'
  BY <1>2, BeginType DEF Start, Resume
<1>3. ASSUME NEW s \in Sessions, NEW r \in Runs \cup {Nil}, Close(p, s, r)
      PROVE  TypeOK'
  BY <1>3, BeginType DEF Close
<1>4. ASSUME NEW s \in Sessions, NEW r \in Runs \cup {Nil}, Update(p, s, r)
      PROVE  TypeOK'
  <2>1. PICK want \in {Nil} \cup {rev[q] : q \in {r} \ {Nil}} :
          Begin(p, "update", s, r, want, "load")
    BY <1>4 DEF Update
  <2>2. want \in Nat \cup {Nil}
    BY <1>1, <2>1
  <2> QED BY <2>1, <2>2, BeginType
<1>5. ASSUME NEW s \in Sessions, Unbind(p, s) \/ Hook(p, s)
      PROVE  TypeOK'
  BY <1>5, BeginType DEF Unbind, Hook
<1>6. ASSUME NEW s \in Sessions, Migrate(p, s)
      PROVE  TypeOK'
  <2>1. Legacy \in Runs
    BY <1>6, ConstantsAssumption DEF Migrate
  <2> QED BY <1>6, <2>1, BeginType DEF Migrate
<1> QED BY <1>2, <1>3, <1>4, <1>5, <1>6 DEF Command

\* Steps that end the command and change no file.
LEMMA EndType ==
  ASSUME TypeOK, NEW p \in Procs,
         \/ LoadMissing(p) \/ SaveConflict(p) \/ BindRefused(p) \/ BindConflict(p)
         \/ ResolveNothing(p) \/ StaleObservation(p)
  PROVE  TypeOK' /\ Finish(p) /\ UNCHANGED <<contexts, bindings, index>>
<1>1. Finish(p) /\ UNCHANGED <<contexts, bindings, index>>
  BY DEF LoadMissing, SaveConflict, BindRefused, BindConflict, ResolveNothing,
    StaleObservation
<1> QED BY <1>1, FinishType DEF TypeOK, FilesOK, contexts, bindings

\* Steps that load a Context.
LEMMA LoadType ==
  ASSUME TypeOK, NEW p \in Procs, LoadPath(p) \/ LoadBound(p) \/ MigrateExisting(p)
  PROVE  TypeOK'
<1>1. AfterLoad(p) \in Location \ {"migrate"} /\ "index" \in Location \ {"migrate"}
  BY DEF AfterLoad, Location
<1>2. CASE LoadPath(p)
  BY <1>1, <1>2, LoadedType, JobTypes DEF LoadPath
<1>3. CASE LoadBound(p)
  <2>1. binding[job[p].s].target \in Runs
    BY <1>3, JobTypes DEF LoadBound, Foreground
  <2> QED BY <1>1, <1>3, <2>1, LoadedType DEF LoadBound
<1>4. CASE MigrateExisting(p)
  <2>1. Legacy \in Runs
    BY <1>4, JobTypes DEF MigrateExisting, At, Unread
  <2> QED BY <1>1, <1>4, <2>1, LoadedType DEF MigrateExisting
<1> QED BY <1>2, <1>3, <1>4

\* A command that stops half-way, and the release of its locks.
LEMMA StopType == ASSUME TypeOK, NEW p \in Procs, Stop(p) PROVE TypeOK'
<1>1. JobsOK'
  BY FinishType DEF Stop, TypeOK
<1>2. FilesOK'
  BY DEF Stop, TypeOK, FilesOK
<1> QED BY <1>1, <1>2 DEF TypeOK

\* Steps that write a file and leave the process with the same job.
LEMMA WriteType ==
  ASSUME TypeOK, NEW p \in Procs,
         Save(p) \/ IndexAndRelease(p) \/ BindIndex(p) \/ Bind(p) \/ Touch(p) \/ CloseCheck(p)
  PROVE  TypeOK'
<1> USE DEF contexts, bindings, At
<1>1. /\ job[p].s \in Sessions /\ job[p].r \in Runs
      /\ job[p].stat \in Statuses /\ job[p].kept \subseteq Nat
      /\ job[p].saw \in Binding /\ binding[job[p].s] \in Binding
  <2>1. job[p] \in Job /\ binding \in [Sessions -> Binding]
    BY DEF TypeOK, FilesOK, JobsOK
  <2>2. job[p].r \in Runs
    BY JobTypes DEF Unread, Save, IndexAndRelease, BindIndex, Bind, Touch, CloseCheck
  <2> QED BY <2>1, <2>2 DEF Job
<1>2. JobsOK'
  <2>1. \A b \in {"index", "bindRead", "bindIndex", "observe", "closeUnbind"} :
          b \in Location \ Unread /\ b # "migrate"
    BY DEF Location, Unread
  <2>2. ASSUME NEW b \in {"index", "bindRead", "bindIndex", "observe", "closeUnbind"},
               Keep(p, b)
        PROVE  JobsOK'
    BY <1>1, <2>1, <2>2, KeepType DEF TypeOK
  <2> QED BY <2>2, FinishType DEF Save, IndexAndRelease, BindIndex, Bind, Touch,
        CloseCheck, TypeOK
<1>3. FilesOK'
  <2>1. CASE Save(p)
    <3>1. rev[job[p].r] + 1 \in Nat /\ job[p].kept \cup {rev[job[p].r] + 1} \in SUBSET Nat
      BY <1>1 DEF TypeOK, FilesOK
    <3> QED BY <1>1, <2>1, <3>1 DEF Save, TypeOK, FilesOK
  <2>2. CASE IndexAndRelease(p) \/ BindIndex(p)
    BY <1>1, <2>2 DEF IndexAndRelease, BindIndex, Indexed, TypeOK, FilesOK
  <2>3. CASE Bind(p)
    <3>1. Retargeted(binding[job[p].s], job[p].r) \in Binding
      BY <1>1, RetargetedType
    <3> QED BY <1>1, <2>3, <3>1 DEF Bind, Rebind, TypeOK, FilesOK
  <2>4. CASE Touch(p)
    <3>1. [job[p].saw EXCEPT !.revision = @ + 1] \in Binding
      BY <1>1 DEF Binding
    <3> QED BY <1>1, <2>4, <3>1 DEF Touch, TypeOK, FilesOK
  <2>5. CASE CloseCheck(p)
    BY <2>5 DEF CloseCheck, TypeOK, FilesOK
  <2> QED BY <2>1, <2>2, <2>3, <2>4, <2>5
<1> QED BY <1>2, <1>3 DEF TypeOK

\* Steps that write a binding and end the command.
LEMMA LastWriteType ==
  ASSUME TypeOK, NEW p \in Procs, Tombstone(p) \/ Observe(p)
  PROVE  TypeOK'
<1>1. JobsOK'
  BY FinishType DEF Tombstone, Observe, TypeOK
<1>2. /\ job[p].s \in Sessions
      /\ Retargeted(binding[job[p].s], Nil) \in Binding
      /\ [binding[job[p].s] EXCEPT !.revision = @ + 1] \in Binding
  <2>1. binding[job[p].s] \in Binding /\ job[p].s \in Sessions
    BY JobTypes
  <2> QED BY <2>1, RetargetedType DEF Binding
<1>3. FilesOK'
  BY <1>2 DEF Tombstone, Observe, Rebind, TypeOK, FilesOK, contexts
<1> QED BY <1>1, <1>3 DEF TypeOK

\* Steps that change the job of the process.
LEMMA JobChangeType ==
  ASSUME TypeOK, NEW p \in Procs,
         BindRead(p) \/ CloseUnbind(p) \/ Resolve(p) \/ MigrateMissing(p)
  PROVE  TypeOK'
<1> USE DEF contexts, bindings
<1>1. /\ job[p] \in Job /\ job[p].s \in Sessions /\ binding[job[p].s] \in Binding
      /\ pc[p] \notin Unread => job[p].r \in Runs
  BY JobTypes
<1>2. \A st \in Statuses : [job[p] EXCEPT !.stat = st] \in Job
  BY <1>1 DEF Job
<1>3. \A t \in Runs : [job[p] EXCEPT !.r = t, !.saw = binding[job[p].s]] \in Job
  BY <1>1 DEF Job
<1>4. JobsOK'
  <2>1. CASE BindRead(p)
    <3>1. job[p].r \in Runs /\ status[job[p].r] \in Statuses /\ "bind" \in Location
      BY <1>1, <2>1 DEF BindRead, At, Unread, TypeOK, FilesOK, Location
    <3>2. /\ [job[p] EXCEPT !.stat = status[job[p].r]] \in Job
          /\ [job[p] EXCEPT !.stat = status[job[p].r]].r = job[p].r
      BY <1>1, <1>2, <3>1 DEF Job
    <3> QED BY <2>1, <3>1, <3>2, MoveType DEF BindRead, Goto, TypeOK
  <2>2. CASE CloseUnbind(p) \/ MigrateMissing(p)
    <3>1. job[p].r \in Runs /\ "save" \in Location /\ "closed" \in Statuses
      BY <1>1, <2>2 DEF CloseUnbind, MigrateMissing, At, Unread, Location, Statuses
    <3>2. LegacyStatus \in Statuses
      BY ConstantsAssumption
    <3>3. \A st \in Statuses : [job[p] EXCEPT !.stat = st].r = job[p].r
      BY <1>1 DEF Job
    <3> QED BY <1>2, <2>2, <3>1, <3>2, <3>3, MoveType DEF CloseUnbind, MigrateMissing,
          Goto, TypeOK
  <2>3. CASE Resolve(p)
    <3>1. binding[job[p].s].target \in Runs /\ "touch" \in Location
      BY <2>3, JobTypes DEF Resolve, Foreground, Location
    <3>2. [job[p] EXCEPT !.r = binding[job[p].s].target,
                         !.saw = binding[job[p].s]].r = binding[job[p].s].target
      BY <1>1 DEF Job
    <3> QED BY <1>3, <2>3, <3>1, <3>2, MoveType DEF Resolve, Goto, TypeOK
  <2> QED BY <2>1, <2>2, <2>3
<1>5. FilesOK'
  <2>1. Retargeted(binding[job[p].s], Nil) \in Binding
    BY <1>1, RetargetedType
  <2> QED BY <1>1, <2>1 DEF BindRead, CloseUnbind, Resolve, MigrateMissing, Rebind,
        TypeOK, FilesOK
<1> QED BY <1>4, <1>5 DEF TypeOK

\* No step breaks the types.
LEMMA NextType == TypeOK /\ [Next]_vars => TypeOK'
<1> SUFFICES ASSUME TypeOK, [Next]_vars PROVE TypeOK'
  OBVIOUS
<1>1. ASSUME NEW p \in Procs, Step(p) PROVE TypeOK'
  BY <1>1, EndType, LoadType, WriteType, LastWriteType, JobChangeType DEF Step
<1>2. ASSUME UNCHANGED vars PROVE TypeOK'
  BY <1>2 DEF TypeOK, FilesOK, JobsOK, At, vars
<1> QED BY <1>1, <1>2, CommandType, StopType DEF Next

\* TypeOK holds of the initial state.
LEMMA InitType == Init => TypeOK
<1>1. Unborn \in Binding
  BY DEF Unborn, Binding
<1> QED BY <1>1, NoJobType DEF Init, TypeOK, FilesOK, JobsOK, At, Statuses, Location,
      Unread

\* Every command, every failure and every interleaving of them keeps the files
\* and the jobs in their types.
THEOREM TypeCorrect == Spec => []TypeOK
BY InitType, NextType, PTL DEF Spec

-----------------------------------------------------------------------------
(* What processes know of the bindings *)

\* The binding files stay; one process moves, and locks change hands only
\* between it and nobody.
LEMMA KnowledgeKept ==
  ASSUME BindingInv, TypeOK', NEW p \in Procs, UNCHANGED binding,
         \A q \in Procs \ {p} : pc'[q] = pc[q] /\ job'[q] = job[q],
         \A s \in Sessions : bindLock'[s] = bindLock[s] \/ bindLock[s] \in {Nil, p},
         KnowledgeIsPast(p)'
  PROVE  BindingInv'
<1>1. ASSUME NEW q \in Procs, q # p PROVE KnowledgeIsPast(q)'
  <2>1. KnowledgeIsPast(q) /\ q # Nil /\ job[q].s \in Sessions
    BY ConstantsAssumption, JobTypes DEF BindingInv
  <2> QED BY <1>1, <2>1 DEF KnowledgeIsPast, At
<1> QED BY <1>1 DEF BindingInv

\* One process writes the binding of its session, one revision on, while nobody
\* else holds the session's lock.
LEMMA KnowledgeOutdated ==
  ASSUME BindingInv, TypeOK', NEW p \in Procs, NEW b,
         binding' = [binding EXCEPT ![job[p].s] = b],
         b.revision = binding[job[p].s].revision + 1,
         bindLock[job[p].s] \in {Nil, p},
         \A q \in Procs \ {p} : pc'[q] = pc[q] /\ job'[q] = job[q],
         \A s \in Sessions : bindLock'[s] = bindLock[s] \/ bindLock[s] \in {Nil, p},
         job'[p].s = job[p].s, pc'[p] # "touch",
         job'[p].saw.revision <= binding[job[p].s].revision,
         job'[p].saw.revision \in Nat
  PROVE  BindingInv'
<1> DEFINE t == job[p].s
<1>1. /\ t \in Sessions /\ binding[t].revision \in Nat
      /\ \A s \in Sessions : binding'[s] = IF s = t THEN b ELSE binding[s]
  BY JobTypes DEF BindingInv, TypeOK, FilesOK, Binding
<1>2. KnowledgeIsPast(p)'
  BY <1>1 DEF KnowledgeIsPast, At
<1>3. ASSUME NEW q \in Procs, q # p PROVE KnowledgeIsPast(q)'
  <2>1. KnowledgeIsPast(q) /\ q # Nil /\ job[q].s \in Sessions /\ job[q].saw.revision \in Nat
    BY ConstantsAssumption, JobTypes DEF BindingInv, Binding
  <2> QED BY <1>1, <1>3, <2>1 DEF KnowledgeIsPast, At
<1>4. \A s \in Sessions : binding'[s].revision = 0 => binding'[s] = Unborn
  BY <1>1 DEF BindingInv
<1> QED BY <1>2, <1>3, <1>4 DEF BindingInv

\* A process that has ended its command knows nothing.
LEMMA KnowsNothing ==
  ASSUME TypeOK, TypeOK', NEW p \in Procs, Finish(p)
  PROVE  /\ job'[p].s = job[p].s /\ job'[p].saw = Unborn /\ pc'[p] = "idle"
         /\ \A q \in Procs \ {p} : pc'[q] = pc[q] /\ job'[q] = job[q]
BY DEF Finish, Goto, NoJob, TypeOK, JobsOK

\* A command that ends leaves what the others know in the past.
LEMMA EndKeepsKnowledge ==
  ASSUME BindingInv, TypeOK', NEW p \in Procs, Finish(p), UNCHANGED binding,
         \A s \in Sessions : bindLock'[s] = bindLock[s] \/ bindLock[s] \in {Nil, p}
  PROVE  BindingInv'
<1>1. /\ job'[p].s = job[p].s /\ job'[p].saw = Unborn /\ pc'[p] = "idle"
      /\ \A q \in Procs \ {p} : pc'[q] = pc[q] /\ job'[q] = job[q]
  BY KnowsNothing DEF BindingInv
<1>2. binding[job[p].s].revision \in Nat /\ job[p].s \in Sessions
  BY JobTypes DEF BindingInv, Binding
<1>3. KnowledgeIsPast(p)'
  BY <1>1, <1>2 DEF KnowledgeIsPast, BindingInv, At, Unborn
<1> QED BY <1>1, <1>3, KnowledgeKept

\* A command begins with the binding as it is, or expecting none.
LEMMA BeginKeepsKnowledge ==
  ASSUME BindingInv, TypeOK', NEW p \in Procs, NEW cmd, NEW s \in Sessions, NEW r, NEW want,
         NEW loc, loc # "touch", Begin(p, cmd, s, r, want, loc)
  PROVE  BindingInv'
<1>1. /\ pc'[p] = loc /\ job'[p].s = s /\ job'[p].saw \in {Unborn, binding[s]}
      /\ \A q \in Procs \ {p} : pc'[q] = pc[q] /\ job'[q] = job[q]
  BY DEF Begin, Goto, NoJob, BindingInv, TypeOK, JobsOK
<1>2. binding[s].revision \in Nat
  BY DEF BindingInv, TypeOK, FilesOK, Binding
<1>3. KnowledgeIsPast(p)'
  BY <1>1, <1>2 DEF KnowledgeIsPast, BindingInv, At, Unborn, Begin, bindings
<1>4. UNCHANGED <<binding, bindLock>>
  BY DEF Begin, bindings
<1> QED BY <1>1, <1>3, <1>4, KnowledgeKept

\* A process that moves on with what it knows; nobody enters "touch" this way.
LEMMA MoveKeepsKnowledge ==
  ASSUME BindingInv, TypeOK', NEW p \in Procs, UNCHANGED <<binding, bindLock>>,
         \A q \in Procs \ {p} : pc'[q] = pc[q] /\ job'[q] = job[q],
         job'[p].s = job[p].s, job'[p].saw = job[p].saw, pc'[p] # "touch"
  PROVE  BindingInv'
<1>1. KnowledgeIsPast(p)'
  BY DEF KnowledgeIsPast, BindingInv, At
<1> QED BY <1>1, KnowledgeKept

\* The two ways to write a binding, and what they write.
LEMMA RebindWrites ==
  ASSUME BindingInv, NEW p \in Procs, NEW t \in Runs \cup {Nil}, Rebind(p, t)
  PROVE  /\ binding' = [binding EXCEPT ![job[p].s] = Retargeted(binding[job[p].s], t)]
         /\ Retargeted(binding[job[p].s], t).revision = binding[job[p].s].revision + 1
         /\ bindLock[job[p].s] = Nil /\ bindLock' = bindLock
         /\ job[p].saw = binding[job[p].s]
         /\ job[p].saw.revision \in Nat
<1>1. binding[job[p].s] \in Binding /\ job[p].saw \in Binding
  BY JobTypes DEF BindingInv
<1>2. KnowledgeIsPast(p)
  BY DEF BindingInv
<1> QED BY <1>1, <1>2, RetargetedType DEF Rebind, KnowledgeIsPast, Binding

\* A touch and an observation move the binding one revision on, and no other
\* process holds its lock.
LEMMA RecordWrites ==
  ASSUME BindingInv, NEW p \in Procs, Touch(p) \/ Observe(p)
  PROVE  /\ binding' = [binding EXCEPT ![job[p].s] =
                          [binding[job[p].s] EXCEPT !.revision = binding[job[p].s].revision + 1]]
         /\ bindLock[job[p].s] \in {Nil, p}
         /\ \A s \in Sessions : bindLock'[s] = bindLock[s] \/ bindLock[s] \in {Nil, p}
<1>1. job[p].s \in Sessions /\ binding \in [Sessions -> Binding]
      /\ bindLock \in [Sessions -> Procs \cup {Nil}]
  BY JobTypes DEF BindingInv, TypeOK, FilesOK
<1>2. KnowledgeIsPast(p)
  BY DEF BindingInv
<1>3. CASE Touch(p)
  BY <1>1, <1>2, <1>3 DEF Touch, KnowledgeIsPast
<1>4. CASE Observe(p)
  BY <1>1, <1>4 DEF Observe
<1> QED BY <1>3, <1>4

\* The job of a process that moves on or changes what it has loaded.
LEMMA JobMoves ==
  ASSUME BindingInv, NEW p \in Procs,
         \/ LoadPath(p) \/ LoadBound(p) \/ MigrateExisting(p) \/ MigrateMissing(p)
         \/ BindRead(p) \/ Save(p) \/ Bind(p) \/ CloseUnbind(p) \/ Touch(p)
         \/ ~Finish(p) /\ (IndexAndRelease(p) \/ CloseCheck(p))
  PROVE  /\ job'[p].s = job[p].s /\ job'[p].saw = job[p].saw /\ pc'[p] # "touch"
         /\ \A q \in Procs \ {p} : pc'[q] = pc[q] /\ job'[q] = job[q]
<1> DEFINE JobKept ==
      /\ job'[p].s = job[p].s /\ job'[p].saw = job[p].saw /\ pc'[p] # "touch"
      /\ \A q \in Procs \ {p} : pc'[q] = pc[q] /\ job'[q] = job[q]
<1>1. job[p] \in Job /\ job \in [Procs -> Job] /\ pc \in [Procs -> Location]
  BY DEF BindingInv, TypeOK, JobsOK
<1>2. CASE LoadPath(p) \/ LoadBound(p) \/ MigrateExisting(p)
  <2>1. ASSUME NEW r, NEW loc \in Location \ {"touch"}, Loaded(p, r, loc) PROVE JobKept
    <3>1. /\ pc' = [pc EXCEPT ![p] = loc]
          /\ job' = [job EXCEPT ![p] = [job[p] EXCEPT !.r = r, !.base = rev[r],
                                           !.kept = applied[r], !.stat = status[r]]]
      BY <2>1 DEF Loaded, Goto
    <3> QED BY <1>1, <3>1 DEF Job
  <2> QED BY <1>2, <2>1 DEF LoadPath, LoadBound, MigrateExisting, AfterLoad, Location
<1>3. CASE MigrateMissing(p) \/ BindRead(p) \/ CloseUnbind(p)
  BY <1>1, <1>3 DEF MigrateMissing, BindRead, CloseUnbind, Goto, Job
<1>4. ASSUME NEW loc \in Location \ {"touch"}, Keep(p, loc) PROVE JobKept
  BY <1>1, <1>4 DEF Keep, Goto
<1> QED BY <1>2, <1>3, <1>4 DEF Save, Bind, Touch, IndexAndRelease, CloseCheck, Location

\* Every step keeps what the processes have read behind what is on disk.
LEMMA NextKnowledge == BindingInv /\ [Next]_vars => BindingInv'
<1> SUFFICES ASSUME BindingInv, [Next]_vars PROVE BindingInv'
  OBVIOUS
<1>1. TypeOK /\ TypeOK'
  BY NextType DEF BindingInv
<1> USE DEF contexts, bindings
<1>2. ASSUME NEW p \in Procs, Command(p) PROVE BindingInv'
  BY <1>1, <1>2, BeginKeepsKnowledge DEF Command, Start, Resume, Close, Update, Unbind,
    Hook, Migrate
<1>3. ASSUME NEW p \in Procs, Stop(p) PROVE BindingInv'
  <2>1. \A s \in Sessions : bindLock'[s] = bindLock[s] \/ bindLock[s] \in {Nil, p}
    BY <1>3 DEF Stop
  <2> QED BY <1>1, <1>3, <2>1, EndKeepsKnowledge DEF Stop
<1>4. ASSUME NEW p \in Procs,
             \/ LoadMissing(p) \/ SaveConflict(p) \/ BindRefused(p) \/ BindConflict(p)
             \/ ResolveNothing(p) \/ StaleObservation(p) \/ BindIndex(p)
             \/ Finish(p) /\ (IndexAndRelease(p) \/ CloseCheck(p))
      PROVE  BindingInv'
  BY <1>1, <1>4, EndType, EndKeepsKnowledge DEF BindIndex, IndexAndRelease, CloseCheck
<1>5. ASSUME NEW p \in Procs,
             \/ LoadPath(p) \/ LoadBound(p) \/ MigrateExisting(p) \/ MigrateMissing(p)
             \/ BindRead(p) \/ Save(p)
             \/ ~Finish(p) /\ (IndexAndRelease(p) \/ CloseCheck(p))
      PROVE  BindingInv'
  <2>1. UNCHANGED <<binding, bindLock>>
    BY <1>5 DEF LoadPath, LoadBound, MigrateExisting, MigrateMissing, BindRead, Save,
      IndexAndRelease, CloseCheck, Loaded
  <2> QED BY <1>1, <1>5, <2>1, JobMoves, MoveKeepsKnowledge
<1>6. ASSUME NEW p \in Procs, Bind(p) \/ CloseUnbind(p) PROVE BindingInv'
  <2>1. PICK t \in Runs \cup {Nil} : Rebind(p, t)
    BY <1>6, JobTypes, <1>1 DEF Bind, CloseUnbind
  <2> QED BY <1>1, <1>6, <2>1, RebindWrites, JobMoves, KnowledgeOutdated DEF Binding
<1>7. ASSUME NEW p \in Procs, Tombstone(p) PROVE BindingInv'
  <2>1. job'[p].s = job[p].s /\ job'[p].saw = Unborn /\ pc'[p] = "idle"
        /\ \A q \in Procs \ {p} : pc'[q] = pc[q] /\ job'[q] = job[q]
    BY <1>1, <1>7, KnowsNothing DEF Tombstone
  <2>2. binding[job[p].s].revision \in Nat
    BY <1>1, JobTypes DEF Binding
  <2> QED BY <1>1, <1>7, <2>1, <2>2, RebindWrites, KnowledgeOutdated DEF Tombstone, Unborn
<1>8. ASSUME NEW p \in Procs, Touch(p) \/ Observe(p) PROVE BindingInv'
  <2>1. binding[job[p].s] \in Binding /\ job[p].saw \in Binding
    BY <1>1, JobTypes
  <2>2. /\ job'[p].s = job[p].s /\ job'[p].saw \in {Unborn, job[p].saw} /\ pc'[p] # "touch"
        /\ \A q \in Procs \ {p} : pc'[q] = pc[q] /\ job'[q] = job[q]
    BY <1>1, <1>8, JobMoves, KnowsNothing DEF Observe
  <2>3. job'[p].saw.revision \in Nat /\ job'[p].saw.revision <= binding[job[p].s].revision
    BY <2>1, <2>2 DEF Binding, Unborn, BindingInv, KnowledgeIsPast
  <2> DEFINE b == [binding[job[p].s] EXCEPT !.revision = binding[job[p].s].revision + 1]
  <2>4. b.revision = binding[job[p].s].revision + 1
    BY <2>1 DEF Binding
  <2>5. /\ binding' = [binding EXCEPT ![job[p].s] = b]
        /\ bindLock[job[p].s] \in {Nil, p}
        /\ \A s \in Sessions : bindLock'[s] = bindLock[s] \/ bindLock[s] \in {Nil, p}
    BY <1>8, RecordWrites
  <2> HIDE DEF b
  <2> QED BY <1>1, <2>2, <2>3, <2>4, <2>5, KnowledgeOutdated
<1>9. ASSUME NEW p \in Procs, Resolve(p) PROVE BindingInv'
  <2>1. /\ job[p] \in Job /\ job \in [Procs -> Job] /\ pc \in [Procs -> Location]
        /\ bindLock \in [Sessions -> Procs \cup {Nil}] /\ job[p].s \in Sessions
        /\ binding[job[p].s].revision \in Nat
    BY <1>1, JobTypes DEF TypeOK, FilesOK, JobsOK, Binding
  <2>2. /\ UNCHANGED binding /\ job'[p].s = job[p].s /\ job'[p].saw = binding[job[p].s]
        /\ job'[p].r = binding[job[p].s].target /\ bindLock'[job[p].s] = p
        /\ \A q \in Procs \ {p} : pc'[q] = pc[q] /\ job'[q] = job[q]
        /\ \A s \in Sessions : bindLock'[s] = bindLock[s] \/ bindLock[s] \in {Nil, p}
    BY <1>9, <2>1 DEF Resolve, Goto, Job
  <2>3. KnowledgeIsPast(p)'
    BY <2>1, <2>2 DEF KnowledgeIsPast, At
  <2> QED BY <1>1, <2>2, <2>3, KnowledgeKept
<1>10. ASSUME UNCHANGED vars PROVE BindingInv'
  BY <1>1, <1>10 DEF vars, BindingInv, KnowledgeIsPast, At
<1> QED BY <1>2, <1>3, <1>4, <1>5, <1>6, <1>7, <1>8, <1>9, <1>10 DEF Next, Step

\* At the start nobody has read anything.
LEMMA InitKnowledge == Init => BindingInv
BY InitType DEF Init, BindingInv, KnowledgeIsPast, At, Unborn, NoJob

\* The knowledge of every process is the file or older than it; a hook that
\* records a turn holds the lock and has the file.
THEOREM KnowledgeInvariant == Spec => []BindingInv
BY InitKnowledge, NextKnowledge, PTL DEF Spec

\* Whoever changes a binding either replaces it, knowing it, or counts a turn.
LEMMA Mutation ==
  ASSUME BindingInv, [Next]_vars, NEW s \in Sessions, binding'[s] # binding[s]
  PROVE  \/ \E p \in Procs, t \in Runs \cup {Nil} :
              /\ job[p].s = s /\ job[p].saw = binding[s] /\ pc'[p] # pc[p]
              /\ binding'[s] = Retargeted(binding[s], t)
         \/ /\ binding[s].target # Nil
            /\ binding'[s] = [binding[s] EXCEPT !.revision = binding[s].revision + 1]
<1>1. binding \in [Sessions -> Binding] /\ pc \in [Procs -> Location]
      /\ \A p \in Procs : job[p].s \in Sessions
  BY JobTypes DEF BindingInv, TypeOK, FilesOK, JobsOK
<1> USE DEF contexts, bindings
<1>2. ASSUME NEW p \in Procs, Bind(p) \/ CloseUnbind(p) \/ Tombstone(p)
      PROVE  \E q \in Procs, t \in Runs \cup {Nil} :
               /\ job[q].s = s /\ job[q].saw = binding[s] /\ pc'[q] # pc[q]
               /\ binding'[s] = Retargeted(binding[s], t)
  <2>1. PICK t \in Runs \cup {Nil} : Rebind(p, t)
    BY <1>2, JobTypes DEF Bind, CloseUnbind, Tombstone, BindingInv
  <2>2. binding' = [binding EXCEPT ![job[p].s] = Retargeted(binding[job[p].s], t)]
        /\ job[p].saw = binding[job[p].s]
    BY <2>1, RebindWrites
  <2>3. job[p].s = s
    BY <1>1, <2>2
  <2>4. pc'[p] # pc[p]
    BY <1>1, <1>2 DEF Bind, CloseUnbind, Tombstone, Keep, Goto, Finish, At
  <2> QED BY <1>1, <2>2, <2>3, <2>4
<1>3. ASSUME NEW p \in Procs, Touch(p) \/ Observe(p)
      PROVE  /\ binding[s].target # Nil
             /\ binding'[s] = [binding[s] EXCEPT !.revision = binding[s].revision + 1]
  <2>1. binding' = [binding EXCEPT ![job[p].s] =
                      [binding[job[p].s] EXCEPT !.revision = binding[job[p].s].revision + 1]]
    BY <1>3, RecordWrites
  <2>2. job[p].s = s
    BY <1>1, <2>1
  <2>3. job[p].r \in Runs /\ binding[s].target = job[p].r
    BY <1>3, <2>2, JobTypes DEF Touch, Observe, SameForeground, BindingInv, KnowledgeIsPast,
      At, Unread
  <2> QED BY <1>1, <2>1, <2>2, <2>3, ConstantsAssumption
<1>4. ASSUME NEW p \in Procs, ~(Bind(p) \/ CloseUnbind(p) \/ Tombstone(p)),
             ~(Touch(p) \/ Observe(p)), Command(p) \/ Step(p) \/ Stop(p)
      PROVE  UNCHANGED binding
  BY <1>4 DEF Command, Start, Resume, Close, Update, Unbind, Hook, Migrate, Begin, Stop, Step,
    LoadPath, LoadBound, LoadMissing, Loaded, Save, SaveConflict, IndexAndRelease, BindRead,
    BindRefused, BindIndex, BindConflict, CloseCheck, Resolve, ResolveNothing,
    StaleObservation, MigrateExisting, MigrateMissing
<1>5. UNCHANGED vars => UNCHANGED binding
  BY DEF vars
<1> QED BY <1>2, <1>3, <1>4, <1>5 DEF Next

\* Every mutation counts one revision and at most one epoch: no write of a
\* binding is based on a file another process has replaced.
THEOREM CountedMutations == Spec => RevisionPerMutation
<1>1. ASSUME BindingInv, [Next]_vars, NEW s \in Sessions, binding'[s] # binding[s]
      PROVE  /\ binding'[s].revision = binding[s].revision + 1
             /\ binding'[s].epoch \in {binding[s].epoch, binding[s].epoch + 1}
  <2>1. binding[s] \in Binding
    BY <1>1 DEF BindingInv, TypeOK, FilesOK
  <2>2. CASE \E t \in Runs \cup {Nil} : binding'[s] = Retargeted(binding[s], t)
    BY <2>1, <2>2, RetargetedType
  <2>3. CASE binding'[s] = [binding[s] EXCEPT !.revision = binding[s].revision + 1]
    BY <2>1, <2>3 DEF Binding
  <2> QED BY <1>1, <2>2, <2>3, Mutation
<1>2. BindingInv /\ [Next]_vars =>
        [\A s \in Sessions : binding'[s] # binding[s] =>
           /\ binding'[s].revision = binding[s].revision + 1
           /\ binding'[s].epoch \in {binding[s].epoch, binding[s].epoch + 1}]_vars
  BY <1>1
<1> QED BY <1>2, KnowledgeInvariant, PTL DEF Spec, RevisionPerMutation

\* An epoch names one target: it changes exactly when the target does.
THEOREM EpochNamesTarget == Spec => EpochFollowsTarget
<1>1. ASSUME BindingInv, [Next]_vars, NEW s \in Sessions, binding'[s] # binding[s]
      PROVE  binding'[s].epoch = binding[s].epoch
               <=> binding[s].revision > 0 /\ binding'[s].target = binding[s].target
  <2>1. binding[s] \in Binding /\ (binding[s].revision = 0 => binding[s] = Unborn)
    BY <1>1 DEF BindingInv, TypeOK, FilesOK
  <2>2. CASE \E t \in Runs \cup {Nil} : binding'[s] = Retargeted(binding[s], t)
    BY <2>1, <2>2, RetargetedType
  <2>3. CASE /\ binding[s].target # Nil
             /\ binding'[s] = [binding[s] EXCEPT !.revision = binding[s].revision + 1]
    BY <2>1, <2>3 DEF Binding, Unborn
  <2> QED BY <1>1, <2>2, <2>3, Mutation
<1>2. BindingInv /\ [Next]_vars =>
        [\A s \in Sessions : binding'[s] # binding[s] =>
           (binding'[s].epoch = binding[s].epoch
              <=> binding[s].revision > 0 /\ binding'[s].target = binding[s].target)]_vars
  BY <1>1
<1> QED BY <1>2, KnowledgeInvariant, PTL DEF Spec, EpochFollowsTarget

\* Nobody moves a session away from a Context it did not know it was bound to.
THEOREM SwitchIsInformed == Spec => SwitchSawTarget
<1>1. ASSUME BindingInv, [Next]_vars, NEW s \in Sessions,
             binding'[s].target # binding[s].target
      PROVE  \E p \in Procs : pc'[p] # pc[p] /\ job[p].s = s /\ job[p].saw = binding[s]
  <2>1. binding[s] \in Binding
    BY <1>1 DEF BindingInv, TypeOK, FilesOK
  <2>2. binding'[s] # [binding[s] EXCEPT !.revision = binding[s].revision + 1]
    BY <1>1, <2>1 DEF Binding
  <2> QED BY <1>1, <2>2, Mutation
<1>2. BindingInv /\ [Next]_vars =>
        [\A s \in Sessions : binding'[s].target # binding[s].target =>
           \E p \in Procs : /\ pc'[p] # pc[p]
                            /\ job[p].s = s /\ job[p].saw = binding[s]]_vars
  BY <1>1
<1> QED BY <1>2, KnowledgeInvariant, PTL DEF Spec, SwitchSawTarget

-----------------------------------------------------------------------------
(* What processes have loaded of the Contexts *)

\* The Contexts stay and one process moves.
LEMMA ContextKept ==
  ASSUME ContextInv, TypeOK', NEW p \in Procs, UNCHANGED <<rev, status, applied>>,
         \A q \in Procs \ {p} : pc'[q] = pc[q] /\ job'[q] = job[q],
         CopyIsSound(p)', IndexNotAhead'
  PROVE  ContextInv'
<1>1. ASSUME NEW q \in Procs, q # p PROVE CopyIsSound(q)'
  <2>1. CopyIsSound(q)
    BY DEF ContextInv
  <2> QED BY <1>1, <2>1 DEF CopyIsSound, At
<1> QED BY <1>1 DEF ContextInv, NoLostUpdate

\* A command ends; nothing but locks and the index may change with it.
LEMMA ContextEnd ==
  ASSUME ContextInv, TypeOK', NEW p \in Procs, Finish(p), UNCHANGED <<rev, status, applied>>,
         IndexNotAhead'
  PROVE  ContextInv'
<1>1. pc'[p] = "idle" /\ \A q \in Procs \ {p} : pc'[q] = pc[q] /\ job'[q] = job[q]
  BY KnowsNothing DEF ContextInv
<1>2. CopyIsSound(p)'
  BY <1>1 DEF CopyIsSound, At
<1> QED BY <1>1, <1>2, ContextKept

\* A command begins, expecting no Context (start), any (want = Nil) or the
\* revision that is there.
LEMMA ContextBegin ==
  ASSUME ContextInv, TypeOK', NEW p \in Procs, NEW cmd \in Commands, NEW s \in Sessions,
         NEW r \in Runs \cup {Nil}, NEW want \in Nat \cup {Nil}, NEW loc \in Location,
         Begin(p, cmd, s, r, want, loc),
         want # Nil => loc = "load" /\ r \in Runs /\ want = rev[r],
         loc \in {"save", "bindRead", "unbind", "load", "resolve", "migrate"},
         loc = "save" => r \in Runs
  PROVE  ContextInv'
<1> DEFINE x == [NoJob(s) EXCEPT !.cmd = cmd, !.r = r, !.want = want,
                   !.saw = IF cmd = "start" THEN Unborn ELSE binding[s]]
<1>1. x.r = r /\ x.want = want /\ x.base = 0 /\ x.kept = {}
  BY DEF NoJob
<1>2. pc' = [pc EXCEPT ![p] = loc] /\ job' = [job EXCEPT ![p] = x]
      /\ UNCHANGED <<rev, status, applied, index>>
  BY DEF Begin, Goto, contexts
<1> HIDE DEF x
<1>3. pc'[p] = loc /\ job'[p] = x
      /\ \A q \in Procs \ {p} : pc'[q] = pc[q] /\ job'[q] = job[q]
  BY <1>2 DEF ContextInv, TypeOK, JobsOK
<1>4. \A q \in Runs : rev[q] \in Nat /\ (status[q] = "closed" => rev[q] > 0)
  BY DEF ContextInv, TypeOK, FilesOK
<1>5. {} = 1..0
  OBVIOUS
<1>6. CopyIsSound(p)'
  <2>1. CASE loc \in {"bindRead", "unbind", "resolve"}
    BY <1>3, <2>1 DEF CopyIsSound, At
  <2>2. CASE loc = "load"
    <3>1. want # Nil => r \in Runs /\ want <= rev[r]
      BY <1>4
    <3> QED BY <1>1, <1>2, <1>3, <2>2, <3>1 DEF CopyIsSound, At
  <2>3. CASE loc = "migrate"
    BY <1>1, <1>3, <2>3 DEF CopyIsSound, At
  <2>4. CASE loc = "save"
    <3>1. r \in Runs /\ want = Nil /\ rev[r] >= 0 /\ ~(rev[r] = 0 /\ status[r] = "closed")
      BY <1>4, <2>4
    <3> QED BY <1>1, <1>2, <1>3, <1>5, <2>4, <3>1 DEF CopyIsSound, At
  <2> QED BY <2>1, <2>2, <2>3, <2>4
<1>7. IndexNotAhead'
  BY <1>2 DEF ContextInv, IndexNotAhead
<1> QED BY <1>2, <1>3, <1>6, <1>7, ContextKept

\* A Context is loaded: the copy is the file.
LEMMA ContextLoaded ==
  ASSUME ContextInv, TypeOK', NEW p \in Procs, NEW r \in Runs,
         NEW loc \in {"save", "closeCheck", "index"}, Loaded(p, r, loc),
         job[p].want # Nil => job[p].want \in Nat /\ job[p].want <= rev[r]
  PROVE  ContextInv'
<1> DEFINE x == [job[p] EXCEPT !.r = r, !.base = rev[r],
                               !.kept = applied[r], !.stat = status[r]]
<1>1. job[p] \in Job /\ rev[r] \in Nat
  BY DEF ContextInv, TypeOK, FilesOK, JobsOK
<1>2. x.r = r /\ x.want = job[p].want /\ x.base = rev[r] /\ x.kept = applied[r]
      /\ x.stat = status[r]
  BY <1>1 DEF Job
<1>3. pc' = [pc EXCEPT ![p] = loc] /\ job' = [job EXCEPT ![p] = x]
      /\ UNCHANGED <<rev, status, applied, index>>
  BY DEF Loaded, Goto, contexts
<1> HIDE DEF x
<1>4. pc'[p] = loc /\ job'[p] = x
      /\ \A q \in Procs \ {p} : pc'[q] = pc[q] /\ job'[q] = job[q]
  BY <1>3 DEF ContextInv, TypeOK, JobsOK
<1>5. applied[r] = 1..rev[r]
  BY DEF ContextInv, NoLostUpdate
<1>6. CopyIsSound(p)'
  BY <1>1, <1>2, <1>3, <1>4, <1>5 DEF CopyIsSound, At
<1>7. IndexNotAhead'
  BY <1>3 DEF ContextInv, IndexNotAhead
<1> QED BY <1>3, <1>4, <1>6, <1>7, ContextKept

\* A process moves on with the copy it has, or with another status in it.
LEMMA ContextMoves ==
  ASSUME ContextInv, TypeOK', NEW p \in Procs,
         CloseCheck(p) \/ CloseUnbind(p) \/ BindRead(p) \/ Bind(p) \/ MigrateMissing(p)
         \/ Resolve(p) \/ Touch(p),
         ~Finish(p)
  PROVE  ContextInv'
<1>1. job[p] \in Job /\ job \in [Procs -> Job] /\ pc \in [Procs -> Location]
      /\ job[p].want \in Nat \cup {Nil} /\ CopyIsSound(p)
      /\ job[p].r \in Runs \cup {Nil} /\ (At(p, "migrate") => job[p].r \in Runs)
      /\ \A q \in Runs : rev[q] \in Nat /\ (status[q] = "closed" => rev[q] > 0)
  BY JobTypes DEF ContextInv, TypeOK, FilesOK, JobsOK, Job, At, Unread
<1>2. UNCHANGED <<rev, status, applied, index>>
  BY DEF CloseCheck, CloseUnbind, BindRead, Bind, MigrateMissing, Resolve, Touch, contexts
<1>3. \A q \in Procs \ {p} : pc'[q] = pc[q] /\ job'[q] = job[q]
  BY <1>1 DEF CloseCheck, CloseUnbind, BindRead, Bind, MigrateMissing, Resolve, Touch,
    Goto, Keep
<1>4. CopyIsSound(p)'
  <2>1. CASE CloseCheck(p)
    <3>1. At(p, "closeCheck") /\ pc'[p] = "closeUnbind" /\ job'[p] = job[p]
      BY <1>1, <2>1 DEF CloseCheck, Keep, Goto
    <3> QED BY <1>1, <1>2, <3>1 DEF CopyIsSound, At
  <2>2. CASE CloseUnbind(p)
    <3>1. At(p, "closeUnbind") /\ pc'[p] = "save"
          /\ job'[p] = [job[p] EXCEPT !.stat = "closed"]
      BY <1>1, <2>2 DEF CloseUnbind, Goto
    <3>2. job'[p].base = job[p].base /\ job'[p].kept = job[p].kept
          /\ job'[p].want = job[p].want /\ job'[p].r = job[p].r /\ job'[p].stat = "closed"
      BY <1>1, <3>1 DEF Job
    <3> QED BY <1>1, <1>2, <3>1, <3>2 DEF CopyIsSound, At
  <2>3. CASE BindRead(p)
    <3>1. pc'[p] = "bind" /\ job'[p].stat = "active"
      BY <1>1, <2>3 DEF BindRead, Goto, Job
    <3> QED BY <3>1 DEF CopyIsSound, At
  <2>4. CASE Bind(p)
    <3>1. At(p, "bind") /\ pc'[p] = "bindIndex" /\ job'[p] = job[p]
      BY <1>1, <2>4 DEF Bind, Keep, Goto
    <3> QED BY <1>1, <3>1 DEF CopyIsSound, At
  <2>5. CASE MigrateMissing(p)
    <3>1. At(p, "migrate") /\ pc'[p] = "save"
          /\ job'[p] = [job[p] EXCEPT !.stat = LegacyStatus]
      BY <1>1, <2>5 DEF MigrateMissing, Goto
    <3>2. job'[p].base = 0 /\ job'[p].kept = {} /\ job'[p].want = Nil
          /\ job'[p].r = job[p].r
      BY <1>1, <3>1 DEF Job, CopyIsSound, At
    <3>3. {} = 1..0
      OBVIOUS
    <3>4. LET r == job[p].r IN rev[r] >= 0 /\ ~(rev[r] = 0 /\ status[r] = "closed")
      BY <1>1, <3>1
    <3> QED BY <1>2, <3>1, <3>2, <3>3, <3>4 DEF CopyIsSound, At
  <2>6. CASE Resolve(p) \/ Touch(p)
    BY <1>1, <2>6 DEF Resolve, Touch, Goto, Keep, CopyIsSound, At
  <2> QED BY <2>1, <2>2, <2>3, <2>4, <2>5, <2>6
<1>5. IndexNotAhead'
  BY <1>2 DEF ContextInv, IndexNotAhead
<1> QED BY <1>2, <1>3, <1>4, <1>5, ContextKept

\* What a commit writes: the next revision, with every earlier mutation in it.
LEMMA SaveWrites ==
  ASSUME ContextInv, NEW p \in Procs, Save(p)
  PROVE  LET r == job[p].r
             n == rev[r] + 1
         IN  /\ r \in Runs /\ rev[r] \in Nat /\ job[p].stat \in Statuses
             /\ rev' = [rev EXCEPT ![r] = n]
             /\ status' = [status EXCEPT ![r] = job[p].stat]
             /\ applied' = [applied EXCEPT ![r] = 1..n]
             /\ status[r] = "closed" => job[p].stat = "closed"
<1>1. /\ job[p] \in Job /\ job[p].r \in Runs /\ rev[job[p].r] \in Nat
      /\ job[p].base \in Nat /\ job[p].want \in Nat \cup {Nil} /\ job[p].stat \in Statuses
  BY JobTypes DEF ContextInv, TypeOK, FilesOK, JobsOK, Job, Save, At, Unread
<1>2. CopyIsSound(p) /\ At(p, "save") /\ rev[job[p].r] = Expected(p)
  BY DEF ContextInv, Save
<1>3. job[p].base = rev[job[p].r] /\ job[p].kept = 1..job[p].base
  BY <1>1, <1>2 DEF CopyIsSound, Expected, At
<1>4. \A n \in Nat : (1..n) \cup {n + 1} = 1..(n + 1)
  OBVIOUS
<1>5. job[p].kept \cup {rev[job[p].r] + 1} = 1..(rev[job[p].r] + 1)
  BY <1>1, <1>3, <1>4
<1>6. status[job[p].r] = "closed" => job[p].stat = "closed"
  BY <1>2, <1>3 DEF CopyIsSound, At
<1> QED BY <1>1, <1>5, <1>6 DEF Save

\* The one write of the context, by the command that holds its lock.
LEMMA ContextSave ==
  ASSUME ContextInv, TypeOK', NEW p \in Procs, Save(p)
  PROVE  ContextInv'
<1> DEFINE t == job[p].r
<1>1. /\ t \in Runs /\ rev[t] \in Nat
      /\ rev' = [rev EXCEPT ![t] = rev[t] + 1]
      /\ status' = [status EXCEPT ![t] = job[p].stat]
      /\ applied' = [applied EXCEPT ![t] = 1..(rev[t] + 1)]
      /\ status[t] = "closed" => job[p].stat = "closed"
  BY SaveWrites
<1>2. /\ rev \in [Runs -> Nat] /\ status \in [Runs -> Statuses]
      /\ applied \in [Runs -> SUBSET Nat] /\ pc \in [Procs -> Location]
  BY DEF ContextInv, TypeOK, FilesOK, JobsOK
<1>3. pc' = [pc EXCEPT ![p] = "index"] /\ job' = job /\ index' = index
  BY DEF Save, Keep, Goto
<1>4. NoLostUpdate'
  BY <1>1, <1>2 DEF ContextInv, NoLostUpdate
<1>5. IndexNotAhead'
  BY <1>1, <1>2, <1>3 DEF ContextInv, IndexNotAhead
<1>6. \A r \in Runs : status'[r] = "closed" => rev'[r] > 0
  BY <1>1, <1>2 DEF ContextInv
<1>7. CopyIsSound(p)'
  BY <1>1, <1>2, <1>3 DEF CopyIsSound, At
<1>8. ASSUME NEW q \in Procs, q # p PROVE CopyIsSound(q)'
  <2> DEFINE u == job[q].r
  <2>1. CopyIsSound(q) /\ pc'[q] = pc[q] /\ job'[q] = job[q]
        /\ job[q].base \in Nat /\ job[q].want \in Nat \cup {Nil}
    BY <1>3, <1>8 DEF ContextInv, TypeOK, JobsOK, Job
  <2>2. /\ u \in Runs => rev'[u] >= rev[u] /\ rev[u] \in Nat /\ rev'[u] \in Nat
        /\ u \in Runs /\ rev'[u] = rev[u] => status'[u] = status[u]
        /\ u \in Runs /\ status[u] = "closed" => status'[u] = "closed"
    BY <1>1, <1>2
  <2>3. CASE At(q, "load")
    BY <2>1, <2>2, <2>3, ConstantsAssumption DEF CopyIsSound, At
  <2>4. CASE At(q, "migrate")
    BY <2>1, <2>4 DEF CopyIsSound, At
  <2>5. CASE pc[q] \in {"save", "closeCheck", "closeUnbind"}
    <3>1. u \in Runs
      BY <2>5, JobTypes DEF ContextInv, Unread
    <3> QED BY <2>1, <2>2, <2>5, <3>1 DEF CopyIsSound, At
  <2>6. CASE At(q, "index")
    <3>1. u \in Runs
      BY <2>6, JobTypes DEF ContextInv, Unread, At
    <3> QED BY <2>1, <2>2, <2>6, <3>1 DEF CopyIsSound, At
  <2>7. CASE pc[q] \notin {"load", "migrate", "save", "closeCheck", "closeUnbind", "index"}
    BY <2>1, <2>7 DEF CopyIsSound, At
  <2> QED BY <2>3, <2>4, <2>5, <2>6, <2>7 DEF At
<1> QED BY <1>4, <1>5, <1>6, <1>7, <1>8 DEF ContextInv

\* Every step keeps the context's invariant.
LEMMA NextContext == ContextInv /\ [Next]_vars => ContextInv'
<1> SUFFICES ASSUME ContextInv, [Next]_vars PROVE ContextInv'
  OBVIOUS
<1>1. TypeOK /\ TypeOK' /\ IndexNotAhead
  BY NextType DEF ContextInv
<1> USE DEF contexts, bindings
<1>2. ASSUME NEW p \in Procs, Command(p) PROVE ContextInv'
  <2> USE DEF Commands, Location
  <2>1. ASSUME NEW s \in Sessions, NEW r \in Runs, Start(p, s, r) \/ Resume(p, s, r)
        PROVE  ContextInv'
    BY <1>1, <2>1, ContextBegin DEF Start, Resume
  <2>2. ASSUME NEW s \in Sessions, NEW r \in Runs \cup {Nil}, Close(p, s, r)
        PROVE  ContextInv'
    BY <1>1, <2>2, ContextBegin DEF Close
  <2>3. ASSUME NEW s \in Sessions, NEW r \in Runs \cup {Nil}, Update(p, s, r)
        PROVE  ContextInv'
    <3>1. PICK want \in {Nil} \cup {rev[q] : q \in {r} \ {Nil}} :
            Begin(p, "update", s, r, want, "load")
      BY <2>3 DEF Update
    <3>2. want = Nil \/ (r \in Runs /\ want = rev[r] /\ want \in Nat)
      BY <1>1, <3>1 DEF TypeOK, FilesOK
    <3> QED BY <1>1, <3>1, <3>2, ContextBegin
  <2>4. ASSUME NEW s \in Sessions, Unbind(p, s) \/ Hook(p, s)
        PROVE  ContextInv'
    BY <1>1, <2>4, ContextBegin DEF Unbind, Hook
  <2>5. ASSUME NEW s \in Sessions, Migrate(p, s) PROVE ContextInv'
    <3>1. Legacy \in Runs
      BY <2>5, ConstantsAssumption DEF Migrate
    <3> QED BY <1>1, <2>5, <3>1, ContextBegin DEF Migrate
  <2> QED BY <1>2, <2>1, <2>2, <2>3, <2>4, <2>5 DEF Command
<1>3. ASSUME NEW p \in Procs,
             \/ LoadMissing(p) \/ SaveConflict(p) \/ BindRefused(p) \/ BindConflict(p)
             \/ ResolveNothing(p) \/ StaleObservation(p)
             \/ Tombstone(p) \/ Observe(p) \/ Stop(p)
             \/ CloseCheck(p) /\ Finish(p)
      PROVE  ContextInv'
  <2>1. Finish(p) /\ UNCHANGED <<rev, status, applied, index>>
    BY <1>1, <1>3, EndType DEF Tombstone, Observe, Stop, CloseCheck
  <2>2. IndexNotAhead'
    BY <1>1, <2>1 DEF IndexNotAhead
  <2> QED BY <1>1, <2>1, <2>2, ContextEnd
<1>4. ASSUME NEW p \in Procs, LoadPath(p) \/ LoadBound(p) \/ MigrateExisting(p)
      PROVE  ContextInv'
  <2>1. AfterLoad(p) \in {"save", "closeCheck", "index"}
    BY DEF AfterLoad
  <2>2. job[p].want \in Nat \cup {Nil} /\ CopyIsSound(p)
    BY <1>1 DEF ContextInv, TypeOK, JobsOK, Job
  <2>3. CASE LoadPath(p)
    <3>1. job[p].r \in Runs
      BY <1>1, <2>3, JobTypes DEF LoadPath
    <3>2. job[p].want # Nil => job[p].want \in Nat /\ job[p].want <= rev[job[p].r]
      BY <2>2, <2>3 DEF LoadPath, CopyIsSound
    <3> QED BY <1>1, <2>1, <2>3, <3>1, <3>2, ContextLoaded DEF LoadPath
  <2>4. CASE LoadBound(p)
    <3>1. binding[job[p].s].target \in Runs
      BY <1>1, <2>4, JobTypes DEF LoadBound, Foreground
    <3>2. job[p].want = Nil
      BY <2>2, <2>4, ConstantsAssumption DEF LoadBound, CopyIsSound
    <3> QED BY <1>1, <2>1, <2>4, <3>1, <3>2, ContextLoaded DEF LoadBound
  <2>5. CASE MigrateExisting(p)
    <3>1. Legacy \in Runs
      BY <1>1, <2>5, JobTypes DEF MigrateExisting, At, Unread
    <3>2. job[p].want = Nil
      BY <2>2, <2>5 DEF MigrateExisting, CopyIsSound
    <3> QED BY <1>1, <2>5, <3>1, <3>2, ContextLoaded DEF MigrateExisting
  <2> QED BY <1>4, <2>3, <2>4, <2>5
<1>5. ASSUME NEW p \in Procs, IndexAndRelease(p) \/ BindIndex(p) PROVE ContextInv'
  <2>1. /\ job[p].r \in Runs /\ CopyIsSound(p) /\ index \in [Runs -> Statuses]
        /\ pc \in [Procs -> Location]
        /\ UNCHANGED <<rev, status, applied>> /\ Indexed(job[p].r, job[p].stat)
    BY <1>1, <1>5, JobTypes DEF ContextInv, TypeOK, FilesOK, JobsOK, IndexAndRelease,
      BindIndex, At, Unread
  <2>2. job[p].stat = "closed" => status[job[p].r] = "closed"
    BY <1>5, <2>1 DEF CopyIsSound, IndexAndRelease, BindIndex, At
  <2>3. IndexNotAhead'
    BY <1>1, <2>1, <2>2 DEF Indexed, IndexNotAhead
  <2>4. CASE Finish(p)
    BY <1>1, <2>1, <2>3, <2>4, ContextEnd
  <2>5. CASE Keep(p, "bindRead")
    <3>1. pc'[p] = "bindRead" /\ \A q \in Procs \ {p} : pc'[q] = pc[q] /\ job'[q] = job[q]
      BY <2>1, <2>5 DEF Keep, Goto
    <3>2. CopyIsSound(p)'
      BY <3>1 DEF CopyIsSound, At
    <3> QED BY <1>1, <2>1, <2>3, <3>1, <3>2, ContextKept
  <2> QED BY <1>5, <2>4, <2>5 DEF IndexAndRelease, BindIndex
<1>6. ASSUME NEW p \in Procs,
             CloseCheck(p) \/ CloseUnbind(p) \/ BindRead(p) \/ Bind(p) \/ MigrateMissing(p)
             \/ Resolve(p) \/ Touch(p),
             ~Finish(p)
      PROVE  ContextInv'
  BY <1>1, <1>6, ContextMoves
<1>7. ASSUME NEW p \in Procs,
             CloseUnbind(p) \/ BindRead(p) \/ Bind(p) \/ MigrateMissing(p)
             \/ Resolve(p) \/ Touch(p)
      PROVE  ~Finish(p)
  <2>1. pc \in [Procs -> Location]
    BY <1>1 DEF TypeOK, JobsOK
  <2> QED BY <1>7, <2>1 DEF CloseUnbind, BindRead, Bind, MigrateMissing, Resolve, Touch,
        Finish, Goto, Keep
<1>8. ASSUME UNCHANGED vars PROVE ContextInv'
  BY <1>1, <1>8 DEF vars, ContextInv, NoLostUpdate, IndexNotAhead, CopyIsSound, At
<1> QED BY <1>1, <1>2, <1>3, <1>4, <1>5, <1>6, <1>7, <1>8, ContextSave DEF Next, Step

\* The context's invariant holds of the initial state.
LEMMA InitContext == Init => ContextInv
<1>1. {} = 1..0
  OBVIOUS
<1> QED BY <1>1, InitType DEF Init, ContextInv, NoLostUpdate, IndexNotAhead, CopyIsSound, At,
      NoJob

\* Every copy waiting to be written is a revision the file has had, whole.
THEOREM ContextInvariant == Spec => []ContextInv
BY InitContext, NextContext, PTL DEF Spec

\* No committed mutation of a Context is ever lost.
THEOREM UpdatesAreKept == Spec => []NoLostUpdate
<1>1. ContextInv => NoLostUpdate
  BY DEF ContextInv
<1> QED BY <1>1, ContextInvariant, PTL

\* The index never lists as closed a Context that is not.
THEOREM IndexIsBehind == Spec => []IndexNotAhead
<1>1. ContextInv => IndexNotAhead
  BY DEF ContextInv
<1> QED BY <1>1, ContextInvariant, PTL

\* Nothing reopens a closed Context.
THEOREM ClosedStaysClosed == Spec => ClosedIsTerminal
<1>1. ASSUME ContextInv, [Next]_vars, NEW r \in Runs, status[r] = "closed"
      PROVE  status'[r] = "closed"
  <2>1. ASSUME NEW p \in Procs, Save(p) PROVE status'[r] = "closed"
    <3>1. status \in [Runs -> Statuses]
      BY <1>1 DEF ContextInv, TypeOK, FilesOK
    <3> QED BY <1>1, <2>1, <3>1, SaveWrites
  <2>2. ASSUME NEW p \in Procs, ~Save(p), Command(p) \/ Step(p) \/ Stop(p)
        PROVE  UNCHANGED status
    BY <2>2 DEF Command, Start, Resume, Close, Update, Unbind, Hook, Migrate, Begin, Stop,
      Step, LoadPath, LoadBound, LoadMissing, Loaded, SaveConflict, IndexAndRelease,
      BindRead, BindRefused, Bind, BindIndex, Tombstone, BindConflict, CloseCheck,
      CloseUnbind, Resolve, ResolveNothing, Touch, Observe, StaleObservation,
      MigrateExisting, MigrateMissing, contexts
  <2>3. UNCHANGED vars => UNCHANGED status
    BY DEF vars
  <2> QED BY <1>1, <2>1, <2>2, <2>3 DEF Next
<1>2. ContextInv /\ [Next]_vars =>
        [\A r \in Runs : status[r] = "closed" => status'[r] = "closed"]_vars
  BY <1>1
<1> QED BY <1>2, ContextInvariant, PTL DEF Spec, ClosedIsTerminal

================================================================================
