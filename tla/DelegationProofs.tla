---------------------------- MODULE DelegationProofs ----------------------------
(***************************************************************************)
(* Machine-checked theorems about DelegationRun, for every set of workers, *)
(* waves and rounds, every budget and every caller, and about the          *)
(* publication of its fan-in receipts (Publication, the instance of        *)
(* FanInPublication in MCDelegation), for any number of processes.         *)
(***************************************************************************)
EXTENDS MCDelegation, FiniteSetTheorems, TLAPS

\* The aggregate of a wave's receipts closes it.
LEMMA AggregateCloses ==
  ASSUME NEW ts, NEW cs
  PROVE  Aggregate(ts, cs) \in ClosedStages
BY DEF Aggregate, ClosedStages

\* A wave passes only on completed workers whose threads were all released.
LEMMA AggregatePasses ==
  ASSUME NEW ts, NEW cs, Aggregate(ts, cs) = "passed"
  PROVE  /\ {t.status : t \in ts} = {"completed"}
         /\ CleanupRequired(ts) = {} \/ {c.status : c \in cs} = {"released"}
BY DEF Aggregate

Stages == {"none", "pending", "active"} \cup ClosedStages
WaveRecord == [stage : Stages, deps : SUBSET Waves, workers : SUBSET Workers, ordinal : Nat]

\* Another stage leaves everything else of the waves alone.
LEMMA Restaged ==
  ASSUME NEW f \in [Waves -> WaveRecord], NEW v \in Waves, NEW s \in Stages
  PROVE  LET g == [f EXCEPT ![v].stage = s] IN
         /\ g \in [Waves -> WaveRecord]
         /\ \A u \in Waves : /\ g[u].stage = IF u = v THEN s ELSE f[u].stage
                             /\ g[u].deps = f[u].deps
                             /\ g[u].workers = f[u].workers
                             /\ g[u].ordinal = f[u].ordinal
                             /\ u # v => g[u] = f[u]
<1> DEFINE r == [f[v] EXCEPT !.stage = s]
<1>1. f[v] \in WaveRecord
  OBVIOUS
<1>2. /\ r \in WaveRecord /\ r.stage = s /\ r.deps = f[v].deps
      /\ r.workers = f[v].workers /\ r.ordinal = f[v].ordinal
  BY <1>1 DEF WaveRecord
<1>3. [f EXCEPT ![v].stage = s] = [f EXCEPT ![v] = r]
  BY <1>1 DEF WaveRecord
<1> HIDE DEF r
<1> QED BY <1>2, <1>3

--------------------------------------------------------------------------------
(* The vocabulary                                                               *)

\* Receipts of workers and waves are of their vocabulary.
LEMMA ReportTypes ==
  ASSUME NEW w \in Workers, TypeOK, ReportTerminal(w) \/ ReportCleanup(w)
  PROVE  TypeOK'
<1>1. ASSUME NEW v \in Waves, NEW id \in TerminalIds[w], NEW status \in Outcomes,
             NEW formed \in Forms, RecordTerminal(v, w, id, status, formed)
      PROVE  TypeOK'
  <2>1. [id |-> id, wave |-> v, worker |-> w, status |-> status, formed |-> formed]
          \in TerminalReceipt
    BY ConstantsAssumption DEF TerminalReceipt
  <2>2. terminals' \subseteq TerminalReceipt
    BY <1>1, <2>1 DEF RecordTerminal, TypeOK
  <2>3. status \in WorkerStatuses
    BY ConstantsAssumption DEF WorkerStatuses
  <2> QED BY <1>1, <2>2, <2>3 DEF RecordTerminal, TypeOK, local
<1>2. ASSUME NEW v \in Waves, NEW id \in CleanupIds[w], NEW status \in CleanupStatuses,
             NEW ids \in Leases[w], RecordCleanup(v, w, id, status, ids)
      PROVE  TypeOK'
  <2>1. w \in Threads
    BY <1>2 DEF RecordCleanup
  <2>2. [id |-> id, wave |-> v, worker |-> w, status |-> status, resources |-> ids]
          \in CleanupReceipt
    BY <2>1 DEF CleanupReceipt
  <2>3. cleanups' \subseteq CleanupReceipt
    BY <1>2, <2>2 DEF RecordCleanup, TypeOK
  <2> QED BY <1>2, <2>3 DEF RecordCleanup, TypeOK, local
<1> QED BY <1>1, <1>2 DEF ReportTerminal, ReportCleanup

\* Cancelling a round leaves a sequence of rounds that is no longer.
LEMMA CancelType ==
  ASSUME rounds \in Seq(Rounds \cup Waves), CancelRound
  PROVE  rounds' \in Seq(Rounds \cup Waves) /\ Len(rounds') <= Len(rounds)
<1>1. CASE rounds # <<>> /\ rounds[Len(rounds)] = opening
  <2>1. Len(rounds) \in Nat /\ Len(rounds) >= 1
    BY <1>1
  <2> QED BY <1>1, <2>1 DEF CancelRound
<1>2. CASE ~(rounds # <<>> /\ rounds[Len(rounds)] = opening)
  BY <1>2 DEF CancelRound
<1> QED BY <1>1, <1>2

\* Every command keeps the ledger in its vocabulary.
LEMMA TypeStep ==
  ASSUME TypeOK, [Next]_vars
  PROVE  TypeOK'
<1>1. ASSUME NEW ws \in SUBSET Workers,
             Register(ws) \/ Launch(ws) \/ LaunchSettled(ws) \/ LaunchRolledBack(ws)
      PROVE  TypeOK'
  BY <1>1 DEF TypeOK, Register, Launch, LaunchSettled, LaunchRolledBack, Reserve,
              WorkerStatuses, receipts, local
<1>2. ASSUME NEW w \in Workers, Unregister(w) PROVE TypeOK'
  BY <1>2 DEF TypeOK, Unregister, WorkerStatuses, receipts, local
<1>3. ASSUME NEW w \in Workers, NEW status \in Outcomes, Finish(w, status) PROVE TypeOK'
  BY <1>3, ConstantsAssumption DEF TypeOK, Finish, WorkerStatuses, receipts, local
<1>4. ASSUME NEW w \in Workers, ReportTerminal(w) \/ ReportCleanup(w) PROVE TypeOK'
  BY <1>4, ReportTypes
<1>5. ASSUME NEW r \in Rounds, OpenRound(r) PROVE TypeOK'
  <2>1. rounds' \in Seq(Rounds \cup Waves)
    BY <1>5 DEF TypeOK, OpenRound
  <2> QED BY <1>5, <2>1 DEF TypeOK, OpenRound, receipts
<1>6. ASSUME RoundWritten PROVE TypeOK'
  BY <1>6 DEF TypeOK, RoundWritten, receipts
<1>7. ASSUME RoundWriteFails PROVE TypeOK'
  <2>1. rounds' \in Seq(Rounds \cup Waves)
    BY <1>7, CancelType DEF TypeOK, RoundWriteFails
  <2> QED BY <1>7, <2>1 DEF TypeOK, RoundWriteFails, receipts
<1>8. ASSUME RoundOpenerDies PROVE TypeOK'
  BY <1>8 DEF TypeOK, RoundOpenerDies, receipts
<1>9. ASSUME NEW v \in Waves, NEW ws \in SUBSET Workers, NEW ds \in SUBSET Waves,
             AddWave(v, ws, ds)
      PROVE  TypeOK'
  <2>1. Cardinality(Declared) + 1 \in Nat
    BY ConstantsAssumption, FS_Subset, FS_CardinalityType DEF Declared
  <2>2. rounds' \in Seq(Rounds \cup Waves)
    BY <1>9 DEF TypeOK, AddWave
  <2> QED BY <1>9, <2>1, <2>2 DEF TypeOK, AddWave, receipts, local
<1>10. ASSUME NEW v \in Waves, OpenWave(v) PROVE TypeOK'
  <2>1. wave' = [wave EXCEPT ![v].stage = "active"]
    BY <1>10 DEF OpenWave
  <2>2. worker' \in [Workers -> WorkerStatuses]
    BY <1>10 DEF TypeOK, OpenWave, Reserve, WorkerStatuses
  <2>3. UNCHANGED <<rounds, receipts, local>>
    BY <1>10 DEF OpenWave
  <2>4. wave' \in [Waves -> WaveRecord]
    BY <2>1, Restaged DEF TypeOK, WaveRecord, Stages
  <2> QED BY <2>2, <2>3, <2>4 DEF TypeOK, receipts, local, WaveRecord, Stages
<1>11. ASSUME NEW v \in Waves, FanIn(v) PROVE TypeOK'
  <2> DEFINE status == Aggregate(TerminalsOf(v), CleanupsOf(v))
  <2>1. status \in ClosedStages
    BY AggregateCloses
  <2>2. /\ wave' = [wave EXCEPT ![v].stage = status]
        /\ UNCHANGED <<worker, rounds, terminals, cleanups, local>>
    BY <1>11 DEF FanIn
  <2>3. PICK f : f.id = v /\ f.wave = v /\ f.status = status /\ fanIns' = fanIns \cup {f}
    BY <1>11 DEF FanIn
  <2> HIDE DEF status
  <2>4. wave' \in [Waves -> WaveRecord]
    BY <2>1, <2>2, Restaged DEF TypeOK, WaveRecord, Stages
  <2> QED BY <2>1, <2>2, <2>3, <2>4 DEF TypeOK, local, WaveRecord, Stages
<1>12. CASE UNCHANGED vars
  BY <1>12 DEF TypeOK, vars
<1> QED BY <1>1, <1>2, <1>3, <1>4, <1>5, <1>6, <1>7, <1>8, <1>9, <1>10, <1>11, <1>12 DEF Next

\* The ledger stays in its vocabulary, for every caller.
THEOREM TypeCorrect == Spec => []TypeOK
<1>1. Init => TypeOK
  BY DEF Init, TypeOK, WorkerStatuses
<1> QED BY <1>1, TypeStep, PTL DEF Spec

--------------------------------------------------------------------------------
(* What stays                                                                   *)

\* A command leaves the waves alone, or declares, opens or closes one of them.
LEMMA WaveSteps ==
  ASSUME TypeOK, [Next]_vars
  PROVE  \/ wave' = wave
         \/ \E v \in Waves, ws \in SUBSET Workers, ds \in SUBSET Waves : AddWave(v, ws, ds)
         \/ \E v \in Waves : OpenWave(v) \/ FanIn(v)
<1>1. ASSUME NEW ws \in SUBSET Workers,
             Register(ws) \/ Launch(ws) \/ LaunchSettled(ws) \/ LaunchRolledBack(ws)
      PROVE  wave' = wave
  BY <1>1 DEF Register, Launch, LaunchSettled, LaunchRolledBack, receipts
<1>2. ASSUME NEW w \in Workers,
             \/ Unregister(w) \/ ReportTerminal(w) \/ ReportCleanup(w)
             \/ \E status \in Outcomes : Finish(w, status)
      PROVE  wave' = wave
  BY <1>2 DEF Unregister, ReportTerminal, RecordTerminal, ReportCleanup, RecordCleanup, Finish
<1>3. ASSUME \/ \E r \in Rounds : OpenRound(r)
             \/ RoundWritten \/ RoundWriteFails \/ RoundOpenerDies \/ UNCHANGED vars
      PROVE  wave' = wave
  BY <1>3 DEF OpenRound, RoundWritten, RoundWriteFails, RoundOpenerDies, vars
<1> QED BY <1>1, <1>2, <1>3 DEF Next

\* Whoever is terminal stays so: every command that gives a worker a status looks for
\* another one first.
LEMMA TerminalStays ==
  ASSUME TypeOK, [Next]_vars, NEW x \in Workers, worker[x] \in TerminalStatuses
  PROVE  worker'[x] = worker[x]
<1> worker[x] \notin {"absent", "registered", "launched"}
  BY DEF TerminalStatuses
<1> USE DEF TypeOK
<1>1. ASSUME NEW ws \in SUBSET Workers,
             Register(ws) \/ Launch(ws) \/ LaunchSettled(ws) \/ LaunchRolledBack(ws)
      PROVE  worker'[x] = worker[x]
  BY <1>1 DEF Register, Launch, LaunchSettled, LaunchRolledBack, Reserve, Known, With
<1>2. ASSUME NEW w \in Workers,
             \/ Unregister(w) \/ ReportTerminal(w) \/ ReportCleanup(w)
             \/ \E status \in Outcomes : Finish(w, status)
      PROVE  worker'[x] = worker[x]
  BY <1>2 DEF Unregister, ReportTerminal, RecordTerminal, ReportCleanup, RecordCleanup, Finish
<1>3. ASSUME \/ \E r \in Rounds : OpenRound(r)
             \/ RoundWritten \/ RoundWriteFails \/ RoundOpenerDies \/ UNCHANGED vars
      PROVE  worker'[x] = worker[x]
  BY <1>3 DEF OpenRound, RoundWritten, RoundWriteFails, RoundOpenerDies, vars
<1>4. ASSUME NEW v \in Waves,
             \/ \E ws \in SUBSET Workers, ds \in SUBSET Waves : AddWave(v, ws, ds)
             \/ OpenWave(v) \/ FanIn(v)
      PROVE  worker'[x] = worker[x]
  BY <1>4 DEF AddWave, OpenWave, Reserve, With, FanIn
<1> QED BY <1>1, <1>2, <1>3, <1>4 DEF Next

\* No command takes a receipt back.
LEMMA ReceiptsStay ==
  ASSUME [Next]_vars
  PROVE  terminals \subseteq terminals' /\ cleanups \subseteq cleanups' /\ fanIns \subseteq fanIns'
<1>1. ASSUME NEW ws \in SUBSET Workers,
             Register(ws) \/ Launch(ws) \/ LaunchSettled(ws) \/ LaunchRolledBack(ws)
      PROVE  UNCHANGED receipts
  BY <1>1 DEF Register, Launch, LaunchSettled, LaunchRolledBack, receipts
<1>2. ASSUME NEW w \in Workers,
             Unregister(w) \/ \E status \in Outcomes : Finish(w, status)
      PROVE  UNCHANGED receipts
  BY <1>2 DEF Unregister, Finish, receipts
<1>3. ASSUME NEW w \in Workers, ReportTerminal(w) \/ ReportCleanup(w)
      PROVE  terminals \subseteq terminals' /\ cleanups \subseteq cleanups' /\ fanIns \subseteq fanIns'
  BY <1>3 DEF ReportTerminal, RecordTerminal, ReportCleanup, RecordCleanup
<1>4. ASSUME \/ \E r \in Rounds : OpenRound(r)
             \/ RoundWritten \/ RoundWriteFails \/ RoundOpenerDies \/ UNCHANGED vars
      PROVE  UNCHANGED receipts
  BY <1>4 DEF OpenRound, RoundWritten, RoundWriteFails, RoundOpenerDies, vars, receipts
<1>5. ASSUME NEW v \in Waves,
             \/ \E ws \in SUBSET Workers, ds \in SUBSET Waves : AddWave(v, ws, ds)
             \/ OpenWave(v)
      PROVE  UNCHANGED receipts
  BY <1>5 DEF AddWave, OpenWave, receipts
<1>6. ASSUME NEW v \in Waves, FanIn(v)
      PROVE  terminals \subseteq terminals' /\ cleanups \subseteq cleanups' /\ fanIns \subseteq fanIns'
  BY <1>6 DEF FanIn
<1> QED BY <1>1, <1>2, <1>3, <1>4, <1>5, <1>6 DEF Next, receipts

\* A wave that is open gets another stage and keeps the rest.
LEMMA ClosingStep ==
  ASSUME TypeOK, NEW v \in Waves, FanIn(v)
  PROVE  /\ wave[v].stage = "active"
         /\ \E s \in ClosedStages : wave' = [wave EXCEPT ![v].stage = s]
<1> DEFINE s == Aggregate(TerminalsOf(v), CleanupsOf(v))
<1>1. wave[v].stage = "active" /\ wave' = [wave EXCEPT ![v].stage = s]
  BY DEF FanIn
<1>2. s \in ClosedStages
  BY AggregateCloses
<1> HIDE DEF s
<1> QED BY <1>1, <1>2

\* Receipts, closed waves, terminal workers, and the members, dependencies and order of
\* declared waves are for good (delegation_wave.py, delegation_run.py:199).
THEOREM HistoryStays == Spec => HistoryIsFinal
<1> DEFINE Keeps ==
      /\ terminals \subseteq terminals' /\ cleanups \subseteq cleanups' /\ fanIns \subseteq fanIns'
      /\ \A w \in Workers : worker[w] \in TerminalStatuses => worker'[w] = worker[w]
      /\ \A v \in Waves :
           /\ wave[v].stage \in ClosedStages => wave'[v] = wave[v]
           /\ v \in Declared => wave'[v] = [wave[v] EXCEPT !.stage = wave'[v].stage]
<1>1. TypeOK /\ [Next]_vars => Keeps
  <2> SUFFICES ASSUME TypeOK, [Next]_vars PROVE Keeps
    OBVIOUS
  <2> wave \in [Waves -> WaveRecord]
    BY DEF TypeOK, WaveRecord, Stages
  <2>1. ASSUME NEW v \in Waves
        PROVE  /\ wave[v].stage \in ClosedStages => wave'[v] = wave[v]
               /\ v \in Declared => wave'[v] = [wave[v] EXCEPT !.stage = wave'[v].stage]
    <3>0. wave[v] = [wave[v] EXCEPT !.stage = wave[v].stage]
      BY DEF WaveRecord
    <3>1. CASE wave' = wave
      BY <3>0, <3>1
    <3>2. ASSUME NEW u \in Waves, NEW ws \in SUBSET Workers, NEW ds \in SUBSET Waves,
                 AddWave(u, ws, ds)
          PROVE  (wave[v].stage \in ClosedStages \/ v \in Declared) => wave'[v] = wave[v]
      BY <3>2 DEF AddWave, Declared, ClosedStages
    <3>3. ASSUME NEW u \in Waves, NEW s \in Stages, wave' = [wave EXCEPT ![u].stage = s],
                 wave[u].stage \notin ClosedStages
          PROVE  /\ wave[v].stage \in ClosedStages => wave'[v] = wave[v]
                 /\ wave'[v] = [wave[v] EXCEPT !.stage = wave'[v].stage]
      <4>1. CASE u # v
        BY <3>0, <3>3, <4>1, Restaged
      <4>2. CASE u = v
        <5>1. wave'[v] = [wave[v] EXCEPT !.stage = s]
          BY <3>3, <4>2 DEF WaveRecord
        <5>2. wave'[v].stage = s
          BY <3>3, <4>2, Restaged
        <5> QED BY <5>1, <5>2, <3>3, <4>2
      <4> QED BY <4>1, <4>2
    <3>4. ASSUME NEW u \in Waves, OpenWave(u)
          PROVE  wave[u].stage = "pending" /\ wave' = [wave EXCEPT ![u].stage = "active"]
      BY <3>4 DEF OpenWave
    <3>5. "pending" \notin ClosedStages /\ "active" \notin ClosedStages /\ "active" \in Stages
      BY DEF ClosedStages, Stages
    <3>6. ClosedStages \subseteq Stages
      BY DEF Stages
    <3> QED BY <3>0, <3>1, <3>2, <3>3, <3>4, <3>5, <3>6, WaveSteps, ClosingStep
  <2> QED BY <2>1, TerminalStays, ReceiptsStay
<1> QED BY <1>1, TypeCorrect, PTL DEF Spec, HistoryIsFinal

--------------------------------------------------------------------------------
(* The schedule of waves                                                        *)

\* A valid ledger has a passing fan-in only for a wave that has passed.
LEMMA PassedIsPassed ==
  ASSUME TypeOK, Valid, NEW d \in Waves, d \in Declared, PassedFanIn(d)
  PROVE  wave[d].stage = "passed"
<1>1. PICK f \in fanIns : f.wave = d /\ f.status = "passed"
  BY DEF PassedFanIn
<1>2. ClosedExactlyOnce(d)
  BY DEF Valid
<1>3. wave[d].stage \in ClosedStages
  BY <1>1, <1>2 DEF ClosedExactlyOnce
<1>4. FanInMatches(d, f)
  BY <1>1, <1>2, <1>3 DEF ClosedExactlyOnce
<1> QED BY <1>1, <1>4 DEF FanInMatches

\* Every step of the ledger is a step of the schedule or leaves it alone.
LEMMA ScheduleStep ==
  ASSUME TypeOK, [Next]_vars
  PROVE  [Schedule!Next]_<<[v \in Waves |-> wave[v].stage], [v \in Waves |-> wave[v].deps]>>
<1> DEFINE stage == [v \in Waves |-> wave[v].stage]
           after == [v \in Waves |-> wave[v].deps]
<1> wave \in [Waves -> WaveRecord]
  BY DEF TypeOK, WaveRecord, Stages
<1>1. CASE wave' = wave
  BY <1>1
<1>2. ASSUME NEW v \in Waves, NEW ws \in SUBSET Workers, NEW ds \in SUBSET Waves, AddWave(v, ws, ds)
      PROVE  Schedule!Declare(v, ds)
  <2>1. /\ wave[v].stage = "none" /\ ds \subseteq Declared
        /\ wave' = [wave EXCEPT ![v] = [stage |-> "pending", deps |-> ds, workers |-> ws,
                                       ordinal |-> Cardinality(Declared) + 1]]
    BY <1>2 DEF AddWave
  <2>2. \A d \in ds : d \in Waves /\ stage[d] # "none"
    BY <2>1 DEF Declared
  <2>3. stage' = [stage EXCEPT ![v] = "pending"] /\ after' = [after EXCEPT ![v] = ds]
    BY <2>1
  <2> QED BY <2>1, <2>2, <2>3 DEF Schedule!Declare
<1>3. ASSUME NEW v \in Waves, OpenWave(v) PROVE Schedule!Open(v)
  <2>1. /\ wave[v].stage = "pending" /\ Valid /\ v \in Declared
        /\ \A u \in Waves : wave[u].stage # "active"
        /\ \A d \in wave[v].deps : PassedFanIn(d)
        /\ wave' = [wave EXCEPT ![v].stage = "active"]
    BY <1>3 DEF OpenWave, Declared
  <2>2. \A d \in wave[v].deps : d \in Declared /\ d \in Waves
    BY <2>1 DEF Valid, WavesValid, Declared
  <2>3. \A d \in after[v] : stage[d] = "passed"
    BY <2>1, <2>2, PassedIsPassed
  <2>4. \A u \in Waves : /\ wave'[u].stage = IF u = v THEN "active" ELSE wave[u].stage
                        /\ wave'[u].deps = wave[u].deps
    BY <2>1, Restaged DEF Stages
  <2>5. stage' = [stage EXCEPT ![v] = "active"] /\ after' = after
    BY <2>4
  <2> QED BY <2>1, <2>3, <2>5 DEF Schedule!Open
<1>4. ASSUME NEW v \in Waves, FanIn(v) PROVE Schedule!Close(v)
  <2>1. wave[v].stage = "active"
    BY <1>4, ClosingStep
  <2>2. PICK s \in ClosedStages : wave' = [wave EXCEPT ![v].stage = s]
    BY <1>4, ClosingStep
  <2>3. \A u \in Waves : /\ wave'[u].stage = IF u = v THEN s ELSE wave[u].stage
                        /\ wave'[u].deps = wave[u].deps
    BY <2>2, Restaged DEF Stages
  <2>4. stage' = [stage EXCEPT ![v] = s] /\ after' = after
    BY <2>3
  <2> QED BY <2>1, <2>2, <2>4 DEF Schedule!Close, ClosedStages
<1> QED BY <1>1, <1>2, <1>3, <1>4, WaveSteps DEF Schedule!Next

\* The ledger implements the abstract schedule: a wave is declared after those it depends
\* on, opens alone and when they have passed, and closes once (delegation_wave.py:82-275).
THEOREM LedgerImplementsSchedule == Spec => ImplementsSchedule
<1> SUFFICES Spec => Schedule!Spec
  BY DEF ImplementsSchedule
<1>1. Init => Schedule!Init
  BY DEF Init, Schedule!Init
<1> QED BY <1>1, ScheduleStep, TypeCorrect, PTL DEF Spec, Schedule!Spec

--------------------------------------------------------------------------------
(* The budget                                                                   *)

\* Sets of workers are finite, and two without common members count together.
LEMMA Counts ==
  ASSUME NEW S \in SUBSET Workers, NEW T \in SUBSET Workers
  PROVE  /\ Cardinality(S) \in Nat
         /\ S \subseteq T => Cardinality(S) <= Cardinality(T)
         /\ S \cap T = {} => Cardinality(S \cup T) = Cardinality(S) + Cardinality(T)
<1>1. IsFiniteSet(S) /\ IsFiniteSet(T)
  BY ConstantsAssumption, FS_Subset
<1>2. Cardinality(S) \in Nat /\ Cardinality(T) \in Nat
  BY <1>1, FS_CardinalityType
<1>3. S \subseteq T => Cardinality(S) <= Cardinality(T)
  BY <1>1, FS_Subset
<1>4. Cardinality(S \cup T) = Cardinality(S) + Cardinality(T) - Cardinality(S \cap T)
  BY <1>1, FS_Union
<1>5. S \cap T = {} => Cardinality(S \cap T) = 0
  BY FS_EmptySet
<1> QED BY <1>2, <1>3, <1>4, <1>5

\* Only a registration makes more workers known, and only a reservation launches some.
LEMMA MoreWorkers ==
  ASSUME TypeOK, [Next]_vars
  PROVE  /\ Known' \subseteq Known \/ \E ws \in SUBSET Workers : Register(ws)
         /\ \/ With("launched")' \subseteq With("launched")
            \/ \E ws \in SUBSET Workers : Reserve(ws)
<1> USE DEF TypeOK, Known, With
<1>1. ASSUME NEW ws \in SUBSET Workers, Register(ws)
      PROVE  With("launched")' \subseteq With("launched")
  BY <1>1 DEF Register
<1>2. ASSUME NEW ws \in SUBSET Workers, Reserve(ws) PROVE Known' \subseteq Known
  BY <1>2 DEF Reserve
<1>3. ASSUME NEW ws \in SUBSET Workers, LaunchSettled(ws) \/ LaunchRolledBack(ws)
      PROVE  Known' \subseteq Known /\ With("launched")' \subseteq With("launched")
  BY <1>3 DEF LaunchSettled, LaunchRolledBack
<1>4. ASSUME NEW w \in Workers,
             \/ Unregister(w) \/ ReportTerminal(w) \/ ReportCleanup(w)
             \/ \E status \in Outcomes : Finish(w, status)
      PROVE  Known' \subseteq Known /\ With("launched")' \subseteq With("launched")
  <2>1. Outcomes \subseteq TerminalStatuses /\ "launched" \notin TerminalStatuses
    BY ConstantsAssumption DEF TerminalStatuses
  <2> QED BY <1>4, <2>1
        DEF Unregister, ReportTerminal, RecordTerminal, ReportCleanup, RecordCleanup, Finish
<1>5. ASSUME \/ \E r \in Rounds : OpenRound(r)
             \/ RoundWritten \/ RoundWriteFails \/ RoundOpenerDies \/ UNCHANGED vars
             \/ \E v \in Waves, ws \in SUBSET Workers, ds \in SUBSET Waves : AddWave(v, ws, ds)
             \/ \E v \in Waves : FanIn(v)
      PROVE  worker' = worker
  BY <1>5 DEF OpenRound, RoundWritten, RoundWriteFails, RoundOpenerDies, vars, AddWave, FanIn
<1>6. ASSUME NEW ws \in SUBSET Workers, Launch(ws) PROVE Reserve(ws)
  BY <1>6 DEF Launch
<1>7. ASSUME NEW v \in Waves, OpenWave(v) PROVE \E ws \in SUBSET Workers : Reserve(ws)
  BY <1>7 DEF OpenWave
<1> QED BY <1>1, <1>2, <1>3, <1>4, <1>5, <1>6, <1>7 DEF Next

\* Rounds and waves stay within the budget of rounds.
LEMMA RoundsStep ==
  ASSUME TypeOK, [Next]_vars, Len(rounds) <= MaxRounds
  PROVE  Len(rounds') <= MaxRounds
<1> rounds \in Seq(Rounds \cup Waves) /\ MaxRounds \in Nat /\ Len(rounds) \in Nat
  BY ConstantsAssumption DEF TypeOK
<1>1. ASSUME NEW ws \in SUBSET Workers,
             Register(ws) \/ Launch(ws) \/ LaunchSettled(ws) \/ LaunchRolledBack(ws)
      PROVE  rounds' = rounds
  BY <1>1 DEF Register, Launch, LaunchSettled, LaunchRolledBack
<1>2. ASSUME NEW w \in Workers,
             \/ Unregister(w) \/ ReportTerminal(w) \/ ReportCleanup(w)
             \/ \E status \in Outcomes : Finish(w, status)
      PROVE  rounds' = rounds
  BY <1>2 DEF Unregister, ReportTerminal, RecordTerminal, ReportCleanup, RecordCleanup, Finish
<1>3. ASSUME \/ RoundWritten \/ RoundOpenerDies \/ UNCHANGED vars
             \/ \E v \in Waves : OpenWave(v) \/ FanIn(v)
      PROVE  rounds' = rounds
  BY <1>3 DEF RoundWritten, RoundOpenerDies, vars, OpenWave, FanIn
<1>4. ASSUME NEW r \in Rounds, OpenRound(r) PROVE Len(rounds') <= MaxRounds
  BY <1>4 DEF OpenRound
<1>5. ASSUME RoundWriteFails PROVE Len(rounds') <= MaxRounds
  <2>1. rounds' \in Seq(Rounds \cup Waves) /\ Len(rounds') <= Len(rounds)
    BY <1>5, CancelType DEF RoundWriteFails
  <2> QED BY <2>1
<1>6. ASSUME NEW v \in Waves, NEW ws \in SUBSET Workers, NEW ds \in SUBSET Waves, AddWave(v, ws, ds)
      PROVE  Len(rounds') <= MaxRounds
  BY <1>6 DEF AddWave
<1> QED BY <1>1, <1>2, <1>3, <1>4, <1>5, <1>6 DEF Next

\* No command takes the run over its budget.
LEMMA BudgetStep ==
  ASSUME TypeOK, WithinBudget, [Next]_vars
  PROVE  WithinBudget'
<1> MaxTotal \in Nat /\ MaxConcurrency \in Nat
  BY ConstantsAssumption
<1>0. /\ Known \in SUBSET Workers /\ Known' \in SUBSET Workers
      /\ With("launched") \in SUBSET Workers /\ With("launched")' \in SUBSET Workers
  BY DEF Known, With
<1>1. Cardinality(Known') <= MaxTotal
  <2>1. CASE Known' \subseteq Known
    BY <1>0, <2>1, Counts DEF WithinBudget
  <2>2. ASSUME NEW ws \in SUBSET Workers, Register(ws) PROVE Cardinality(Known') <= MaxTotal
    <3>1. Known' = Known \cup ws /\ Known \cap ws = {}
      BY <2>2 DEF Register, Known, With, TypeOK
    <3>2. Cardinality(Known) + Cardinality(ws) <= MaxTotal
      BY <2>2 DEF Register
    <3> QED BY <1>0, <3>1, <3>2, Counts
  <2> QED BY <2>1, <2>2, MoreWorkers
<1>2. Cardinality(With("launched")') <= MaxConcurrency
  <2>1. CASE With("launched")' \subseteq With("launched")
    BY <1>0, <2>1, Counts DEF WithinBudget
  <2>2. ASSUME NEW ws \in SUBSET Workers, Reserve(ws)
        PROVE  Cardinality(With("launched")') <= MaxConcurrency
    <3>1. With("launched")' = With("launched") \cup ws /\ With("launched") \cap ws = {}
      BY <2>2 DEF Reserve, With, TypeOK
    <3>2. Cardinality(With("launched")) + Cardinality(ws) <= MaxConcurrency
      BY <2>2 DEF Reserve
    <3> QED BY <1>0, <3>1, <3>2, Counts
  <2> QED BY <2>1, <2>2, MoreWorkers
<1>3. Len(rounds') <= MaxRounds
  BY RoundsStep DEF WithinBudget
<1> QED BY <1>1, <1>2, <1>3 DEF WithinBudget

--------------------------------------------------------------------------------
(* The workers of waves                                                         *)

\* A worker has one wave, and whoever a launcher may still put back has none: nobody is in
\* two of its groups, and a member that has left "launched" has left it for good.
WorkersApart ==
  /\ \A u, v \in Waves : u # v => wave[u].workers \cap wave[v].workers = {}
  /\ \A g \in starting : /\ g \cap Assigned = {}
                         /\ \A x \in g : worker[x] \in {"launched"} \cup TerminalStatuses
  /\ \A g, h \in starting : g # h => g \cap h = {}

\* What a step may do to the workers, the waves and the groups that are starting.
LEMMA ApartStep ==
  ASSUME TypeOK, WorkersApart, [Next]_vars
  PROVE  WorkersApart'
<1> USE DEF TypeOK
<1> wave \in [Waves -> WaveRecord] /\ wave' \in [Waves -> WaveRecord]
  BY TypeStep DEF WaveRecord, Stages
<1>0. "registered" \notin {"launched"} \cup TerminalStatuses
  BY DEF TerminalStatuses
<1>1. ASSUME UNCHANGED <<wave, starting>>,
             \A g \in starting : \A x \in g : worker[x] \in {"launched"} \cup TerminalStatuses
               => worker'[x] \in {"launched"} \cup TerminalStatuses
      PROVE  WorkersApart'
  BY <1>1 DEF WorkersApart, Assigned
<1>2. ASSUME NEW ws \in SUBSET Workers, Register(ws) PROVE WorkersApart'
  <2>1. \A x \in Workers : worker[x] # "absent" => worker'[x] = worker[x]
    BY <1>2 DEF Register, Known, With
  <2> QED BY <1>1, <1>2, <2>1 DEF Register, local, TerminalStatuses
<1>3. ASSUME NEW ws \in SUBSET Workers, Launch(ws) PROVE WorkersApart'
  <2>1. /\ \A x \in ws : worker[x] = "registered" /\ worker'[x] = "launched"
        /\ \A x \in Workers \ ws : worker'[x] = worker[x]
        /\ ws \cap Assigned = {} /\ wave' = wave /\ starting' = starting \cup {ws}
    BY <1>3 DEF Launch, Reserve, With
  <2>2. ASSUME NEW g \in starting, NEW x \in g, x \in ws PROVE FALSE
    BY <2>1, <2>2, <1>0 DEF WorkersApart
  <2> QED BY <2>1, <2>2 DEF WorkersApart, Assigned
<1>4. ASSUME NEW ws \in SUBSET Workers, LaunchSettled(ws) PROVE WorkersApart'
  BY <1>4 DEF LaunchSettled, WorkersApart, Assigned
<1>5. ASSUME NEW ws \in SUBSET Workers, LaunchRolledBack(ws) PROVE WorkersApart'
  <2>1. /\ \A x \in Workers \ ws : worker'[x] = worker[x]
        /\ ws \in starting /\ wave' = wave /\ starting' = starting \ {ws}
    BY <1>5 DEF LaunchRolledBack
  <2> QED BY <2>1 DEF WorkersApart, Assigned
<1>6. ASSUME NEW w \in Workers, Unregister(w) PROVE WorkersApart'
  <2>1. worker[w] = "registered" /\ \A x \in Workers : x # w => worker'[x] = worker[x]
    BY <1>6 DEF Unregister
  <2> QED BY <1>1, <1>6, <2>1 DEF Unregister, local, TerminalStatuses
<1>7. ASSUME NEW w \in Workers, NEW status \in Outcomes, Finish(w, status) PROVE WorkersApart'
  <2>1. \A x \in Workers : worker'[x] = worker[x] \/ worker'[x] \in TerminalStatuses
    BY <1>7, ConstantsAssumption DEF Finish
  <2> QED BY <1>1, <1>7, <2>1 DEF Finish, local
<1>8. ASSUME NEW w \in Workers, ReportTerminal(w) \/ ReportCleanup(w) PROVE WorkersApart'
  <2>1. /\ UNCHANGED <<wave, starting>>
        /\ \A x \in Workers : worker'[x] = worker[x] \/ worker'[x] \in TerminalStatuses
    BY <1>8, ConstantsAssumption
       DEF ReportTerminal, RecordTerminal, ReportCleanup, RecordCleanup, local
  <2> QED BY <1>1, <2>1
<1>9. ASSUME \/ \E r \in Rounds : OpenRound(r)
             \/ RoundWritten \/ RoundWriteFails \/ RoundOpenerDies \/ UNCHANGED vars
      PROVE  WorkersApart'
  <2>1. UNCHANGED <<worker, wave, starting>>
    BY <1>9 DEF OpenRound, RoundWritten, RoundWriteFails, RoundOpenerDies, vars
  <2> QED BY <1>1, <2>1
<1>10. ASSUME NEW v \in Waves, NEW ws \in SUBSET Workers, NEW ds \in SUBSET Waves, AddWave(v, ws, ds)
       PROVE  WorkersApart'
  <2>1. /\ \A x \in ws : worker[x] = "registered"
        /\ ws \cap Assigned = {} /\ UNCHANGED <<worker, starting>>
        /\ \A u \in Waves : wave'[u].workers = IF u = v THEN ws ELSE wave[u].workers
    BY <1>10 DEF AddWave, With, local
  <2>2. ASSUME NEW g \in starting, NEW x \in g, x \in ws PROVE FALSE
    BY <2>1, <2>2, <1>0 DEF WorkersApart
  <2>3. \A u \in Waves : wave[u].workers \cap ws = {}
    BY <2>1 DEF Assigned
  <2>4. Assigned' \subseteq Assigned \cup ws
    BY <2>1 DEF Assigned
  <2> QED BY <2>1, <2>2, <2>3, <2>4 DEF WorkersApart
<1>11. ASSUME NEW v \in Waves, OpenWave(v) PROVE WorkersApart'
  <2>1. /\ \A x \in wave[v].workers : x \in Assigned
        /\ \A x \in Workers \ wave[v].workers : worker'[x] = worker[x]
        /\ starting' = starting /\ wave' = [wave EXCEPT ![v].stage = "active"]
    BY <1>11 DEF OpenWave, Reserve, local, Assigned
  <2>2. \A u \in Waves : wave'[u].workers = wave[u].workers
    BY <2>1, Restaged DEF Stages
  <2>3. Assigned' = Assigned
    BY <2>2 DEF Assigned
  <2> QED BY <2>1, <2>2, <2>3 DEF WorkersApart
<1>12. ASSUME NEW v \in Waves, FanIn(v) PROVE WorkersApart'
  <2>1. PICK s \in ClosedStages : wave' = [wave EXCEPT ![v].stage = s]
    BY <1>12, ClosingStep
  <2>2. UNCHANGED <<worker, starting>>
    BY <1>12 DEF FanIn, local
  <2>3. \A u \in Waves : wave'[u].workers = wave[u].workers
    BY <2>1, Restaged DEF Stages
  <2>4. Assigned' = Assigned
    BY <2>3 DEF Assigned
  <2> QED BY <2>2, <2>3, <2>4 DEF WorkersApart
<1> QED BY <1>2, <1>3, <1>4, <1>5, <1>6, <1>7, <1>8, <1>9, <1>10, <1>11, <1>12 DEF Next

\* What WaveWorkers says of one wave.
WorkersOf(v) ==
  LET w == wave[v] IN
  /\ w.stage = "pending" => w.workers \subseteq With("registered")
  /\ w.stage = "active" =>
       \A x \in w.workers : worker[x] = "launched" \/ \E t \in TerminalsOf(v) : t.worker = x
  /\ w.stage \in ClosedStages => \A x \in w.workers : worker[x] \in TerminalStatuses
  /\ w.stage = "passed" =>
       /\ w.workers \subseteq With("completed")
       /\ \A x \in w.workers \cap Threads :
            \E c \in CleanupsOf(v) : c.worker = x /\ c.status = "released"

\* A wave stays true when its workers stay as they are or, while it is open, have reported.
LEMMA UntouchedWave ==
  ASSUME TypeOK, [Next]_vars, NEW v \in Waves, WorkersOf(v), wave'[v] = wave[v],
         wave[v].stage # "none" =>
           \A x \in wave[v].workers :
             \/ worker'[x] = worker[x]
             \/ wave[v].stage = "active" /\ \E t \in TerminalsOf(v)' : t.worker = x
  PROVE  WorkersOf(v)'
<1>1. terminals \subseteq terminals' /\ cleanups \subseteq cleanups'
  BY ReceiptsStay
<1>2. TerminalsOf(v) \subseteq TerminalsOf(v)' /\ CleanupsOf(v) \subseteq CleanupsOf(v)'
  BY <1>1 DEF TerminalsOf, CleanupsOf
<1>3. \A x \in wave[v].workers : x \in Workers
  BY DEF TypeOK
<1>4. "none" \notin ClosedStages /\ "active" \notin ClosedStages /\ "passed" \in ClosedStages
  BY DEF ClosedStages
<1> QED BY <1>2, <1>3, <1>4 DEF WorkersOf, With

\* A wave that closes has terminal workers, and one that passes completed and released ones.
LEMMA ClosedWave ==
  ASSUME TypeOK, NEW v \in Waves, FanIn(v)
  PROVE  WorkersOf(v)'
<1> DEFINE ts == TerminalsOf(v)
           cs == CleanupsOf(v)
           s == Aggregate(ts, cs)
<1>1. /\ wave[v].stage = "active" /\ wave[v].workers \subseteq {t.worker : t \in ts}
      /\ CleanupRequired(ts) \subseteq {c.worker : c \in cs} /\ ReceiptsValid
      /\ wave' = [wave EXCEPT ![v].stage = s] /\ UNCHANGED <<worker, terminals, cleanups>>
  BY DEF FanIn, Valid
<1>2. s \in ClosedStages
  BY AggregateCloses
<1>3. wave \in [Waves -> WaveRecord]
  BY DEF TypeOK, WaveRecord, Stages
<1>4. wave'[v].stage = s /\ wave'[v].workers = wave[v].workers
  BY <1>1, <1>2, <1>3, Restaged DEF Stages
<1>5. \A t \in ts : worker[t.worker] = t.status /\ t.status \in TerminalStatuses /\ t.worker \in Workers
  BY <1>1 DEF ReceiptsValid, TerminalsOf, TypeOK, TerminalReceipt
<1>6. ASSUME NEW x \in wave[v].workers
      PROVE  worker[x] \in TerminalStatuses /\ \E t \in ts : t.worker = x /\ worker[x] = t.status
  BY <1>1, <1>5
<1>7. ASSUME s = "passed", NEW x \in wave[v].workers PROVE worker[x] = "completed"
  <2>1. \A t \in ts : t.status = "completed"
    BY <1>7, AggregatePasses
  <2> QED BY <1>6, <2>1
<1>8. ASSUME s = "passed", NEW x \in wave[v].workers \cap Threads
      PROVE  \E c \in cs : c.worker = x /\ c.status = "released"
  <2>1. x \in CleanupRequired(ts)
    BY <1>1 DEF CleanupRequired
  <2>2. {c.status : c \in cs} = {"released"}
    BY <1>8, <2>1, AggregatePasses
  <2>3. PICK c \in cs : c.worker = x
    BY <1>1, <2>1
  <2>4. c.status = "released"
    BY <2>2
  <2> QED BY <2>3, <2>4
<1>9. TerminalsOf(v)' = ts /\ CleanupsOf(v)' = cs
  BY <1>1 DEF TerminalsOf, CleanupsOf
<1>10. wave[v].workers \subseteq Workers
  BY <1>3 DEF WaveRecord
<1> HIDE DEF ts, cs, s
<1> QED BY <1>1, <1>2, <1>4, <1>6, <1>7, <1>8, <1>9, <1>10 DEF WorkersOf, With, ClosedStages

\* Every command leaves the workers of the waves as the waves say.
LEMMA WaveWorkersStep ==
  ASSUME TypeOK, WorkersApart, WaveWorkers, [Next]_vars
  PROVE  WaveWorkers'
<1> SUFFICES ASSUME NEW v \in Waves PROVE WorkersOf(v)'
  BY DEF WaveWorkers, WorkersOf
<1> WorkersOf(v)
  BY DEF WaveWorkers, WorkersOf
<1> wave \in [Waves -> WaveRecord] /\ wave[v].workers \subseteq Assigned
    /\ wave[v].workers \subseteq Workers /\ worker \in [Workers -> WorkerStatuses]
  BY DEF TypeOK, WaveRecord, Stages, Assigned
<1>1. ASSUME wave'[v] = wave[v], \A x \in wave[v].workers : worker'[x] = worker[x]
      PROVE  WorkersOf(v)'
  BY <1>1, UntouchedWave
<1>2. ASSUME NEW ws \in SUBSET Workers, Register(ws) PROVE WorkersOf(v)'
  <2>1. \A x \in Workers : worker[x] # "absent" => worker'[x] = worker[x]
    BY <1>2 DEF Register, Known, With
  <2>2. wave' = wave /\ terminals' = terminals
    BY <1>2 DEF Register, receipts
  <2>3. ASSUME NEW x \in wave[v].workers, wave[v].stage # "none", worker[x] = "absent"
        PROVE  wave[v].stage = "active" /\ \E t \in TerminalsOf(v) : t.worker = x
    <3>1. worker[x] \notin TerminalStatuses /\ worker[x] \notin {"registered", "launched"}
      BY <2>3 DEF TerminalStatuses
    <3>2. wave[v].stage \in {"pending", "active"} \cup ClosedStages
      BY <2>3 DEF WaveRecord, Stages
    <3> QED BY <2>3, <3>1, <3>2 DEF WorkersOf, With
  <2>4. TerminalsOf(v)' = TerminalsOf(v)
    BY <2>2 DEF TerminalsOf
  <2> QED BY <2>1, <2>2, <2>3, <2>4, UntouchedWave
<1>3. ASSUME NEW ws \in SUBSET Workers, Launch(ws) \/ LaunchSettled(ws) \/ LaunchRolledBack(ws)
      PROVE  WorkersOf(v)'
  <2>1. wave' = wave /\ \A x \in Workers \ ws : worker'[x] = worker[x]
    BY <1>3 DEF Launch, LaunchSettled, LaunchRolledBack, Reserve, receipts
  <2>2. worker' = worker \/ ws \cap Assigned = {}
    BY <1>3 DEF Launch, LaunchSettled, LaunchRolledBack, WorkersApart
  <2> QED BY <1>1, <2>1, <2>2
<1>4. ASSUME NEW w \in Workers,
             Unregister(w) \/ \E status \in Outcomes : Finish(w, status)
      PROVE  WorkersOf(v)'
  <2>1. /\ wave' = wave /\ w \notin Assigned
        /\ \A x \in Workers : x # w => worker'[x] = worker[x]
    BY <1>4 DEF Unregister, Finish
  <2> QED BY <1>1, <2>1
<1>5. ASSUME NEW w \in Workers, ReportTerminal(w) PROVE WorkersOf(v)'
  <2>1. PICK u \in Waves, id \in TerminalIds[w], status \in Outcomes, formed \in Forms :
               RecordTerminal(u, w, id, status, formed)
    BY <1>5 DEF ReportTerminal
  <2>2. /\ wave' = wave /\ wave[u].stage = "active" /\ w \in wave[u].workers
        /\ \A x \in Workers : x # w => worker'[x] = worker[x]
    BY <2>1 DEF RecordTerminal
  <2>3. CASE u # v
    <3>1. w \notin wave[v].workers
      BY <2>2, <2>3 DEF WorkersApart
    <3> QED BY <1>1, <2>2, <3>1
  <2>4. CASE u = v
    <3> DEFINE r == [id |-> id, wave |-> u, worker |-> w, status |-> status, formed |-> formed]
    <3>1. r \in terminals' /\ r.wave = v /\ r.worker = w
      BY <2>1, <2>4 DEF RecordTerminal
    <3> HIDE DEF r
    <3>2. r \in TerminalsOf(v)'
      BY <3>1 DEF TerminalsOf
    <3> QED BY <2>2, <2>4, <3>1, <3>2, UntouchedWave
  <2> QED BY <2>3, <2>4
<1>6. ASSUME NEW w \in Workers, ReportCleanup(w) PROVE WorkersOf(v)'
  <2>1. UNCHANGED <<wave, worker>>
    BY <1>6 DEF ReportCleanup, RecordCleanup
  <2> QED BY <1>1, <2>1
<1>7. ASSUME \/ \E r \in Rounds : OpenRound(r)
             \/ RoundWritten \/ RoundWriteFails \/ RoundOpenerDies \/ UNCHANGED vars
      PROVE  WorkersOf(v)'
  <2>1. UNCHANGED <<wave, worker>>
    BY <1>7 DEF OpenRound, RoundWritten, RoundWriteFails, RoundOpenerDies, vars
  <2> QED BY <1>1, <2>1
<1>8. ASSUME NEW u \in Waves, NEW ws \in SUBSET Workers, NEW ds \in SUBSET Waves, AddWave(u, ws, ds)
      PROVE  WorkersOf(v)'
  <2>1. /\ worker' = worker /\ ws \subseteq With("registered")
        /\ wave' = [wave EXCEPT ![u] = [stage |-> "pending", deps |-> ds, workers |-> ws,
                                       ordinal |-> Cardinality(Declared) + 1]]
    BY <1>8 DEF AddWave
  <2>2. CASE u # v
    BY <1>1, <2>1, <2>2
  <2>3. CASE u = v
    <3>1. wave'[v].stage = "pending" /\ wave'[v].workers = ws
      BY <2>1, <2>3
    <3> QED BY <2>1, <3>1 DEF WorkersOf, With, ClosedStages
  <2> QED BY <2>2, <2>3
<1>9. ASSUME NEW u \in Waves, OpenWave(u) PROVE WorkersOf(v)'
  <2>1. /\ wave' = [wave EXCEPT ![u].stage = "active"] /\ wave[u].workers \subseteq Workers
        /\ \A x \in Workers : worker'[x] = IF x \in wave[u].workers THEN "launched" ELSE worker[x]
    BY <1>9 DEF OpenWave, Reserve, WaveRecord
  <2>2. /\ wave'[u].stage = "active" /\ wave'[u].workers = wave[u].workers
        /\ u # v => wave'[v] = wave[v]
    BY <2>1, Restaged DEF Stages
  <2>3. CASE u # v
    <3>1. wave[u].workers \cap wave[v].workers = {}
      BY <2>3 DEF WorkersApart
    <3> QED BY <1>1, <2>1, <2>2, <2>3, <3>1
  <2>4. CASE u = v
    BY <2>1, <2>2, <2>4 DEF WorkersOf, ClosedStages
  <2> QED BY <2>3, <2>4
<1>10. ASSUME NEW u \in Waves, FanIn(u) PROVE WorkersOf(v)'
  <2>1. CASE u = v
    BY <1>10, <2>1, ClosedWave
  <2>2. CASE u # v
    <3>1. PICK s \in ClosedStages : wave' = [wave EXCEPT ![u].stage = s]
      BY <1>10, ClosingStep
    <3>2. wave'[v] = wave[v]
      BY <2>2, <3>1, Restaged DEF Stages
    <3>3. worker' = worker
      BY <1>10 DEF FanIn
    <3> QED BY <1>1, <3>2, <3>3
  <2> QED BY <2>1, <2>2
<1> QED BY <1>2, <1>3, <1>4, <1>5, <1>6, <1>7, <1>8, <1>9, <1>10 DEF Next

\* The ledger stays in its vocabulary, within its budget and true to its waves, whatever is
\* launched, rolled back, cancelled and reported (delegation_run.py:316, delegation_wave.py).
THEOREM LedgerStaysTrue == Spec => []BudgetInv
<1>1. Init => BudgetInv /\ WorkersApart
  <2> SUFFICES ASSUME Init PROVE BudgetInv /\ WorkersApart
    OBVIOUS
  <2>1. TypeOK
    BY DEF Init, TypeOK, WorkerStatuses
  <2>2. Known = {} /\ With("launched") = {} /\ rounds = <<>>
    BY DEF Init, Known, With
  <2>3. WithinBudget
    <3>1. Cardinality({}) = 0 /\ Len(<<>>) = 0
      BY FS_EmptySet
    <3>2. MaxTotal \in Nat /\ MaxConcurrency \in Nat /\ MaxRounds \in Nat
      BY ConstantsAssumption
    <3> QED BY <2>2, <3>1, <3>2 DEF WithinBudget
  <2>4. WaveWorkers /\ WorkersApart
    BY DEF Init, WaveWorkers, WorkersApart, ClosedStages
  <2> QED BY <2>1, <2>3, <2>4 DEF BudgetInv
<1>2. BudgetInv /\ WorkersApart /\ [Next]_vars => (BudgetInv /\ WorkersApart)'
  BY TypeStep, BudgetStep, ApartStep, WaveWorkersStep DEF BudgetInv
<1> QED BY <1>1, <1>2, PTL DEF Spec

--------------------------------------------------------------------------------
(* The rounds of both kinds                                                     *)

\* What is kept is kept at the end.
LEMMA WithoutKept ==
  ASSUME NEW T, NEW seq \in Seq(T), NEW ids \in Seq(T), NEW S, NEW x \in T,
         IsSeqWithout(ids, seq, S), x \notin S
  PROVE  IsSeqWithout(Append(ids, x), Append(seq, x), S)
<1> DEFINE n == Len(ids)
           m == Len(seq)
           longer == Append(ids, x)
           all == Append(seq, x)
<1>1. n \in Nat /\ m \in Nat /\ DOMAIN ids = 1..n /\ DOMAIN seq = 1..m
  OBVIOUS
<1>2. /\ DOMAIN longer = 1..(n + 1) /\ DOMAIN all = 1..(m + 1)
      /\ longer[n + 1] = x /\ all[m + 1] = x
      /\ \A i \in 1..n : longer[i] = ids[i]
      /\ \A i \in 1..m : all[i] = seq[i]
  OBVIOUS
<1>3. PICK idx \in [1..n -> 1..m] :
        /\ \A i, j \in 1..n : i < j => idx[i] < idx[j]
        /\ {idx[i] : i \in 1..n} = {k \in 1..m : seq[k] \notin S}
        /\ \A i \in 1..n : ids[i] = seq[idx[i]]
  BY <1>1 DEF IsSeqWithout
<1> DEFINE to == [i \in 1..(n + 1) |-> IF i = n + 1 THEN m + 1 ELSE idx[i]]
<1> HIDE DEF n, m, longer, all
<1>4. to \in [1..(n + 1) -> 1..(m + 1)]
  BY <1>1, <1>3
<1>5. \A i, j \in 1..(n + 1) : i < j => to[i] < to[j]
  BY <1>1, <1>3
<1>6. {to[i] : i \in 1..(n + 1)} = {k \in 1..(m + 1) : all[k] \notin S}
  <2>1. ASSUME NEW i \in 1..(n + 1) PROVE to[i] \in {k \in 1..(m + 1) : all[k] \notin S}
    <3>1. CASE i = n + 1
      BY <1>1, <1>2, <3>1
    <3>2. CASE i \in 1..n
      <4>1. idx[i] \in 1..m /\ seq[idx[i]] \notin S
        BY <1>3, <3>2
      <4>2. to[i] = idx[i]
        BY <1>1, <3>2
      <4> QED BY <1>1, <1>2, <4>1, <4>2
    <3> QED BY <1>1, <3>1, <3>2
  <2>2. ASSUME NEW k \in 1..(m + 1), all[k] \notin S PROVE \E i \in 1..(n + 1) : to[i] = k
    <3>1. CASE k = m + 1
      <4>1. n + 1 \in 1..(n + 1) /\ to[n + 1] = m + 1
        BY <1>1
      <4> QED BY <3>1, <4>1
    <3>2. CASE k \in 1..m
      <4>1. PICK i \in 1..n : idx[i] = k
        BY <1>2, <1>3, <2>2, <3>2
      <4> QED BY <1>1, <4>1
    <3> QED BY <1>1, <3>1, <3>2
  <2> QED BY <2>1, <2>2
<1>7. \A i \in 1..(n + 1) : longer[i] = all[to[i]]
  BY <1>1, <1>2, <1>3
<1> HIDE DEF to
<1>8. IsSeqWithout(longer, all, S)
  BY <1>2, <1>4, <1>5, <1>6, <1>7 DEF IsSeqWithout
<1> QED BY <1>8 DEF longer, all

\* What is dropped leaves the rest.
LEMMA WithoutDropped ==
  ASSUME NEW T, NEW seq \in Seq(T), NEW ids \in Seq(T), NEW S, NEW x \in T,
         IsSeqWithout(ids, seq, S), \A k \in DOMAIN seq : seq[k] # x
  PROVE  IsSeqWithout(ids, Append(seq, x), S \cup {x})
<1> DEFINE n == Len(ids)
           m == Len(seq)
           all == Append(seq, x)
<1>1. n \in Nat /\ m \in Nat /\ DOMAIN ids = 1..n /\ DOMAIN seq = 1..m
  OBVIOUS
<1>2. /\ DOMAIN all = 1..(m + 1) /\ all[m + 1] = x
      /\ \A k \in 1..m : all[k] = seq[k] /\ seq[k] # x
  OBVIOUS
<1>3. PICK idx \in [1..n -> 1..m] :
        /\ \A i, j \in 1..n : i < j => idx[i] < idx[j]
        /\ {idx[i] : i \in 1..n} = {k \in 1..m : seq[k] \notin S}
        /\ \A i \in 1..n : ids[i] = seq[idx[i]]
  BY <1>1 DEF IsSeqWithout
<1> HIDE DEF n, m, all
<1>4. idx \in [1..n -> 1..(m + 1)]
  BY <1>1, <1>3
<1>5. {idx[i] : i \in 1..n} = {k \in 1..(m + 1) : all[k] \notin S \cup {x}}
  <2>1. \A k \in 1..(m + 1) : k \in 1..m \/ k = m + 1
    BY <1>1
  <2>2. {k \in 1..(m + 1) : all[k] \notin S \cup {x}} = {k \in 1..m : seq[k] \notin S}
    BY <1>1, <1>2, <2>1
  <2> QED BY <1>3, <2>2
<1>6. \A i \in 1..n : ids[i] = all[idx[i]]
  BY <1>2, <1>3
<1>7. /\ idx \in [DOMAIN ids -> DOMAIN all]
      /\ \A i, j \in DOMAIN ids : i < j => idx[i] < idx[j]
      /\ {idx[i] : i \in DOMAIN ids} = {k \in DOMAIN all : all[k] \notin S \cup {x}}
      /\ \A i \in DOMAIN ids : ids[i] = all[idx[i]]
  BY <1>1, <1>2, <1>3, <1>4, <1>5, <1>6
<1>8. IsSeqWithout(ids, all, S \cup {x})
  BY <1>7 DEF IsSeqWithout
<1> QED BY <1>8 DEF all

\* Without the last one, when that is kept.
LEMMA WithoutLast ==
  ASSUME NEW T, NEW seq \in Seq(T), NEW ids \in Seq(T), NEW S, NEW x \in T,
         IsSeqWithout(Append(ids, x), seq, S), seq # <<>>, seq[Len(seq)] \notin S
  PROVE  IsSeqWithout(ids, SubSeq(seq, 1, Len(seq) - 1), S)
<1> DEFINE n == Len(ids)
           m == Len(seq)
           longer == Append(ids, x)
           less == SubSeq(seq, 1, Len(seq) - 1)
<1>1. n \in Nat /\ m \in Nat /\ m >= 1 /\ DOMAIN ids = 1..n /\ DOMAIN seq = 1..m /\ seq[m] \notin S
  OBVIOUS
<1>2. /\ DOMAIN longer = 1..(n + 1) /\ DOMAIN less = 1..(m - 1)
      /\ \A i \in 1..n : longer[i] = ids[i]
      /\ \A k \in 1..(m - 1) : less[k] = seq[k]
  OBVIOUS
<1>3. PICK idx \in [1..(n + 1) -> 1..m] :
        /\ \A i, j \in 1..(n + 1) : i < j => idx[i] < idx[j]
        /\ {idx[i] : i \in 1..(n + 1)} = {k \in 1..m : seq[k] \notin S}
        /\ \A i \in 1..(n + 1) : longer[i] = seq[idx[i]]
  <2>1. DOMAIN longer = 1..(n + 1) /\ DOMAIN seq = 1..m /\ IsSeqWithout(longer, seq, S)
    BY <1>1, <1>2
  <2> HIDE DEF n, m, longer
  <2> QED BY <2>1 DEF IsSeqWithout
<1> HIDE DEF n, m, longer, less
<1>4. idx[n + 1] = m
  <2>1. PICK i \in 1..(n + 1) : idx[i] = m
    BY <1>1, <1>3
  <2>2. i < n + 1 => idx[i] < idx[n + 1]
    BY <1>1, <1>3
  <2>3. idx[n + 1] \in 1..m
    BY <1>1, <1>3
  <2> QED BY <1>1, <2>1, <2>2, <2>3
<1>5. \A i \in 1..n : idx[i] \in 1..(m - 1)
  <2> SUFFICES ASSUME NEW i \in 1..n PROVE idx[i] \in 1..(m - 1)
    OBVIOUS
  <2>1. i \in 1..(n + 1) /\ n + 1 \in 1..(n + 1) /\ i < n + 1
    BY <1>1
  <2>2. idx[i] < idx[n + 1] /\ idx[i] \in 1..m
    BY <1>3, <2>1
  <2> QED BY <1>1, <1>4, <2>2
<1> DEFINE to == [i \in 1..n |-> idx[i]]
<1>6. to \in [1..n -> 1..(m - 1)]
  BY <1>5
<1>7. {to[i] : i \in 1..n} = {k \in 1..(m - 1) : less[k] \notin S}
  <2>1. ASSUME NEW i \in 1..n PROVE to[i] \in {k \in 1..(m - 1) : less[k] \notin S}
    <3>1. idx[i] \in 1..(m - 1) /\ i \in 1..(n + 1)
      BY <1>1, <1>5
    <3>2. seq[idx[i]] \notin S
      BY <1>3, <3>1
    <3> QED BY <1>2, <3>1, <3>2
  <2>2. ASSUME NEW k \in 1..(m - 1), less[k] \notin S PROVE \E i \in 1..n : to[i] = k
    <3>1. k \in 1..m /\ seq[k] \notin S /\ k # m
      BY <1>1, <1>2, <2>2
    <3>2. PICK i \in 1..(n + 1) : idx[i] = k
      BY <1>3, <3>1
    <3>3. i \in 1..n
      BY <1>1, <1>4, <3>1, <3>2
    <3> QED BY <3>2, <3>3
  <2> QED BY <2>1, <2>2
<1>8. \A i, j \in 1..n : i < j => to[i] < to[j]
  BY <1>1, <1>3
<1>9. \A i \in 1..n : ids[i] = less[to[i]]
  BY <1>1, <1>2, <1>3, <1>5
<1> HIDE DEF to
<1>10. IsSeqWithout(ids, less, S)
  BY <1>1, <1>2, <1>6, <1>7, <1>8, <1>9 DEF IsSeqWithout
<1> QED BY <1>10 DEF less

\* No token is used twice, the waves' tokens are those of declared waves, and apart from
\* them the ledger has the TeamExecutor's rounds and at most the one that is, or was, being
\* opened.
Accounts ==
  /\ \A i, j \in DOMAIN rounds : rounds[i] = rounds[j] => i = j
  /\ \A i \in DOMAIN rounds : rounds[i] \in Waves => rounds[i] \in Declared
  /\ \A v \in Declared : \E i \in DOMAIN rounds : rounds[i] = v
  /\ \/ opening = Nil /\ CoreRoundsAre(team)
     \/ \E r \in Rounds : CoreRoundsAre(Append(team, r)) /\ opening \in {r, Nil}

\* A round is started when the two lists agree, and its token is a new one.
LEMMA OpenRoundAccounts ==
  ASSUME TypeOK, Accounts, NEW r \in Rounds, OpenRound(r)
  PROVE  Accounts'
<1> DEFINE m == Len(rounds)
<1>1. /\ rounds' = Append(rounds, r) /\ opening' = r /\ team' = team /\ wave' = wave
      /\ CoreRoundsAre(team) /\ r \notin Elements(rounds)
  BY DEF OpenRound
<1>2. rounds \in Seq(Rounds \cup Waves) /\ team \in Seq(Rounds \cup Waves)
  BY DEF TypeOK
<1>3. r \notin Waves /\ r \notin Declared /\ Declared' = Declared
  BY <1>1, ConstantsAssumption DEF Declared
<1>4. \A i \in DOMAIN rounds : rounds[i] # r
  BY <1>1 DEF Elements
<1>5. CoreRoundsAre(Append(team, r))'
  BY <1>1, <1>2, <1>3, WithoutKept DEF CoreRoundsAre
<1>6. /\ DOMAIN rounds' = 1..(m + 1) /\ DOMAIN rounds = 1..m /\ m \in Nat
      /\ rounds'[m + 1] = r /\ \A i \in 1..m : rounds'[i] = rounds[i]
  BY <1>1, <1>2
<1> HIDE DEF m
<1> QED BY <1>1, <1>3, <1>4, <1>5, <1>6 DEF Accounts

\* A declared wave takes a token of its own.
LEMMA AddWaveAccounts ==
  ASSUME TypeOK, Accounts, NEW v \in Waves, NEW ws \in SUBSET Workers, NEW ds \in SUBSET Waves,
         AddWave(v, ws, ds)
  PROVE  Accounts'
<1> DEFINE m == Len(rounds)
<1>1. /\ rounds' = Append(rounds, v) /\ opening' = opening /\ team' = team
      /\ wave' = [wave EXCEPT ![v] = [stage |-> "pending", deps |-> ds, workers |-> ws,
                                      ordinal |-> Cardinality(Declared) + 1]]
      /\ wave[v].stage = "none"
  BY DEF AddWave, local
<1>2. rounds \in Seq(Rounds \cup Waves) /\ team \in Seq(Rounds \cup Waves)
  BY DEF TypeOK
<1>3. v \notin Declared /\ Declared' = Declared \cup {v}
  BY <1>1 DEF Declared, TypeOK
<1>4. \A i \in DOMAIN rounds : rounds[i] # v
  BY <1>3 DEF Accounts
<1>5. ASSUME NEW ids \in Seq(Rounds \cup Waves), CoreRoundsAre(ids)
      PROVE  IsSeqWithout(ids, rounds', Declared')
  <2>1. IsSeqWithout(ids, Append(rounds, v), Declared \cup {v})
    BY <1>2, <1>4, <1>5, WithoutDropped DEF CoreRoundsAre
  <2> QED BY <1>1, <1>3, <2>1 DEF CoreRoundsAre
<1>6. \/ opening' = Nil /\ CoreRoundsAre(team)'
      \/ \E r \in Rounds : CoreRoundsAre(Append(team, r))' /\ opening' \in {r, Nil}
  <2>1. CASE opening = Nil /\ CoreRoundsAre(team)
    BY <1>1, <1>2, <1>5, <2>1 DEF CoreRoundsAre
  <2>2. ASSUME NEW r \in Rounds, CoreRoundsAre(Append(team, r)), opening \in {r, Nil}
        PROVE  CoreRoundsAre(Append(team, r))' /\ opening' \in {r, Nil}
    <3>1. Append(team, r) \in Seq(Rounds \cup Waves)
      BY <1>2
    <3>2. IsSeqWithout(Append(team, r), rounds', Declared')
      BY <1>5, <2>2, <3>1
    <3>3. CoreRoundsAre(Append(team, r))'
      BY <1>1, <3>2 DEF CoreRoundsAre
    <3> QED BY <1>1, <2>2, <3>3
  <2> QED BY <2>1, <2>2 DEF Accounts
<1>7. /\ DOMAIN rounds' = 1..(m + 1) /\ DOMAIN rounds = 1..m /\ m \in Nat
      /\ rounds'[m + 1] = v /\ \A i \in 1..m : rounds'[i] = rounds[i]
  BY <1>1, <1>2
<1>8. team' = team
  BY <1>1
<1> HIDE DEF m
<1>9. \A i, j \in DOMAIN rounds' : rounds'[i] = rounds'[j] => i = j
  BY <1>4, <1>7 DEF Accounts
<1>10. \A i \in DOMAIN rounds' : rounds'[i] \in Waves => rounds'[i] \in Declared'
  BY <1>3, <1>7 DEF Accounts
<1>11. \A u \in Declared' : \E i \in DOMAIN rounds' : rounds'[i] = u
  BY <1>3, <1>7 DEF Accounts
<1> QED BY <1>6, <1>8, <1>9, <1>10, <1>11 DEF Accounts

\* What is being opened is written, cancelled or left behind.
LEMMA OpeningAccounts ==
  ASSUME TypeOK, Accounts, RoundWritten \/ RoundWriteFails \/ RoundOpenerDies
  PROVE  Accounts'
<1>0. PICK r \in Rounds : CoreRoundsAre(Append(team, r)) /\ opening = r
  BY DEF Accounts, RoundWritten, RoundWriteFails, RoundOpenerDies
<1>1. wave' = wave /\ opening' = Nil /\ Declared' = Declared /\ opening # Nil
  BY DEF RoundWritten, RoundWriteFails, RoundOpenerDies, Declared
<1>2. rounds \in Seq(Rounds \cup Waves) /\ team \in Seq(Rounds \cup Waves)
  BY DEF TypeOK
<1>3. CASE RoundWritten
  <2>1. rounds' = rounds /\ team' = Append(team, opening)
    BY <1>3 DEF RoundWritten
  <2>2. CoreRoundsAre(team)'
    BY <1>0, <1>1, <2>1 DEF CoreRoundsAre
  <2> QED BY <1>1, <2>1, <2>2 DEF Accounts
<1>4. CASE RoundWriteFails \/ RoundOpenerDies
  <2>1. team' = team
    BY <1>4 DEF RoundWriteFails, RoundOpenerDies
  <2>2. CASE rounds' = rounds
    <3>1. CoreRoundsAre(Append(team, r))'
      BY <1>0, <1>1, <2>1, <2>2 DEF CoreRoundsAre
    <3> QED BY <1>1, <2>2, <3>1 DEF Accounts
  <2>3. CASE rounds # <<>> /\ rounds[Len(rounds)] = opening /\ rounds' = SubSeq(rounds, 1, Len(rounds) - 1)
    <3> DEFINE m == Len(rounds)
    <3>1. opening \notin Declared /\ opening \notin Waves
      BY <1>0, ConstantsAssumption DEF Declared
    <3>2. IsSeqWithout(team, SubSeq(rounds, 1, Len(rounds) - 1), Declared)
      BY <1>0, <1>2, <2>3, <3>1, WithoutLast DEF CoreRoundsAre
    <3>3. CoreRoundsAre(team)'
      BY <1>1, <2>1, <2>3, <3>2 DEF CoreRoundsAre
    <3>4. /\ DOMAIN rounds' = 1..(m - 1) /\ DOMAIN rounds = 1..m /\ m \in Nat /\ m >= 1
          /\ rounds[m] = opening /\ \A i \in 1..(m - 1) : rounds'[i] = rounds[i]
      BY <1>2, <2>3
    <3> HIDE DEF m
    <3>5. \A v \in Declared : \E i \in 1..(m - 1) : rounds[i] = v
      BY <3>1, <3>4 DEF Accounts
    <3> QED BY <1>1, <2>1, <3>3, <3>4, <3>5 DEF Accounts
  <2> QED BY <1>4, <2>2, <2>3 DEF RoundWriteFails, RoundOpenerDies, CancelRound
<1> QED BY <1>3, <1>4

\* Every other command leaves the rounds and what is declared alone.
LEMMA AccountsStep ==
  ASSUME TypeOK, Accounts, [Next]_vars
  PROVE  Accounts'
<1>1. ASSUME UNCHANGED <<rounds, team, opening>>, Declared' = Declared PROVE Accounts'
  BY <1>1 DEF Accounts, CoreRoundsAre
<1>2. ASSUME NEW ws \in SUBSET Workers,
             Register(ws) \/ Launch(ws) \/ LaunchSettled(ws) \/ LaunchRolledBack(ws)
      PROVE  UNCHANGED <<rounds, team, opening>> /\ Declared' = Declared
  BY <1>2 DEF Register, Launch, LaunchSettled, LaunchRolledBack, local, Declared
<1>3. ASSUME NEW w \in Workers,
             \/ Unregister(w) \/ ReportTerminal(w) \/ ReportCleanup(w)
             \/ \E status \in Outcomes : Finish(w, status)
      PROVE  UNCHANGED <<rounds, team, opening>> /\ Declared' = Declared
  BY <1>3 DEF Unregister, ReportTerminal, RecordTerminal, ReportCleanup, RecordCleanup, Finish,
              local, Declared
<1>4. ASSUME NEW v \in Waves, OpenWave(v) \/ FanIn(v)
      PROVE  UNCHANGED <<rounds, team, opening>> /\ Declared' = Declared
  <2>1. UNCHANGED <<rounds, team, opening>>
    BY <1>4 DEF OpenWave, FanIn, local
  <2>2. wave[v].stage # "none" /\ \E s \in Stages \ {"none"} : wave' = [wave EXCEPT ![v].stage = s]
    BY <1>4, ClosingStep DEF OpenWave, Stages, ClosedStages
  <2>3. Declared' = Declared
    BY <2>2, Restaged DEF Declared, TypeOK, WaveRecord, Stages
  <2> QED BY <2>1, <2>3
<1>5. UNCHANGED vars => UNCHANGED <<rounds, team, opening>> /\ Declared' = Declared
  BY DEF vars, Declared
<1> QED BY <1>1, <1>2, <1>3, <1>4, <1>5, OpenRoundAccounts, AddWaveAccounts, OpeningAccounts DEF Next

\* Rounds of both kinds are accounted for: no token is used twice, a declared wave keeps
\* its token, and the two lists differ by at most the round that is, or was, being opened
\* (delegation_run.py:219-234, team_executor.py:373-391).
THEOREM RoundsStayAccountedFor == Spec => []RoundsAccountedFor
<1>1. Init => Accounts
  <2> SUFFICES ASSUME Init PROVE Accounts
    OBVIOUS
  <2>1. rounds = <<>> /\ team = <<>> /\ Declared = {} /\ opening = Nil
    BY DEF Init, Declared
  <2>2. DOMAIN rounds = {} /\ DOMAIN team = {}
    BY <2>1
  <2>3. \E fn \in [{} -> {}] : TRUE
    <3>1. [i \in {} |-> i] \in [{} -> {}]
      OBVIOUS
    <3> QED BY <3>1
  <2>4. CoreRoundsAre(team)
    BY <2>2, <2>3 DEF CoreRoundsAre, IsSeqWithout
  <2> QED BY <2>1, <2>2, <2>4 DEF Accounts
<1>2. TypeOK /\ TypeOK' /\ Accounts /\ [Next]_vars => Accounts'
  BY AccountsStep
<1>3. TypeOK /\ Accounts => RoundsAccountedFor
  <2> SUFFICES ASSUME TypeOK, Accounts PROVE RoundsAccountedFor
    OBVIOUS
  <2>1. Declared \subseteq Elements(rounds)
    BY DEF Accounts, Elements
  <2>2. CoreRoundsAre(team) \/ \E r \in Rounds : CoreRoundsAre(Append(team, r))
    BY DEF Accounts
  <2>3. opening # Nil => CoreRoundsAre(Append(team, opening))
    BY DEF Accounts
  <2> QED BY <2>1, <2>2, <2>3 DEF Accounts, RoundsAccountedFor
<1> QED BY <1>1, <1>2, <1>3, TypeCorrect, PTL DEF Spec

--------------------------------------------------------------------------------
(* The publication of fan-in receipts                                           *)

Active(p, v) == pc[p] # "idle" /\ at[p] = v
Writes(p, v, place) == pc[p] = "write" /\ at[p] = v /\ open[p] = place

\* Whoever works on a wave has joined it first.
AtJoined == \A p \in Joiners : pc[p] # "idle" => at[p] \in joined

\* A wave that one process at a time joins: its writer has the temporary file, and what it
\* renames is whole.
SerialInv ==
  \A v \in Waves \cap SerialWaves :
    /\ output[v] # "empty"
    /\ \A p, q \in Joiners : Active(p, v) /\ Active(q, v) => p = q
    /\ \A p \in Joiners :
         /\ pc[p] = "write" /\ at[p] = v => open[p] = "temp"
         /\ pc[p] \in {"open", "write", "rename"} /\ at[p] = v => v \notin reported
         /\ pc[p] = "rename" /\ at[p] = v => temp[v] = "receipt"
    /\ v \in reported => output[v] = "receipt"

\* A wave whose fan-ins do not die: an empty file has a writer that has it open, wherever it
\* was moved meanwhile, and a missing one a process that will create it.
RacingInv ==
  \A v \in Waves \ MortalWaves :
    /\ output[v] = "empty" => \E p \in Joiners : Writes(p, v, "output")
    /\ temp[v] = "empty" => \E p \in Joiners : Writes(p, v, "temp")
    /\ output[v] = "missing" =>
         /\ v \in joined => \E p \in Joiners : Active(p, v)
         /\ \A p \in Joiners : at[p] = v /\ pc[p] \in {"write", "rename"} => temp[v] # "missing"

PublishInv == Publication!TypeOK /\ AtJoined /\ SerialInv /\ RacingInv

\* Every step keeps the paths and the processes in their vocabulary.
LEMMA PublishTypeStep ==
  ASSUME Publication!TypeOK, AtJoined, [Publication!Next]_published
  PROVE  Publication!TypeOK' /\ AtJoined'
<1> USE DEF Publication!TypeOK, AtJoined, Publication!Goto, Publication!Contents
<1>1. ASSUME NEW p \in Joiners, NEW v \in Waves, Publication!Join(p, v) PROVE Publication!TypeOK' /\ AtJoined'
  BY <1>1 DEF Publication!Join
<1>2. ASSUME NEW p \in Joiners, Publication!Look(p) \/ Publication!Open(p) PROVE Publication!TypeOK' /\ AtJoined'
  BY <1>2 DEF Publication!Look, Publication!Open
<1>3. ASSUME NEW p \in Joiners, Publication!Write(p) PROVE Publication!TypeOK' /\ AtJoined'
  BY <1>3 DEF Publication!Write
<1>4. ASSUME NEW p \in Joiners, Publication!Rename(p) PROVE Publication!TypeOK' /\ AtJoined'
  <2>1. open' \in [Joiners -> {"temp", "output", "gone"}]
    BY <1>4 DEF Publication!Rename, Publication!Moved
  <2>2. temp[at[p]] # "foreign" /\ output' \in [Waves -> Publication!Contents] /\ temp' \in [Waves -> Publication!Contents \ {"foreign"}]
    BY <1>4 DEF Publication!Rename
  <2> QED BY <1>4, <2>1, <2>2 DEF Publication!Rename
<1>5. ASSUME NEW p \in Joiners, Publication!RenameFails(p) \/ Publication!Die(p) PROVE Publication!TypeOK' /\ AtJoined'
  BY <1>5 DEF Publication!RenameFails, Publication!Die
<1>6. CASE UNCHANGED published
  BY <1>6 DEF published
<1> QED BY <1>1, <1>2, <1>3, <1>4, <1>5, <1>6 DEF Publication!Next

\* A serial wave: at most one process is at work on it, and it renames what it has written.
LEMMA SerialStep ==
  ASSUME Publication!TypeOK, AtJoined, SerialInv, [Publication!Next]_published
  PROVE  SerialInv'
<1> USE DEF Publication!TypeOK, Active, Publication!Goto
<1> SUFFICES ASSUME NEW v \in Waves \cap SerialWaves
    PROVE  /\ output'[v] # "empty"
           /\ \A p, q \in Joiners : Active(p, v)' /\ Active(q, v)' => p = q
           /\ \A p \in Joiners :
                /\ pc'[p] = "write" /\ at'[p] = v => open'[p] = "temp"
                /\ pc'[p] \in {"open", "write", "rename"} /\ at'[p] = v => v \notin reported'
                /\ pc'[p] = "rename" /\ at'[p] = v => temp'[v] = "receipt"
           /\ v \in reported' => output'[v] = "receipt"
  BY DEF SerialInv
<1>0. /\ output[v] # "empty"
      /\ \A p, q \in Joiners : Active(p, v) /\ Active(q, v) => p = q
      /\ \A p \in Joiners :
           /\ pc[p] = "write" /\ at[p] = v => open[p] = "temp"
           /\ pc[p] \in {"open", "write", "rename"} /\ at[p] = v => v \notin reported
           /\ pc[p] = "rename" /\ at[p] = v => temp[v] = "receipt"
      /\ v \in reported => output[v] = "receipt"
  BY DEF SerialInv
<1>1. CASE \E p \in Joiners, w \in Waves : Publication!Join(p, w)
  BY <1>0, <1>1 DEF Publication!Join
<1>2. CASE \E p \in Joiners : Publication!Look(p)
  BY <1>0, <1>2 DEF Publication!Look
<1>3. CASE \E p \in Joiners : Publication!Open(p)
  BY <1>0, <1>3 DEF Publication!Open
<1>4. CASE \E p \in Joiners : Publication!Write(p)
  BY <1>0, <1>4 DEF Publication!Write
<1>5. CASE \E p \in Joiners : Publication!Rename(p)
  <2>. PICK p \in Joiners : Publication!Rename(p)
    BY <1>5
  <2>1. CASE at[p] = v
    BY <1>0, <2>1 DEF Publication!Rename, Publication!Moved
  <2>2. CASE at[p] # v
    BY <1>0, <2>2 DEF Publication!Rename, Publication!Moved
  <2> QED BY <2>1, <2>2
<1>6. CASE \E p \in Joiners : Publication!RenameFails(p) \/ Publication!Die(p)
  BY <1>0, <1>6 DEF Publication!RenameFails, Publication!Die
<1>7. CASE UNCHANGED published
  BY <1>0, <1>7 DEF published
<1> QED BY <1>1, <1>2, <1>3, <1>4, <1>5, <1>6, <1>7 DEF Publication!Next

\* A wave whose fan-ins do not die: whatever is empty or missing has a process that fills it.
LEMMA RacingStep ==
  ASSUME Publication!TypeOK, AtJoined, RacingInv, [Publication!Next]_published
  PROVE  RacingInv'
<1> USE DEF Publication!TypeOK, Active, Publication!Goto, Writes
<1> SUFFICES ASSUME NEW v \in Waves \ MortalWaves
    PROVE  /\ output'[v] = "empty" => \E p \in Joiners : Writes(p, v, "output")'
           /\ temp'[v] = "empty" => \E p \in Joiners : Writes(p, v, "temp")'
           /\ output'[v] = "missing" =>
                /\ v \in joined' => \E p \in Joiners : Active(p, v)'
                /\ \A p \in Joiners : at'[p] = v /\ pc'[p] \in {"write", "rename"} => temp'[v] # "missing"
  BY DEF RacingInv
<1>0. /\ output[v] = "empty" => \E p \in Joiners : Writes(p, v, "output")
      /\ temp[v] = "empty" => \E p \in Joiners : Writes(p, v, "temp")
      /\ output[v] = "missing" =>
           /\ v \in joined => \E p \in Joiners : Active(p, v)
           /\ \A p \in Joiners : at[p] = v /\ pc[p] \in {"write", "rename"} => temp[v] # "missing"
  BY DEF RacingInv
<1>1. CASE \E p \in Joiners, w \in Waves : Publication!Join(p, w)
  BY <1>0, <1>1 DEF Publication!Join
<1>2. CASE \E p \in Joiners : Publication!Look(p)
  BY <1>0, <1>2 DEF Publication!Look
<1>3. CASE \E p \in Joiners : Publication!Open(p)
  BY <1>0, <1>3 DEF Publication!Open
<1>4. CASE \E p \in Joiners : Publication!Write(p)
  BY <1>0, <1>4 DEF Publication!Write
<1>5. CASE \E p \in Joiners : Publication!Rename(p)
  <2>. PICK p \in Joiners : Publication!Rename(p)
    BY <1>5
  <2>1. CASE at[p] = v
    BY <1>0, <2>1 DEF Publication!Rename, Publication!Moved
  <2>2. CASE at[p] # v
    BY <1>0, <2>2 DEF Publication!Rename, Publication!Moved
  <2> QED BY <2>1, <2>2
<1>6. CASE \E p \in Joiners : Publication!RenameFails(p)
  BY <1>0, <1>6 DEF Publication!RenameFails
<1>7. CASE \E p \in Joiners : Publication!Die(p)
  BY <1>0, <1>7 DEF Publication!Die
<1>8. CASE UNCHANGED published
  BY <1>0, <1>8 DEF published
<1> QED BY <1>1, <1>2, <1>3, <1>4, <1>5, <1>6, <1>7, <1>8 DEF Publication!Next

\* The joined waves and their files are sound whatever the behaviour is one of.
PublicationPart == part = "publication" => PublishInv

LEMMA PublicationInit == AllInit => PublicationPart
BY DEF AllInit, PublicationPart, PublishInv, Publication!Init, Publication!TypeOK, AtJoined, SerialInv,
       RacingInv, Active, Writes, Publication!Contents

LEMMA PublicationStep ==
  ASSUME PublicationPart, [AllNext]_AllVars
  PROVE  PublicationPart'
<1>1. part' = part
  BY DEF AllNext, AllVars
<1>2. part = "publication" => [Publication!Next]_published
  BY DEF AllNext, AllVars
<1>3. PublishInv /\ [Publication!Next]_published => PublishInv'
  BY PublishTypeStep, SerialStep, RacingStep DEF PublishInv
<1> QED BY <1>1, <1>2, <1>3 DEF PublicationPart

\* A published output is whole or absent while one process at a time joins the wave, and
\* when all who joined have returned the receipt is there, also after a race
\* (delegation_run.py:281-300).
THEOREM PublicationHolds == AllSpec => []PublicationIsSound
<1>1. PublishInv => Publication!PublicationInv /\ Publication!ReportedIsPublished
  BY DEF PublishInv, Publication!PublicationInv, Publication!OutputIsWhole,
         Publication!ReportedIsPublished, SerialInv, Publication!TypeOK
<1>2. PublishInv => Publication!SettledIsPublished
  BY DEF PublishInv, Publication!SettledIsPublished, RacingInv, Publication!TypeOK, Active, Writes,
         Publication!Contents
<1>3. PublicationPart => PublicationIsSound
  BY <1>1, <1>2 DEF PublicationPart, PublicationIsSound, Publication!PublicationIsSound
<1> QED BY <1>3, PublicationInit, PublicationStep, PTL DEF AllSpec
================================================================================
