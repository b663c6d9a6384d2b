----------------------------- MODULE DelegationRun -----------------------------
(***************************************************************************)
(* One delegation run: the ledger of workers, rounds, waves and receipts   *)
(* kept by docs/sejong/scripts/delegation_run.py, delegation_wave.py,      *)
(* delegation_cleanup.py and their validators, together with the rounds    *)
(* and launches of the TeamExecutor that is linked to it.                  *)
(*                                                                         *)
(* Every command loads, checks and replaces the ledger under one file      *)
(* lock, so it is one step.  The TeamExecutor's open-round and its direct  *)
(* launch touch the ledger, leave the lock, do something that may fail and *)
(* come back to compensate: those are the steps other commands get         *)
(* between.                                                                *)
(***************************************************************************)
EXTENDS Naturals, Sequences, FiniteSets

CONSTANTS
  Workers,         \* worker ids
  Threads,         \* the workers that report through a codex-thread:// ref
  Waves,           \* wave ids; also their round tokens and fan-in receipt ids
  Rounds,          \* round ids of the TeamExecutor
  MaxTotal, MaxConcurrency, MaxRounds,   \* the budget of the run
  TerminalIds,     \* the receipt ids a caller may name for a worker's terminal
  CleanupIds,      \* and for its cleanup
  Leases,          \* the lease and resource ids its cleanups may list, as sets
  Outcomes,        \* the terminal statuses backends report
  Forms,           \* FALSE \in Forms: texts the validator will not accept
  Interruptions,   \* may a write fail or the TeamExecutor die?
  Nil

TerminalStatuses == {"completed", "failed", "timed_out", "blocked"}
CleanupStatuses  == {"released", "preserved", "failed", "audit_only"}
ClosedStages     == {"passed", "failed", "blocked"}

ASSUME ConstantsAssumption ==
  /\ IsFiniteSet(Workers) /\ IsFiniteSet(Waves)
  /\ Threads \subseteq Workers
  /\ MaxTotal \in Nat \ {0} /\ MaxRounds \in Nat \ {0}
  /\ MaxConcurrency \in 1..MaxTotal
  /\ Rounds \cap Waves = {} /\ Nil \notin Rounds
  /\ Outcomes \subseteq TerminalStatuses
  /\ Forms \subseteq BOOLEAN
  /\ Interruptions \in BOOLEAN

VARIABLES
  worker,      \* status of each worker, "absent" when not registered
  rounds,      \* rounds_started
  wave,        \* each wave, stage "none" before it is declared
  terminals,   \* receipts of type worker_terminal
  cleanups,    \* receipts of type worker_cleanup
  fanIns,      \* receipts of type fan_in
  starting,    \* groups launched directly and not yet up in tmux
  team,        \* round ids in the TeamExecutor's rounds.json
  opening      \* the round open-round has started and not yet written, or Nil

vars == <<worker, rounds, wave, terminals, cleanups, fanIns, starting, team, opening>>
receipts == <<terminals, cleanups, fanIns>>
local == <<starting, team, opening>>

WorkerStatuses == {"absent", "registered", "launched"} \cup TerminalStatuses

Init ==
  /\ worker = [w \in Workers |-> "absent"]
  /\ rounds = <<>>
  /\ wave = [v \in Waves |-> [stage |-> "none", deps |-> {}, workers |-> {}, ordinal |-> 0]]
  /\ terminals = {} /\ cleanups = {} /\ fanIns = {}
  /\ starting = {} /\ team = <<>> /\ opening = Nil

--------------------------------------------------------------------------------
\* Reading the ledger.

With(status) == {w \in Workers : worker[w] = status}
Known == Workers \ With("absent")
Declared == {v \in Waves : wave[v].stage # "none"}
Assigned == UNION {wave[v].workers : v \in Waves}
Receipts == terminals \cup cleanups \cup fanIns
Elements(seq) == {seq[i] : i \in DOMAIN seq}

TerminalsOf(v) == {t \in terminals : t.wave = v}
CleanupsOf(v) == {c \in cleanups : c.wave = v}
Ids(rs) == {r.id : r \in rs}

CleanupRequired(ts) == {t.worker : t \in ts} \cap Threads

Aggregate(ts, cs) ==
  LET statuses == {t.status : t \in ts}
      cleanupReady == CleanupRequired(ts) = {} \/ {c.status : c \in cs} = {"released"}
  IN  CASE statuses = {"completed"} /\ cleanupReady -> "passed"
        [] statuses \cap {"failed", "timed_out"} # {} -> "failed"
        [] OTHER -> "blocked"

Blocking(ts, cs) ==
  Ids({t \in ts : t.status # "completed"}) \cup Ids({c \in cs : c.status # "released"})

--------------------------------------------------------------------------------
\* The validator every wave command runs first.

ReceiptsValid ==
  /\ \A r, s \in Receipts : r.id = s.id => r = s
  /\ \A t \in terminals :
       /\ t.formed
       /\ t.worker \in wave[t.wave].workers
       /\ worker[t.worker] = t.status
  /\ \A c \in cleanups : c.worker \in wave[c.wave].workers
  /\ \A c, d \in cleanups : c # d => c.resources \cap d.resources = {}

WavesValid ==
  /\ \A v \in Declared :
       /\ wave[v].workers # {} /\ wave[v].workers \subseteq Known
       /\ \A d \in wave[v].deps : d \in Declared /\ wave[d].ordinal < wave[v].ordinal
  /\ \A u, v \in Declared :
       u # v => /\ wave[u].workers \cap wave[v].workers = {}
                /\ wave[u].ordinal # wave[v].ordinal
  /\ \A v \in Declared : wave[v].ordinal \in 1..Cardinality(Declared)

WorkersMatchReceipts(v) ==
  \A w \in wave[v].workers :
    LET ts == {t \in terminals : t.worker = w}
        cs == {c \in cleanups : c.worker = w}
    IN  /\ worker[w] \in TerminalStatuses <=> ts # {}
        /\ Cardinality(ts) <= 1 /\ Cardinality(cs) <= 1
        /\ cs # {} => \E t \in ts : \A c \in cs : c.wave = t.wave

FanInMatches(v, f) ==
  LET ts == TerminalsOf(v)
      cs == CleanupsOf(v)
  IN  /\ f.terminals = Ids(ts) /\ f.cleanups = Ids(cs) /\ f.blocking = Blocking(ts, cs)
      /\ {t.worker : t \in ts} = wave[v].workers
      /\ {c.worker : c \in cs} = CleanupRequired(ts)
      /\ f.status = Aggregate(ts, cs) /\ f.status = wave[v].stage

ClosedExactlyOnce(v) ==
  LET fs == {f \in fanIns : f.wave = v}
  IN  IF wave[v].stage \in ClosedStages
      THEN Cardinality(fs) = 1 /\ \A f \in fs : FanInMatches(v, f)
      ELSE fs = {}

Valid ==
  /\ Len(rounds) <= MaxRounds
  /\ WavesValid
  /\ ReceiptsValid
  /\ \A v \in Declared : WorkersMatchReceipts(v) /\ ClosedExactlyOnce(v)

--------------------------------------------------------------------------------
\* Workers outside waves.

Register(ws) ==
  /\ ws # {} /\ ws \cap Known = {}
  /\ Cardinality(Known) + Cardinality(ws) <= MaxTotal
  /\ worker' = [w \in Workers |-> IF w \in ws THEN "registered" ELSE worker[w]]
  /\ UNCHANGED <<rounds, wave, receipts, local>>

\* The TeamExecutor takes back a registration when its own files cannot be written.
Unregister(w) ==
  /\ Interruptions
  /\ worker[w] = "registered" /\ w \notin Assigned
  /\ worker' = [worker EXCEPT ![w] = "absent"]
  /\ UNCHANGED <<rounds, wave, receipts, local>>

\* Mutant: the slots already taken are not counted.
ReserveUncounted(ws) ==
  /\ ws \subseteq With("registered")
  /\ Cardinality(ws) <= MaxConcurrency
  /\ worker' = [w \in Workers |-> IF w \in ws THEN "launched" ELSE worker[w]]

Reserve(ws) ==
  /\ ws \subseteq With("registered")
  /\ Cardinality(With("launched")) + Cardinality(ws) <= MaxConcurrency
  /\ worker' = [w \in Workers |-> IF w \in ws THEN "launched" ELSE worker[w]]

Launch(ws) ==
  /\ ws # {} /\ ws \cap Assigned = {}
  /\ Reserve(ws)
  /\ starting' = starting \cup {ws}
  /\ UNCHANGED <<rounds, wave, receipts, team, opening>>

\* tmux is up, or the launcher died, or the rollback was refused.
LaunchSettled(ws) ==
  /\ ws \in starting
  /\ starting' = starting \ {ws}
  /\ UNCHANGED <<worker, rounds, wave, receipts, team, opening>>

\* Mutant: the rollback does not look at what its workers have become.
LaunchRolledBackBlind(ws) ==
  /\ Interruptions
  /\ ws \in starting
  /\ worker' = [w \in Workers |-> IF w \in ws THEN "registered" ELSE worker[w]]
  /\ starting' = starting \ {ws}
  /\ UNCHANGED <<rounds, wave, receipts, team, opening>>

LaunchRolledBack(ws) ==
  /\ Interruptions
  /\ ws \in starting /\ ws \subseteq With("launched")
  /\ worker' = [w \in Workers |-> IF w \in ws THEN "registered" ELSE worker[w]]
  /\ starting' = starting \ {ws}
  /\ UNCHANGED <<rounds, wave, receipts, team, opening>>

\* Mutant: finish-worker on a wave worker, without a receipt.
FinishAssigned(w, status) ==
  /\ worker[w] = "launched"
  /\ worker' = [worker EXCEPT ![w] = status]
  /\ UNCHANGED <<rounds, wave, receipts, local>>

Finish(w, status) ==
  /\ worker[w] = "launched" /\ w \notin Assigned
  /\ worker' = [worker EXCEPT ![w] = status]
  /\ UNCHANGED <<rounds, wave, receipts, local>>

--------------------------------------------------------------------------------
\* Rounds of the TeamExecutor, under its own lock from OpenRound on.

\* ids are the elements of seq that are not in S, in their order.
IsSeqWithout(ids, seq, S) ==
  \E at \in [DOMAIN ids -> DOMAIN seq] :
    /\ \A i, j \in DOMAIN ids : i < j => at[i] < at[j]
    /\ {at[i] : i \in DOMAIN ids} = {n \in DOMAIN seq : seq[n] \notin S}
    /\ \A i \in DOMAIN ids : ids[i] = seq[at[i]]

CoreRoundsAre(ids) == IsSeqWithout(ids, rounds, Declared)

OpenRound(r) ==
  /\ opening = Nil
  /\ CoreRoundsAre(team)
  /\ r \notin Elements(rounds) /\ Len(rounds) < MaxRounds
  /\ rounds' = Append(rounds, r)
  /\ opening' = r
  /\ UNCHANGED <<worker, wave, receipts, starting, team>>

RoundWritten ==
  /\ opening # Nil
  /\ team' = Append(team, opening)
  /\ opening' = Nil
  /\ UNCHANGED <<worker, rounds, wave, receipts, starting>>

\* Mutant: the latest round is cancelled, whichever it is.
CancelLatest ==
  rounds' = IF rounds # <<>> THEN SubSeq(rounds, 1, Len(rounds) - 1) ELSE rounds

\* cancel_round refuses when the round is no longer the latest.
CancelRound ==
  rounds' = IF rounds # <<>> /\ rounds[Len(rounds)] = opening
            THEN SubSeq(rounds, 1, Len(rounds) - 1)
            ELSE rounds

RoundWriteFails ==
  /\ Interruptions /\ opening # Nil
  /\ CancelRound
  /\ opening' = Nil
  /\ UNCHANGED <<worker, wave, receipts, starting, team>>

\* The process dies after start_round; the kernel drops its lock.
RoundOpenerDies ==
  /\ Interruptions /\ opening # Nil
  /\ opening' = Nil
  /\ UNCHANGED <<worker, rounds, wave, receipts, starting, team>>

--------------------------------------------------------------------------------
\* Waves.

AddWave(v, ws, ds) ==
  /\ wave[v].stage = "none" /\ ds \subseteq Declared
  /\ ws # {} /\ ws \subseteq With("registered") /\ ws \cap Assigned = {}
  /\ Len(rounds) < MaxRounds
  /\ Valid
  /\ wave' = [wave EXCEPT ![v] = [stage |-> "pending", deps |-> ds, workers |-> ws,
                                  ordinal |-> Cardinality(Declared) + 1]]
  /\ rounds' = Append(rounds, v)
  /\ UNCHANGED <<worker, receipts, local>>

\* Mutant: any fan-in unlocks the waves behind it.
AnyFanIn(v) == \E f \in fanIns : f.wave = v

PassedFanIn(v) == \E f \in fanIns : f.wave = v /\ f.status = "passed"

OpenWave(v) ==
  /\ wave[v].stage = "pending"
  /\ \A u \in Waves : wave[u].stage # "active"
  /\ \A d \in wave[v].deps : PassedFanIn(d)
  /\ Reserve(wave[v].workers)
  /\ Valid
  /\ wave' = [wave EXCEPT ![v].stage = "active"]
  /\ UNCHANGED <<rounds, receipts, local>>

RecordTerminal(v, w, id, status, formed) ==
  /\ wave[v].stage = "active" /\ w \in wave[v].workers
  /\ id \notin Ids(Receipts)
  /\ \A t \in terminals : t.worker # w
  /\ worker[w] = "launched"
  /\ Valid
  /\ terminals' = terminals \cup
       {[id |-> id, wave |-> v, worker |-> w, status |-> status, formed |-> formed]}
  /\ worker' = [worker EXCEPT ![w] = status]
  /\ UNCHANGED <<rounds, wave, cleanups, fanIns, local>>

\* The native adapter is the only caller: a cleanup names a codex-thread.
RecordCleanup(v, w, id, status, resources) ==
  /\ wave[v].stage = "active" /\ w \in wave[v].workers \cap Threads
  /\ \E t \in TerminalsOf(v) : t.worker = w
  /\ id \notin Ids(Receipts)
  /\ \A c \in cleanups : c.worker # w
  /\ Valid
  /\ cleanups' = cleanups \cup
       {[id |-> id, wave |-> v, worker |-> w, status |-> status, resources |-> resources]}
  /\ UNCHANGED <<worker, rounds, wave, terminals, fanIns, local>>

\* Mutant: missing cleanups do not hold the fan-in back.
FanInUncleaned(v) ==
  LET ts == TerminalsOf(v)
      cs == CleanupsOf(v)
      status == Aggregate(ts, cs)
  IN  /\ wave[v].stage = "active"
      /\ wave[v].workers \subseteq {t.worker : t \in ts}
      /\ Valid
      /\ fanIns' = fanIns \cup
           {[id |-> v, wave |-> v, status |-> status, terminals |-> Ids(ts),
             cleanups |-> Ids(cs), blocking |-> Blocking(ts, cs)]}
      /\ wave' = [wave EXCEPT ![v].stage = status]
      /\ UNCHANGED <<worker, rounds, terminals, cleanups, local>>

FanIn(v) ==
  LET ts == TerminalsOf(v)
      cs == CleanupsOf(v)
      status == Aggregate(ts, cs)
  IN  /\ wave[v].stage = "active"
      /\ wave[v].workers \subseteq {t.worker : t \in ts}
      /\ CleanupRequired(ts) \subseteq {c.worker : c \in cs}
      /\ Valid
      /\ fanIns' = fanIns \cup
           {[id |-> v, wave |-> v, status |-> status, terminals |-> Ids(ts),
             cleanups |-> Ids(cs), blocking |-> Blocking(ts, cs)]}
      /\ wave' = [wave EXCEPT ![v].stage = status]
      /\ UNCHANGED <<worker, rounds, terminals, cleanups, local>>

--------------------------------------------------------------------------------
ReportTerminal(w) ==
  \E v \in Waves, id \in TerminalIds[w], status \in Outcomes, formed \in Forms :
    RecordTerminal(v, w, id, status, formed)

ReportCleanup(w) ==
  \E v \in Waves, id \in CleanupIds[w], status \in CleanupStatuses, ids \in Leases[w] :
    RecordCleanup(v, w, id, status, ids)

Next ==
  \/ \E ws \in SUBSET Workers :
       Register(ws) \/ Launch(ws) \/ LaunchSettled(ws) \/ LaunchRolledBack(ws)
  \/ \E w \in Workers : \/ Unregister(w)
                        \/ \E status \in Outcomes : Finish(w, status)
                        \/ ReportTerminal(w)
                        \/ ReportCleanup(w)
  \/ \E r \in Rounds : OpenRound(r)
  \/ RoundWritten \/ RoundWriteFails \/ RoundOpenerDies
  \/ \E v \in Waves : \/ \E ws \in SUBSET Workers, ds \in SUBSET Waves : AddWave(v, ws, ds)
                      \/ OpenWave(v)
                      \/ FanIn(v)

Spec == Init /\ [][Next]_vars

\* Backends report and the lead cleans up and joins: "Every launched worker must
\* return one terminal receipt" (DELEGATION_RUNTIME.md); nobody has to launch,
\* declare or open anything.
FairSpec ==
  /\ Spec
  /\ \A w \in Workers : WF_vars(ReportTerminal(w)) /\ WF_vars(ReportCleanup(w))
  /\ \A v \in Waves : WF_vars(FanIn(v))

--------------------------------------------------------------------------------
TerminalReceipt == [id : UNION {TerminalIds[w] : w \in Workers}, wave : Waves,
                    worker : Workers, status : TerminalStatuses, formed : BOOLEAN]
CleanupReceipt == [id : UNION {CleanupIds[w] : w \in Workers}, wave : Waves,
                   worker : Threads, status : CleanupStatuses,
                   resources : UNION {Leases[w] : w \in Workers}]

\* The ledger stays in its vocabulary: waves, receipts and workers carry the
\* statuses of their own enumeration, fan-ins the three closed ones
\* (delegation_wave.py WaveStatus and TerminalStatus, delegation_cleanup.py).
TypeOK ==
  /\ worker \in [Workers -> WorkerStatuses]
  /\ rounds \in Seq(Rounds \cup Waves) /\ team \in Seq(Rounds)
  /\ opening \in Rounds \cup {Nil}
  /\ wave \in [Waves -> [stage : {"none", "pending", "active"} \cup ClosedStages,
                         deps : SUBSET Waves, workers : SUBSET Workers, ordinal : Nat]]
  /\ terminals \subseteq TerminalReceipt
  /\ cleanups \subseteq CleanupReceipt
  /\ \A f \in fanIns : f.id = f.wave /\ f.wave \in Waves /\ f.status \in ClosedStages
  /\ starting \subseteq SUBSET Workers

\* check_failures (delegation_run.py:316): launches through waves and direct ones,
\* rollbacks, terminal receipts and rounds of both kinds never take the run over
\* its budget.
WithinBudget ==
  /\ Cardinality(Known) <= MaxTotal
  /\ Cardinality(With("launched")) <= MaxConcurrency
  /\ Len(rounds) <= MaxRounds

\* A worker of a wave is what the wave says: untouched by launches, rollbacks,
\* unregistrations and finish-worker while it is pending, running or reported
\* while it is active, terminal once it is closed; and a wave that passed has only
\* completed workers, every thread among them cleaned up (delegation_wave.py).
WaveWorkers ==
  \A v \in Waves :
    LET w == wave[v] IN
    /\ w.stage = "pending" => w.workers \subseteq With("registered")
    /\ w.stage = "active" =>
         \A x \in w.workers : worker[x] = "launched" \/ \E t \in TerminalsOf(v) : t.worker = x
    /\ w.stage \in ClosedStages => \A x \in w.workers : worker[x] \in TerminalStatuses
    /\ w.stage = "passed" =>
         /\ w.workers \subseteq With("completed")
         /\ \A x \in w.workers \cap Threads :
              \E c \in CleanupsOf(v) : c.worker = x /\ c.status = "released"

\* The ledger stays in its vocabulary, within its budget and true to its waves, whatever
\* is launched, rolled back and reported (delegation_run.py:316, delegation_wave.py).
BudgetInv == TypeOK /\ WithinBudget /\ WaveWorkers

\* Rounds of both kinds are accounted for: no token is used twice, a declared wave
\* has kept its token whatever was cancelled, and apart from those the ledger has
\* the TeamExecutor's rounds and at most the one that is, or was, being opened
\* (delegation_run.py:219-234, team_executor.py:373-391).
RoundsAccountedFor ==
  /\ \A i, j \in DOMAIN rounds : rounds[i] = rounds[j] => i = j
  /\ Declared \subseteq Elements(rounds)
  /\ CoreRoundsAre(team) \/ \E r \in Rounds : CoreRoundsAre(Append(team, r))
  /\ opening # Nil => CoreRoundsAre(Append(team, opening))

\* Receipts are evidence: none is changed or dropped, a closed wave and a terminal
\* worker stay as they are, and a declared wave keeps its members, dependencies and
\* ordinal (delegation_wave.py, delegation_run.py:199).
HistoryIsFinal ==
  [][/\ terminals \subseteq terminals' /\ cleanups \subseteq cleanups' /\ fanIns \subseteq fanIns'
     /\ \A w \in Workers : worker[w] \in TerminalStatuses => worker'[w] = worker[w]
     /\ \A v \in Waves :
          /\ wave[v].stage \in ClosedStages => wave'[v] = wave[v]
          /\ v \in Declared => wave'[v] = [wave[v] EXCEPT !.stage = wave'[v].stage]]_vars

\* The waves follow the schedule their readers rely on (module WaveSchedule).
Schedule == INSTANCE WaveSchedule
              WITH stage <- [v \in Waves |-> wave[v].stage],
                   after <- [v \in Waves |-> wave[v].deps]
ImplementsSchedule == Schedule!Spec

\* A wave that is open closes: no sequence of receipts, launches and failures locks
\* it (delegation_wave.py:211-275).
ActiveWaveCloses ==
  \A v \in Waves : (wave[v].stage = "active") ~> (wave[v].stage \in ClosedStages)
================================================================================
