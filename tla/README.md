# Verification of King Sejong's runtime

King Sejong is a set of command-line programs, host hooks and an installer that
agents of a coding host run beside each other on one machine. There is no
server: all state is JSON files under `SEJONG_HOME` and the plugin cache, and
every command is a process of its own that reads files, decides, and replaces
files. What makes the system correct is therefore the order of file-system
calls of processes that interleave, die half-way, wait for locks, are rerun and
act on what they read some time ago. These modules model that.

- [1. The system](#1-the-system)
- [2. Modules](#2-modules)
- [3. Runs](#3-runs)
- [4. Bounds](#4-bounds)
- [5. Fairness](#5-fairness)
- [6. Proofs](#6-proofs)
- [7. Disagreements found](#7-disagreements-found)
- [8. Not modelled](#8-not-modelled)
- [9. Plan](#9-plan)

Paths are relative to `docs/sejong/scripts/` unless they say otherwise.

## 1. The system

### Components

| Component | State it keeps | Operations that change it |
| --- | --- | --- |
| Runtime lock, `sejong_runtime_lock.py` | `<name>.lock` and its guard `<name>.lock.stale-break` | acquire (with stale-breaking), release |
| Durable Contexts, `sejong_context.py` | one Context file per run, the repo index, the legacy active pointer | start, resume, update, close, migrate |
| Session bindings, `sejong_session_binding.py` | one binding (target, epoch, revision) per host session | bind, touch, unbind, close |
| Delegation runs, `delegation_run.py`, `delegation_wave.py`, `delegation_cleanup.py` | the ledger: budget, workers, rounds, waves, receipts | register, launch, finish, rounds, waves, terminal, cleanup, fan-in |
| Fan-in publication, `delegation_run.py` | the receipt files outside the ledger | `join_execution_wave` |
| External actions, `external_action_*.py` | the ledger of approved actions | authorize, record |
| User installation, `scripts/install-sejong.sh` and `plugins/king-sejong/hooks/king-sejong-hook.py` | the installed files, `install-transaction.json`, the maintenance guard | install; the hook runner only reads |
| Execution run, `seungjeongwon_run.py` | todos, attempts, guardrail scores, completion, checkpoint | start, add and replace todos, record attempts, complete, add a fan-in, checkpoint; replay reads |
| Ticket runs, `codex_ticket_runner.py` and its adapter, binding and idempotency store | accepted events, the cancellation marker, the sealed receipt | run one ticket |
| Worker resource leases, `worker_resource_*.py` | one lease file per runtime group | create, transition |
| TeamExecutor, `team_executor.py` | workers, rounds, mailbox, scope leases, worktrees, wave launches | about twenty commands |
| Hook gates, `king_sejong_hooks.py` | none of its own; checkpoints before a compaction | one handler per host event |
| Continuity capsules, `continuity_capsule.py`, `continuity_replay_gate.py` | one capsule per run | start, update, the records; hooks and the replay gate read it |
| Planning sessions, `live_session_orchestrator.py` | a state file, the ambiguity register | advance: ask, ask for approval, hand over |
| Workflow runs, `sejong_workflow_run.py` | one artifact per run | start, add, record, complete |
| Route policy, `delegation_route_*.py` | none | evaluate (a pure function) |
| Install identity, `core_install_identity.py` | the identity file | write; verify reads |
| Doctor, `sejong_doctor*.py` | none | one check after the other, all read |
| Integrated gate, `sejong_integrated_quality_gate.py` | a work directory | its checks, one after the other |
| Run retention, `sejong_cleanup.py` | run directories | finalize-run, prune-runs |
| Host coordination, `host_coordination.py` | host heartbeats, repository write leases | heartbeat, acquire, recover |
| Candidate handoff and review, `candidate_*.py`, `ticket_evidence_state.py` | two sealed files per ticket | write handoff; evaluate and reduce are pure |
| Work events, `work_lifecycle.py` | an append-only ledger | record-event, derive-candidate |

The rest of the repository (Discord contracts, scorecards, benchmarks, bundle
validation, the project summary, the Sillok trace, the repository-scope
installer, schemas and the agents' prose) keeps no state that other parts act
on; section 8 says why each part is left out.

### How the parts interact

- Every writer of a Context, a binding or the external-action ledger is inside
  a *runtime lock*. Contexts and bindings have one lock each, and a command
  that needs both takes one after the other, so what it has read under the
  first may be old under the second.
- The *repo index* and the *binding* refer to Contexts; neither is written in
  the same step as the Context.
- A *hook* resolves its session's binding, then loads the Context it names,
  then records the turn in the binding.
- *Delegation ledgers* use `flock` instead. The TeamExecutor's `open-round` and
  `launch` change the ledger, leave its lock, do something that may fail (write
  `rounds.json`, start tmux) and come back to compensate.
- `join_execution_wave` embeds the fan-in receipt in the ledger and publishes a
  copy afterwards, outside the lock. The *execution run* attaches such copies
  and re-reads the ledger on every command.
- A *ticket run* validates a TeamExecutor lease and the delegation ledger,
  supervises a child process, seals a receipt and reports a terminal.
- *Installers* replace the very files that *hooks* load; the two share a
  transaction record and a maintenance guard, and no lock.
- *TeamExecutor commands* other than a wave launch replace `team.json` by the
  copy they loaded; the mailbox, rounds and leases are under the `flock` of the
  run directory, but `send-message` looks at the rounds before it takes it.
- *Retention* looks at bindings and Contexts one after the other and deletes
  afterwards; sessions bind and unbind meanwhile. The *doctor* and the *install
  identity* read several files in turn, also without a lock.
- A *worker resource lease* has a `flock` of its own; the adapter reads it
  without, and writes the receipts it projects into the delegation ledger.
- *Hooks* read the Context, then the register, execution run and capsule that
  it names; other commands replace each of these in between.

### What makes each part correct, and what is hard about it

| Component | It is correct when | What makes that hard |
| --- | --- | --- |
| Runtime lock | at most one live process holds it, a release frees it, a dead owner is replaced | several file-system calls per operation, a file that exists before its record does, a second file that guards the first |
| Contexts, bindings | no committed update is lost, a closed Context stays closed, an epoch names one target | copies loaded before a lock is taken, two locks, commands that stop between two files |
| Delegation runs | within budget, a wave opens after the waves it depends on passed, receipts are final, an open wave closes | compensation of steps others have built on, validators that reject the whole ledger |
| Publication | a published receipt is whole and is the ledger's | a temporary name shared by all publishers of an output |
| External actions | one effect per key, inside the approval; the ledger can be loaded | time read before a lock is waited for, time given by callers |
| Installation | one mutator, a complete record speaks for the files, hooks run the files of one installation | kills between any two of some twenty steps, readers without a lock |
| Execution run | completion rests on the latest attempts, contradictions reopen, replay is current | chains of replacements, no lock at all, timestamps of a second |
| Ticket runs | receipt, child, marker and terminal agree; one process per ticket | cancellation against exit against deadline against the lead, crashes between two records |
| TeamExecutor | `check` accepts what the commands made, leases share no file, a worker starts once per admission, no unreported work is removed | five files per worker that no lock covers together, compensations that run after others moved on |
| Worker resource leases | what is written can be loaded and projected; the receipt says what the lease says for good | the lease is read outside both locks |
| Retention | a run a bound session names keeps its artifacts | protection computed first, deletion later, binding files that cannot be read |
| Hook gates | no write while a planning is pending, no first stop while work is unfinished | gates derived from routes by insertion and clearing, five artifacts that change between events |
| Capsules | what a session is told is what its capsule says | in-place writes, capsules of other runs, gates cut off at three |
| Host leases, reviews, events, workflow runs | one writer per repository, verified means reviewed, a lesson rests on two runs, a verdict stands | snapshots, create-once files and crashes between them, torn lines |
| Identity, doctor | a compatible verdict is true, a clean report is not silent about trouble | walks over files that change |

The hazards, each at its line and with the properties that cover it, are in
`PROJECT.json`.

## 2. Modules

Steps are as fine as other processes can observe: one file-system call where a
protocol is made of them (lock, publication, installer), one critical section
where a lock protects one file, one load and one replacement where nothing
does. Files are values; a JSON document is a record of the fields that some
decision reads. Wording, identifiers and provenance that nothing compares are
left out, and an input that callers choose is chosen by `\E`.

### RuntimeLock

`RuntimeLock` is one lock name. `file`, `guard` and `moved` are the lock file,
the guard file and a releaser's private temporary; `written` holds the tokens
whose record has been written, because `O_EXCL` creates the file empty and the
record comes later. `pc` walks through `acquire_runtime_lock` (`CheckGuard`,
`CreateFile`/`CreateFails`, `WriteRecord`, `Observe`, `JudgeStale`/`JudgeLive`,
`TakeGuard`, `Recheck`, `Swap`, `Settle`, `Unguard`, `Retry`, `Timeout`) and the
release (`ReleaseRead` to `ReleaseUnguard`). `Crash` kills a process at any of
these, `GrowOld` makes a file reach the stale age. `Host` says which machine a
process runs on, since the staleness test probes a pid.

What the callers count on is `MutualExclusion`, and that a release does not fail after
they have written (`ReleaseSucceeds`).

### SessionBinding

`rev`, `status` and `applied` are the Context files (`applied` is the history
of revisions still visible in the file), `binding` and `index` the other two
kinds of file, `runLock` and `bindLock` the locks. A process has a `job`: its
command, and what it has read so far. `start`, `resume`, `update`, `close`,
`unbind`, `migrate` and `hook` each go through their own locations; a critical
section is one step when it publishes one file, two when it holds the lock over
a second file. `Stop` ends a command anywhere (crash, lock timeout, I/O error).
That a critical section may be one step is what the lock's `MutualExclusion` and
the theorem `Exclusion` are for.

### DelegationRun, WaveSchedule

One ledger. Each command that loads, checks and replaces it under `flock` is
one action: `Register`, `Unregister`, `Launch`, `Finish`, `ReportTerminal`,
`ReportCleanup`, `AddWave`, `OpenWave`, `FanIn`. The TeamExecutor's direct
launch is `Launch` followed by `LaunchSettled` or `LaunchRolledBack`, and its
`open-round` is `OpenRound` followed by `RoundWritten`, `RoundWriteFails` or
`RoundOpenerDies`; other commands come in between. `Valid` is
`persisted_wave_failures`, which most commands call first. Callers choose
receipt ids, resources and statuses. That the ledger's rounds without the waves'
tokens are the TeamExecutor's is said by `IsSeqWithout`, which a proof can use.

`WaveSchedule` is the abstract schedule of waves (declared, opened when the
waves before it passed and no other is active, closed once);
`ImplementsSchedule` maps its variables to the `stage` and `deps` of the
ledger's waves.

### FanInPublication

The tail of `join_execution_wave`: `joined` is what the ledger embeds, `output`
and `temp` the two paths of each wave, `open` where the file a process has open
is by now (a rename takes it along). A process truncates the temporary file,
writes it, and renames it; it may die between any two, and another fan-in of
the same wave uses the same names.

### ExternalActions

`ledger` maps an action to its receipt. Both commands fix their request first
(`job`) and wait for the lock then: `Prepare` reads the approval record and the
clock and `Authorize` writes, or is refused; `PrepareRecord` takes `--at` and
`Record` moves the receipt on, or is refused. A dispatcher then performs the effect
(`performed` counts the effects behind each key). `honest`, which never changes, says
whether callers give the time it is as `--at`, the time at which they ask and not the
one at which they get the lock. `premature` remembers the actions that were cancelled
by a request older than their authorization.

### UserInstall

An installation is an outer and an inner process that share the descriptor of
`user-install.lock`, so the lock outlives a killed outer process. The inner one
takes its private snapshot, checks the epoch, publishes the guard, writes the
`in_progress` transaction, replaces the managed files group by group, verifies
them, and commits the `complete` transaction and the canonical hook last. A
hook reads the transaction, compares the files the digest covers one by one,
and loads the files it runs one by one. `Kill` ends one process, `EditInstalled`
puts foreign content in a file, `Launch` starts an installation and also reruns
one; `mishaps` bounds the first two.

### ExecutionRun

`run` is the file, `copy` what each process has loaded. A command is `Load`
followed by one of the commands (`RecordAttempt`, `AddTodo`, `ReplaceTodo`,
`CompleteTodo`, `Complete`, `AddFanIn`), each of which builds a new record,
requires `Valid` of it and replaces the file, or `GiveUp`. `Valid` is
`run_failures` in the parts that statuses, attempts and links can break, with
`ValidCompletion` for a completed run. `Start` puts a new run at the path,
`Checkpoint` saves one and `Accepts` is the comparison replay
makes. `Seconds` is the clock: a write may fall into the second of the last one
or a later one. Attempts have no identifiers and a score is high or low.

### TicketRun

A runner is one process that handles one delivery of one event: `Accept` (the
idempotency store), `CheckReceipt`, `CheckMarker`, `CheckLease`, `CheckCore`,
`Launch`, then one of `ReadExit`, `SeeMarker` and `TimeOut`, `WriteReceipt`
(create-once) and `RecordTerminal`. Around it, `Cancel` creates the marker,
`ReleaseLease` and `LeadRecords` are other commands on the TeamExecutor and the
ledger, the child exits by itself, and `Kill` ends a runner but not its child.
The only caller in the repository is the dry-run command; live runs are driven
as `DISCORD_ORCHESTRATION.md` and the tests drive them.

### TeamMailbox, TeamWorkers

Two halves of `team_executor.py`, which share nothing but the team's ids.
`TeamMailbox` has what is under `run_state_lock`: `rounds` and `coreRounds`
(rounds.json and the rounds of the delegation ledger, which `open-round` writes
first and cancels when its own write fails), `mailbox` with the read cursors,
and `leases` on scopes. A message is `PrepareMessage` (the round is looked at)
and `AppendMessage` (under the lock). A scope is a list of directory names and
perhaps a glob; names are sequences of letters, since what is wrong about
prefixes of names is what `LeaseScopes.cfg` is about. `CheckAccepts` is what the
command `check` looks for.

`TeamWorkers` has what is not: `team` (team.json), `files` (each worker's state
file), `core` (the delegation ledger's entry), `tree` (the worktree), `wave`,
`attempt` and the panes that have been started. Init, add-worker, the worktree
commands, the launch of the wave and the direct launch are each a chain of
locations of a process whose `job` is the copy of team.json it has loaded;
`Update` writes that copy back. `LaunchFails`, `RecordsFailure` and
`CopyBackFails` are the compensation of a launch, step by step. `Edit`,
`Integrate` and `Report` are the workers' own doing, `Die` ends a command.

### WorkerLease

`lease` holds the lease files, `CreateLease` and `TransitionLease` are the two
commands under the lease's lock, `LoadLease` and `RecordCleanup` the adapter
that reads it without and records the projection (`Projection`) in the ledger,
which accepts it or not (`ProjectionAccepted`). A blocker is left out, the empty
string, or text: the writer's rules (`ValidLease`) and the loader's (`Readable`) do
not agree about the second. `Gaps` is the summary's list of what was not released by
its exact owner.

### RunRetention

`finalize-run` and `prune-runs` are a `job` that looks at one session's binding
after the other (`LookAt`), decides (`PruneDecides`), and deletes (`PrunesRaw`,
`WritesSummary`), while sessions `Rebind`, runs `Work` and are promoted, days
pass and a binding file is damaged.

### HookGates, Continuity

`HookGates` composes the Context's routes and gates (`Started`, `Updated`,
`SyncGate`, as `sejong_context.py` computes them) with the artifacts that a hook
reads: register, execution run, capsule, native goal. `event` is the last event
of the host and whether it was let through. In `Continuity` each process has a
`command`: what it will write, computed from the file as it was when it was loaded
(`Start`, `Update`, `RecordDecision`, `RecordRejection`), and how far it is with
writing it in place (`Truncate`, `Write`, `Die`). No lock covers the two, so another
command may truncate and write in between; its ghost `missed` holds what was recorded
since the load, and `doubtful` what a command that had missed some of it has written
over. The module then says what PreCompact, SessionStart and the replay judge make of
the file (`told`, `judged`).

### LiveSession, DelegationRoute, WorkflowRun

Three decision procedures with a file around them. `LiveSession` scores the
answers against the weights and thresholds of `policy.defaults.json` and walks
from question to approval to readiness. `DelegationRoute` is gates, points,
caps, backend and tie-break of one input. `WorkflowRun` is the artifact, the
validation every command ends with, and the write in place.

### HostLease, CandidateReview, WorkEvents

`HostLease` has the last `heartbeat` of each host, and separates the caller's
reading of it (`Prepare`) from the acquisition under the lock. `CandidateReview` has the create-once manifest
and handoff of attempts that die and race, the reviewers' receipts, and the two
reducers as operators. That a reviewer is not the producer is decided from the ids in
the request (`candidate_review.py:117`), which callers give truthfully here. `WorkEvents` appends a line in two steps; a recorder
that dies leaves a torn line, or a whole one without its newline.

### InstallIdentity, Doctor, IntegratedGate

`InstallIdentity` and `Doctor` are walks: each reads one thing per step while
everything else may change, and remembers (`intact`) what has not changed since
the walk began. `IntegratedGate` runs the gate's checks on the fixtures of the
repository, with the decisions of the hooks and of the capsule comparison
translated for exactly these fixtures.

### MC modules and proofs

A component is checked alone, except where the module itself composes two. One
run asks a question of several components that have it in common, so an MC
module may hold several: it extends one module and instantiates the others, and
the variable `part`, chosen in the initial state, says which of them moves; the
others keep one initial state. A property of another component is stated of its
part (`part = "events" => ...`). The parts of a run share nothing, so the state
space is the sum of theirs and every action of every part is checked as it would
be by a run of its own. Each part keeps the variables of its module, renamed where
two modules share a name (`job` of the cleanup is `task`); `held`, `kept`,
`planned` and so on are their tuples. The parameters of the parts are the MC
module's CONSTANTS, so that the theorems about its specification hold for every
value of them; what the components assume of them is assumed under the part's
name (`RouteAssumption == Route!ConstantsAssumption`) and evaluated by the runs.

| Module | Parts |
| --- | --- |
| `MCSessionBinding` | `SessionBinding` |
| `MCDelegation` | `DelegationRun`, `FanInPublication` |
| `MCInstall` | `UserInstall`, `InstallIdentity`, `Doctor` |
| `MCLiveness` | `TicketRun`, `RuntimeLock`, `DelegationRun`, `UserInstall`, each with its fairness |
| `MCTeam` | `TeamMailbox` (messages; leases), `TeamWorkers` (a wave; an added worker), `WorkerLease`, `RunRetention` |
| `MCEvidence` | `RuntimeLock`, `ExternalActions`, `TicketRun`, `HostLease`, `CandidateReview`, `WorkEvents` |
| `MCSession` | `ExecutionRun`, `HookGates`, `Continuity`, `LiveSession`, `DelegationRoute`, `WorkflowRun` |
| `MCRuntimeLock`, `MCTeamMailbox`, `MCRunRetention`, `MCHookGates` | the component of that name, for the runs marked ✗ |

They also hold the functions and sets that a `.cfg` cannot write (`Host`,
`EventOf`, receipt ids, scopes, inputs of the decision procedures) and the
symmetry sets.

The proofs about a component that has a run to itself EXTEND the component
(`SessionBindingProofs`, `TeamWorkersProofs`); the others
EXTEND the MC module and prove what its run checks, for the specification that
the run checks: `DelegationProofs`, `EvidenceProofs`, `TeamProofs`,
`InstallProofs` and `SessionProofs`. `MCTeam` instantiates `TeamWorkers` through
`TeamWorkersProofs`, so that `TeamProofs` can cite its lemmas for both kinds of
launch. `FoldFacts` says what a fold over a sequence computes, for any step
(`CONSTANT Step(_, _, _)`); `TeamProofs` and `SessionProofs` instantiate it once for
each loop over a list that they reason about.

Some modules contain a second version of an operator, named for what is wrong
with it (`WriteReceiptOnce`, `ScopesOverlap`'s `SameScope`): nothing uses these;
they are plausible bugs of the code that the properties have been shown to
notice.

## 3. Runs

One entry per configuration: its properties, and what the run shows. The runs
marked ✗ are expected to find their property violated (section 7). Every property
of a passing run has been shown to fail when the definition that the `mutants` of
`PROJECT.json` name is replaced by the mutated one beside it; a property that is
a conjunction over several parts has a mutant for more than one of them.

The properties that the MC modules define name those of the components:

| Property | of | is |
| --- | --- | --- |
| `PublicationIsSound` | `FanInPublication` | `PublicationInv` (`OutputIsWhole`), `ReportedIsPublished`, `SettledIsPublished` |
| `InstallationIsSound` | `UserInstall` | `InstallerInv` (`MutatorsExclusive`), `CompleteIsInstalled` |
| `ReportsAreTrue` | `InstallIdentity`, `Doctor` | `CompatibleIsTrue`, `CleanIsHealthy` |
| `LaunchInv` | `TeamWorkers` | `DispatchOnce`, `MembersRegistered` |
| `NothingLost` | `TeamWorkers` | `LosesNothing` |
| `LeasesAreDisjoint` | `TeamMailbox` | `OneWriterPerFile`, `CheckAccepts` |
| `BoundRunsSurvive` | `RunRetention` | `SparesBound` |
| `LedgerIsSound` | `ExternalActions` | `LedgerLoads`, `EffectInv` (`AtMostOnce`) |
| `TicketInv` | `TicketRun` | `EvidenceAgrees`, `StartInv` |
| `RecordsStand` | `ExternalActions`, `TicketRun`, `CandidateReview` | `KeepsReceipts`, `KeepsSealed`, `KeepsObjection` |
| `RunIsSound` | `ExecutionRun` | `CompletionEarned`, `LedgerInv` |
| `HistoryStands` | `ExecutionRun`, `WorkflowRun` | `KeepsHistory`, `KeepsVerdict` |
| `HooksHold` | `HookGates` | `BoundaryBlocksWrites`, `EndsSettled` |

The others have the name they have in their component.

- **`BindingSafety.cfg`** on `MCSessionBinding` (`NoLostUpdate`, `BindingInv`,
  `SwitchSawTarget`, `ClosedIsTerminal`): Two processes on one session and two
  runs, one of them named by a legacy pointer: they start, resume, update,
  close, unbind, migrate and record turns, each stopping or failing anywhere.
  No update of a Context is lost, what a process knows of a binding is its
  past, closed stays closed, and only an informed process moves the session.
- **`MCDelegation.cfg`** on `MCDelegation` (`BudgetInv`, `RoundsAccountedFor`,
  `HistoryIsFinal`, `ImplementsSchedule`, `PublicationIsSound`): Four workers
  for three places and callers that reuse receipt ids and resources and write
  texts the validator rejects, with writes that fail and launchers that die:
  budgets, the accounting of rounds, the schedule of waves and the finality of
  receipts hold all the same. Beside it three processes that publish fan-ins: a
  wave joined by one at a time is published whole although they die, and one
  joined by several at once is published when all have returned.
- **`MCInstall.cfg`** on `MCInstall` (`InstallationIsSound`,
  `HookRunsOneInstallation`, `ReportsAreTrue`, `NoDowngrade`): Two installers,
  one of an old epoch, killed, failing, timing out and rerun on a checkout that
  changes under them, while a hook verifies and loads the files step by step
  and a user edits one; an identity that is written and verified while commits,
  edits and installations go on; a doctor that looks at Contexts, locks and
  artifacts that sessions change meanwhile.
- **`MCLiveness.cfg`** on `MCLiveness` (`AttemptEnds`, `DeadOwnerReplaced`,
  `ActiveWaveCloses`, `Recovers`, `CancellationStops`): With the fairness of
  section 5: every acquire of the lock ends and a dead owner's lock is
  replaced, although lock files reach the stale age at any time; every wave
  that is open closes, whatever is launched, cancelled or rolled back
  meanwhile; rerunning the installer brings a complete installation after a
  death or an edit; the child of a living runner ends after the cancellation
  marker appears, without help from the deadline.
- **`MCTeam.cfg`** on `MCTeam` (`CheckAccepts`, `ReceivedOnceInOrder`,
  `LeasesAreDisjoint`, `LaunchInv`, `CleanupIsTrue`, `NothingLost`,
  `BoundRunsSurvive`): Two processes and two workers of one team, dying
  anywhere: a round, messages and replies among the workers and the lead, read
  with cursors; write leases of the two workers on scopes that nest; init,
  add-worker, worktrees, a wave launch and direct launches that race and fail;
  the leases of two runtime resources, with blockers left out, empty or given, and
  the receipts about them; and the retention of two runs while a session binds them.
- **`MCEvidence.cfg`** on `MCEvidence` (`MutualExclusion`, `LedgerIsSound`,
  `TicketInv`, `OneWriterPerRepo`, `ReleaseSucceeds`, `VerifiedIsEarned`,
  `CandidateIsJustified`, `RecordsStand`): Two dispatchers that die and are resumed,
  with two action ids for one effect, whose requests fix their time before they wait
  for the ledger's lock, the time it is or any other; three users of such a lock,
  dying anywhere, who find their own file when they release it; three runners of one
  ticket, two with the same event; two callers that lease one repository; a candidate that is handed off,
  reviewed and verified; and recorders that append work events and die.
- **`MCSession.cfg`** on `MCSession` (`RunIsSound`, `ReplayIsCurrent`,
  `HooksHold`, `ToldIsTrue`, `GatesAreAsked`, `RouteIsSupported`,
  `HistoryStands`): One process at a time on an execution run, with edits of
  the file and delegation ledgers that turn invalid and are repaired between
  its load and its write, within one second or over two; the hooks of a session
  whose Context, register, capsule and run change under them; a capsule that the
  commands of two processes load, truncate and write over one another, that is
  projected and judged; planning sessions with every combination
  of answers and approvals; every route decision; and the commands on a
  workflow run, any of them dying as it writes.
- **`LockAba.cfg`** ✗ on `MCRuntimeLock` (`MutualExclusion`): A contender that
  judged an abandoned empty lock file swaps away the empty file a live process
  has just created, because every malformed record reads the same.
- **`LeaseScopes.cfg`** ✗ on `MCTeamMailbox` (`OneWriterPerFile`): Two workers
  get write leases on a glob of names and on a longer name of the same
  directory, because the literal prefixes of the two are different paths.
- **`CleanupMalformed.cfg`** ✗ on `MCRunRetention` (`FailsClosed`):
  finalize-run deletes raw artifacts although a binding file it met is
  malformed: the failure is reported after the deletion.
- **`WorkerClaims.cfg`** ✗ on `MCHookGates` (`WorkersClaimNothing`): A worker's
  last message that claims an approval passes when it also holds a valid brief.
- **`IntegratedGate.cfg`** ✗ on `IntegratedGate` (`GatePasses`): The integrated
  gate never passes on the fixtures of the repository: one check looks for
  words the hook does not say, another gives the hook a capsule of another
  Context.

## 4. Bounds

Every bound is a constant, a set of inputs or a conjunct of a guard; none is
hidden in a state constraint.

- *RuntimeLock*: three processes for safety, two for liveness, `MaxTokens` 2
  acquisitions each. Three are the owner, a contender that breaks its lock and a
  second contender that acts on what it read before; two acquisitions of one
  process let a stale reading meet a newer file of the same owner. `Aging` is
  "never" where the lock is claimed to be a mutex (section 6 says why) and "any"
  where it is not needed.
- *SessionBinding*: two processes, one session, two runs. `MaxRevision` is 3 for
  the run of the legacy pointer (one revision to read, one to lose, one to be
  overtaken by; also: created, closed, and migrated again) and 1 for the run that
  is there to be switched to; `MaxBinding` 3 allows a switch away and back.
- *DelegationRun*: four workers for three places, two waves that may depend on
  each other, two TeamExecutor rounds; three workers and no rounds, which no wave
  waits for, in the liveness run. A third wave adds no new relation: a wave meets
  the one before it and the one beside it.
- *FanInPublication*: three publishers, two waves, one of them joined by one
  process at a time, dying anywhere (`Serial`, `Mortal`).
- *ExternalActions*: clock 0..2, approval windows of 1, record age 1, so that
  every deadline can be met, missed and met exactly, and a request can be a tick older
  than the write, while approvals expire inside the clock's range; two ids for one key.
- *TicketRun*: three runners, two deliveries of one event and another event for
  the same ticket; one runner in the liveness run, whose property is about the
  runner and its child.
- *UserInstall*: two generations of one imported module, the canonical hook and
  the runner, one kill or edit (`MaxMishaps`), two installers of two epochs and a
  hook, or one installer in the liveness run. One module stands for all files of
  its kind; a mixture of two generations needs two files, which the module and the
  canonical hook are.
- *ExecutionRun*: two todos, `MaxAttempts` 2 (a result and its contradiction),
  `MaxNow` one second after the first, one start, one process (section 7 says
  what two do). `Halted` is "blocked" alone: no validation rule and no command
  that writes tells "invalidated" from it.
- *TeamMailbox*: two workers and the lead, two messages, two processes (a sender
  that looks early and whoever closes the round or sends first), and one round of
  the two ids (`MaxRounds` 1), which is opened, torn, opened again and closed;
  `CheckIsClean` proves the order of rounds for any number. For leases, the two
  workers with one lease each and scopes that are equal, nested, disjoint, and
  globs on whole names and on parts of names.
- *TeamWorkers*: two processes, one wave of one worker, or one initial and one
  added worker: the races are between the commands on one worker and between two
  copies of the one team.json.
- *WorkerLease*: two leases of one worker, one adapter, a blocker per kind. *RunRetention*: two runs
  (the sort needs a first and a last), one session, one cleanup; ages up to 1 day
  against limits of 0 and 1. *HostLease*: two callers, two repositories, two
  lease ids, one tick, which is enough to pass an expiry.
- *CandidateReview*: two candidates of one ticket, two receipts, the producer and
  one reviewer. *WorkEvents*: three events of two runs by two recorders: one
  duplicate, one event too few, one too many.
- *InstallIdentity*: one surface, two commits. *Doctor*: two runs, one change
  while it looks; seven kinds of Context. *Continuity*: two processes with four
  commands between them (`MaxCommands`): a capsule, something recorded in it, and two
  that overlap. *HookGates*, *Continuity*, *LiveSession*, *DelegationRoute*, *WorkflowRun*: the sets of inputs in
  `MCSession` hold one member per case that the decision procedures distinguish;
  the numbers of the route's points, caps and thresholds are the source's own.

`CHECK_DEADLOCK FALSE` is set where a bounded instance really ends: every
process has used its acquisitions, every revision, message or clock tick is used
up, a verdict has been spoken. `MCSessionBinding` is checked for deadlock.

Symmetry is used for processes, runs and identifiers that nothing orders, and
not in the liveness run.

## 5. Fairness

`FairAllSpec` of `MCLiveness` states the fairness of the component that moves.

- *RuntimeLock* (`LockFairness`, which is `RetryingSpec`): a call that has
  started runs on; a critical section ends, since the callers release in
  `finally` clauses; a process that keeps polling reaches its deadline (strong
  fairness of `Timeout`, which is enabled again and again); sessions call again
  after a timeout. Crashes are never forced or excluded, except by `GuardCrash`,
  which is FALSE here and keeps them out of the guarded sections: what happens
  there is a disagreement (section 7).
- *DelegationRun* (`RunFairness`): backends report, and the lead cleans up and
  joins: "Every launched worker must return one terminal receipt"
  (`DELEGATION_RUNTIME.md`). Nobody has to launch, declare or open anything.
- *UserInstall* (`InstallFairness`): an installation that is not killed goes on,
  and whoever failed runs the installer again with `--force`; HOOKS.md calls
  rerunning the recovery path.
- *TicketRun* (`TicketFairness`): a living runner goes on and looks for the marker
  every quarter of a second. That the deadline passes is not assumed.

The other components promise nothing that eventually happens: their commands are
started by people and agents, and what is left half-done waits for somebody.

## 6. Proofs

All theorems hold for every value of the constants that the named assumptions of
their modules allow: any number of processes, files, runs, messages, attempts and
restarts. The assumptions say what kind of thing a constant is (numbers where the
code has numbers, vocabularies where it validates them, "nothing" distinct from
something), and TLC evaluates them on every run of a module that has them. Where
a theorem needs more it says so in its statement: `PromptOnOneHost`, `OneCaller`,
`SameCriteria`. In an MC module each proof shows that its invariant holds of the
part that moves (`ActionsPart == part = "actions" => ActionsInv`) and that the
other parts leave its variables alone.

*FoldFacts.* Many operations of the code are loops over a list that build another list
or a count: the messages for an endpoint, `unique_append`, the gates that are not
cleared, the match of two routes. In the models each is a fold, and its theorems need
what a fold computes for every list. `FoldOfEmpty` and `FoldOfAppend` are the two
equations of a fold; and `FoldKeeps` says that a property of the result that each step keeps
is a property of the whole. They rest on induction in a form that
the provers can instantiate, over a set and not over a formula: what holds of 0 and of
every successor is a set that contains `Nat` (`NumberInduction`, from the theorem that
`<` is well founded, by way of `LeastNumber`), and `ListInduction` the same for the
empty list and `Append`. The community modules define the fold by recursion on a set of
indices; `FoldExists`, `FoldTrace` and `TracesAgree` show that this recursion has
exactly one history of intermediate results.

*The runtime lock, in EvidenceProofs.* `TypeCorrect` and `GuardedAlone` need no assumption about
hosts, ages or crashes. `GuardedAlone` rests on `GuardInv`: whoever is between
the creation of the guard file and its removal is its creator, and `O_EXCL`
gives the path to one process.
`Exclusion` and `NoErrorAfterCommit` assume `PromptOnOneHost`: all users are on one host and finish within the stale age
(`LockAba.cfg` shows what an abandoned file that grows old does to three
processes on one host). `MutualExclusion` is
not inductive: a contender about to swap could take a live owner's file in a
state that satisfies it. `LockInv` therefore says whose file is at the path in
every location (`OwnsItsFile`), that a contender on its way to the swap has the
record of a dead process, and, once it has read it again under the guard, that
this record is still the one at the path (`BreaksTheDead`), which the next step
needs because the dead publish nothing; and that records written so far carry
old tokens (`WrittenAreOld`), so that a new file cannot be mistaken for one.
That a release finds its own file (`ReleaseSucceeds`) is `OwnsItsFile` at the location
where it reads.

*SessionBindingProofs.* Two invariants. `BindingInv` says that what a process
remembers of a binding is the binding or older (`KnowledgeIsPast`), and that
between a hook's read and its write, under the lock, it is the binding. From it
follow `CountedMutations`, `EpochNamesTarget` and `SwitchIsInformed`, each an
action property proved over one step. `ContextInv` says that a copy waiting to
be written shows exactly the revisions up to its base, that its base is no
newer than the file, and that if it is as new and the file is closed, so is the
copy (`CopyIsSound`); with the compare-and-swap at the write that gives
`UpdatesAreKept`, `IndexIsBehind` and `ClosedStaysClosed`.

The step from `RuntimeLock` to `SessionBinding` (a critical section as one
step) is not itself a theorem: `Exclusion` is its premise, and
`PromptOnOneHost` is inherited with it.

*DelegationProofs.* `LedgerStaysTrue` proves `BudgetInv`. Its strengthening
says that waves have different members, and that the workers of a direct launch
under way belong to no wave and to no other launch, and have been launched
(`WorkersApart`): so a launch that is rolled back gives back its own places and
leaves the waves alone. The three budgets are then cardinalities of finite sets that
grow by one member, or by the members of one wave, under the guard of the step.
`LedgerImplementsSchedule` needs what `Valid` alone knows, that a wave whose
stage is "passed" has a fan-in receipt that says so (`PassedIsPassed`); `Restaged`
says once what a change of one wave's stage leaves alone. `HistoryStays` holds
step by step. `RoundsStayAccountedFor` compares two sequences that are written one
after the other: `Accounts` adds to the property that a token is used once and that
exactly the round being opened, if any, may be missing from the second.
`PublicationHolds` proves all three conjuncts of `PublicationIsSound`. For a wave
joined by one process at a time (`SerialInv`) the writer has the temporary file open
and what it renames is whole. For a wave many processes join and none of which dies
(`RacingInv`), an empty file has a writer that has it open, under whichever name it
is by now, and a missing output has a process that will find or make one: hence the
receipt once all have returned.

*EvidenceProofs, the rest.* `EffectsOnce`: at most one effect per key follows from three facts
that no single command checks: a key has one receipt, a receipt without a dispatch has
no performer, and who is performing an action is alone and the effect has not happened
(`OnePerformer`). A cancellation does not compare its time with the approval, so whether
a ledger loads again depends on what times say: an end comes with its time, after the dispatch
(`EndsInOrder`); and a truthful request for an action that was authorized when it was
built is no older than the approval (`Informed`), since stamps never run ahead of the
clock (`StampedByNow`). What is left is the request that is older than the
authorization (`premature`). `EvidenceIsTrue`: a runner knows its child and its outcome where it needs
them (`RunnerKnows`), the receipt that is sealed is the recorder's
(`SealedByRecorder`), who reported the terminal keeps having reported it
(`ReportStands`), and an event lets one delivery pass (`AcceptedOnce`).
`VerifiedWasEarned`: only the first writer of the manifest goes on to the handoff
(`HandoffFollows`), and a receipt can only come from a dispatch that could be built
(`ReceiptsBuilt`). `LeasesExclude`: the property is inductive with the types
(`LeaseInv`); `LeaseReplaced` says what ending one lease does to the sequence.
`CandidateRests`: a line is added by the one recorder that holds the lock
(`OneRecorder`), so what a candidate rests on stays, or the ledger is torn with nobody
writing, and no command gets past reading it any more (`TornForGood`). `SettledStays` is one
action property of three components and follows from these invariants step by step.

*TeamProofs.* `CheckIsClean` and `WritersAreApart` rest on `MailInv`: the ledger's
rounds are the run's but for one that is being opened (`RoundsLinked`), the mailbox is
unique, on threads, and answers backwards (`GoodBox`), what is about to be sent is of a
round that exists (`SendingOk`), and active leases of two owners have no overlapping
scopes (`Apart`). That non-overlapping scopes share no file (`CoverOverlaps`) is about
two prefixes of one path, of which one is a prefix of the other (`PrefixesCompare`). The
check names the last owner of a lease id, so a sequence has a last entry with a property
(`HasLast`, `LastOwnerNames`). `BoxGrows` and `LeaseGrows` are the lemmas about one more
entry. `MessagesArriveOnce` adds `ReadersInv`: what each endpoint has received is what is
addressed to it in some first part of the mailbox. Reading on keeps this, although the
reader does not know how far it read and only names the last message it received: that
message is unique and the last line of the first part that was for this reader
(`LastAddressed`), so what comes after it in the whole mailbox is exactly what the first
part did not give (`AddressedOfConcat`, `ReadingOn`); and lines are only added
(`MailboxGrows`). `LaunchesAreAdmitted` and `RemovalLosesNothing` cite the invariant of
`TeamWorkersProofs`: a process in each location relies on something (`Place`): the
attempt file's lock is its own from admission to copy-back, and its copy of team.json,
however old, knows no launched member of the wave before the wave was opened
(`GoodCopy`); and whoever is in some copy has its files and registration
(`Registrations`). `CleanupStaysTrue`: the lease is read outside its lock, and the
receipt is true for good because what was loaded, and what a receipt was projected from,
is a lease that has ended (`LoadedEnded`, `ReceiptsEnded`), and no transition leaves an
end. That what was written can be loaded is shown of each status (`Written`), with the
one exception of a lease that is releasing with an empty blocker. `BoundRunsStay`: a command remembers what it saw of each session, and for the
sessions that stayed as they were this is what protects the run (`Known`).

*InstallProofs.* `InstallationsAreSound` and `HooksRunOneInstallation` share
`InstallInv`. Whoever works holds the lock that its group inherited and is alone
(`OneHolder`); in each location its copy is complete, it brings no older epoch, the
transaction is its own, and there is no canonical hook between the guard and the last
rename (`Copied`, `Upgrading`, `Begun`, `Away`). Hence, wherever installers died, a
canonical hook that is installed stands for files of the transaction
(`OfTransaction`), and an undisturbed hook has compared and loaded what is still there
(`Seen`). `EpochsStay` is the action property of the same invariant. `ReportsStayTrue`
is about two walks: what the identity's walk has read is so until something moves
(`Current`, `Intact`), and the doctor's findings, in the order of its checks
(`Prefixes`), are true of what stayed as it was (`RunsTrue` to `CleanupTrue`).

*SessionProofs.* The execution run has three invariants. `RecordsInv` needs no
assumption: every record, loaded, written or saved, obeys the validation but for the
attached ledgers, which change by themselves, and whoever loses a completion loses its
score (`Scored`). From it `ReplayIsExact`: a checkpoint that replay accepts is the run
in every field but the criteria, for any number of processes and restarts, although
scores and timestamps are not all compared. `ReplayStaysCurrent` adds the criteria
under `SameCriteria`, and `CompletionIsSound` and `NothingIsDropped` need `OneCaller`
(`HistoryInv`: what a process has loaded knows everything that was reported, and no
todo whose latest reported attempt failed counts as passed); section 7 says what
happens without. `GatesStayAsked` is arithmetic: the weights add up to a hundred, so a
score below its threshold has a dimension below 85 (`StrongIntent`, `StrongDesign`),
and a weak dimension asks at least one question (`IntentIsAskable`,
`DesignIsAskable`). `RoutesAreSupported` follows the scores through caps and
fallbacks: some route is best (`BestRoute`), refusing never scores below nothing, and
what a gate rules out has -1 (`CappedScores`, `BackedScores`). The verdict of a
workflow run stands because the comparison has to agree with it in whatever is written
(`FlowInv`).

Three theorems of this module are about lists, and need the folds' facts
(`MembersAdded`, `MembersKept`: who is in a list after `unique_append` and after a
filter). `HooksAlwaysHold`: with the types of lists and artifacts (`HooksInv`) the
property is inductive, and the work is in one update, which synchronises the gate, adds
gates and then clears some: whichever it does, a boundary that is owed after it has its
gate in the list, wherever that was put (`MemberBefore`, `UpdatedGates`). `ToldStaysTrue`: `CapsuleInv` says what the file
holds in terms of what the commands recorded (`FileAgrees`: the open gates, the first
decision, the last texts, as far as they are not doubtful), and, of each command
between its load and the end of its write, that what it will write agrees with what
will have been recorded then, as far as it has missed nothing (`CommandsAgree` with
`OpenThen`, `FirstThen`, `LatestThen`); a decision recorded again keeps its place
(`Upserted`). `HooksAgree` is what a hook has told or judged, until something changes. `RouteMatchIsExact` states the correctness of an algorithm: the greedy
loop of `route_sequence_satisfied`, which keeps one position, finds the required routes
in the history if and only if there is any way to embed them in it in their order
(`Greatest`: the position is the greatest number of them that can be embedded). With
`Ordered`, which every way of requiring a route keeps (Uigwe is never behind
Seungjeongwon, `RequiredOrdered`), `ProtectedStaysPlanned` follows: no protected path is
written under a Context that requires both before Uigwe was entered, and Seungjeongwon
after it. This action property has no run of its own: the starts of `MCSession` also
require Jiphyeonjeon, which no update there enters between the two, so no such write
happens in its instance; with a start that requires just the two it does, after one
update.

Every property of a passing run but the five of liveness (`AttemptEnds`,
`DeadOwnerReplaced`, `ActiveWaveCloses`, `Recovers`, `CancellationStops`) is stated by
a theorem. Liveness under fairness is beyond the prover and stays with TLC.

`GuardExclusive`, `RevisionPerMutation`, `EpochFollowsTarget`,
`IndexNotAhead` and the inductive `LockInv` and `ContextInv` are proved and need no run.

## 7. Disagreements found

Five have a run of their own, and `PROJECT.json` quotes what the documents and
tests say.

- `LockAba.cfg`: every lock file without a record reads the same, so a contender
  can swap away the empty file that a live process has just created.
- `LeaseScopes.cfg`: two globs in one directory are compared by the letters before
  their wildcards as if these were paths, and two workers may write one file.
- `CleanupMalformed.cfg`: `finalize-run` meets a malformed binding, deletes raw
  artifacts and then fails.
- `WorkerClaims.cfg`: a worker's message that claims the lead's authority passes
  when it also holds a valid brief.
- `IntegratedGate.cfg`: the integrated gate cannot pass on the repository's own
  fixtures.

The others are behaviours of the models too. They were met while the properties
were being written, and they are why some properties are stated with a
precondition or for one process; after each, what brings it about.

- A process that dies with the guard file blocks the lock for ever
  (`sejong_runtime_lock.py:178`): `GuardCrash = TRUE` in `MCLiveness.cfg` breaks
  `DeadOwnerReplaced`.
- A release that meets another process's guard returns as if it had released
  (`sejong_runtime_lock.py:148`): `ReleaseSkipped` leaves the lock file in place
  with `result` "released".
- The pid of an owner on another host is probed locally
  (`sejong_runtime_lock.py:283`): two values of `Host` in `MCEvidence.cfg` break
  `MutualExclusion`.
- A close that loses the compare-and-swap after its tombstone leaves the Context
  active and unreachable through the session (`sejong_context.py:788`):
  `Tombstone` followed by `SaveConflict`.
- A terminal receipt may take the id of the coming fan-in, and Core then rejects
  its own ledger (`delegation_wave.py:239`): a wave's name among the
  `TerminalIds` (`SharedIds` in `MCDelegation.cfg`) brings it about.
- A wave declared during `open-round` makes the compensation refuse
  (`delegation_run.py:232`): `AddWave` between `OpenRound` and
  `RoundWriteFails`. `RoundsAccountedFor` says what still holds.
- Two fan-ins of one wave share a temporary name, and an empty file is published
  for a while, or for good if the second one dies (`delegation_run.py:298`):
  `OutputIsWhole` for a wave outside `Serial`.
- A cancellation dated before its approval is recorded, and no command loads the
  ledger any more (`external_action_contract.py:183`): `BackDated`. With `--at`
  anybody can write one, and a caller who gives the time it is as well: its `--at` is
  fixed before it waits for the lock (`external_action_receipt.py:90`), and while it
  waits an authorize whose approval is issued later gets there first (`PrepareRecord`,
  `Tick`, `Prepare`, `Authorize`, `Record`). `LedgerLoads` says that nothing else makes
  the ledger unreadable, and that such a caller must have asked before the
  authorization.
- `transition --status releasing --blocker ""` passes every check and writes a lease
  that no command can load again (`worker_resource_model.py:195`, against
  `_nullable_text` in `load_lease`, 247): `TransitionLease` with the blocker "empty".
  `CleanupIsTrue` names this lease as the only one.
- A capsule command that loaded the file before another one wrote it drops the gate or
  the decision that the other recorded (`continuity_capsule.py:232-312`), and so does a
  `start` without `--force`, which asked whether the file exists before the other
  created it: `Write` by a process whose `missed` is not empty. `ToldIsTrue` speaks of
  what is not `doubtful` after such writes.
- An approval may expire while authorize waits for the lock
  (`external_action_receipt.py:76`): `Tick` between `Prepare` and `Authorize`.
- A first installation without `--force` fails after it has published the
  maintenance guard (`scripts/install-sejong.sh:1923`): `CopySkills` after
  `PublishGuard` created the directory.
- A hook can pass between the guard's commit and the `in_progress` record
  (`scripts/install-sejong.sh:1175`): such a hook is `disturbed`, and
  `HookRunsOneInstallation`, which holds any other to the transaction's digest,
  leaves it out.
- Three imported modules are not in the authority digest
  (`plugins/king-sejong/hooks/king-sejong-hook.py:31`): `Undigested`, and the
  last disjunct of `HookRunsOneInstallation`.
- Replay accepts a checkpoint of a run that was restarted with other criteria
  within the same second (`seungjeongwon_run.py:899`): `ReplayIsCurrent` with two
  `Criteria` and `MaxStarts = 2`; `ReplayIsExact` says that nothing else can differ.
- Two commands load the same execution run and one drops the other's attempt
  (`seungjeongwon_run.py:993`): `CompletionEarned` with two `Procs`.
- Two events for one ticket start two processes (`codex_ticket_runner.py:63`):
  `OneProcessPerEvent`, in `StartInv`, says it of one event.
- A crash between the sealed receipt and the terminal is never repaired
  (`codex_ticket_runner.py:80`): a runner killed before `RecordTerminal`.
- A launcher that dies between its attempt file and `open-wave` leaves a wave
  that no command can launch again, since each finds the attempt
  (`team_executor.py:2222`): `Die` after the attempt is linked; `DispatchOnce` is
  what the attempt file is for.
- Two `add-worker` commands for one id both pass their check, and the loser's
  clean-up takes the winner's files and registration (`team_executor.py:870`):
  `raced` remembers it, and `MembersRegistered` leaves such a worker out.
- A session that binds a run after its protection was computed loses the run's
  artifacts (`sejong_cleanup.py:188`): `Rebind` after `LookAt`; `SparesBound`
  speaks of sessions that stayed as they were (`steady`). Of two commands on one run
  the second may find the summary of the first, so what is removed is old enough and
  had some summary when its command looked, not necessarily one of its own.
- The doctor skips a Context that it cannot read, and is clean
  (`sejong_doctor_runtime.py:80`): the "unreadable" state; `CleanIsHealthy` leaves
  it out.

## 8. Not modelled

- *Discord contracts, parsers, target registry, model policy*: they accept or
  refuse a message by its fields and keep nothing.
- *Evaluation and scorecards, benchmarks, bundle and JSON validation*: pure
  reports over fixtures whose content is their numbers and their prose; of them
  only the integrated gate decides about other parts.
- *Sillok trace, project summary, repo context*: written for a reader; no other
  part acts on them.
- *Repository-scope installer*: copies files, without a transaction or a reader
  that checks them.
- *Schemas, skills and other prose surfaces*: no code.
- *Within the modelled parts*: identifiers' formats, provenance, text fields,
  path checks, output bounding, argv, the computation of digests (a digest is
  the contents it covers), `fsync` and power loss (a completed write stays). The
  TeamExecutor's `status`, `summary`, `handoff` and prompts only read or format.
  Scope patterns are directory names and one trailing glob; `?` and `[` are not
  in them. `PROJECT.json` says of each component what is left out.

## 9. Plan

1. A second process where a run has one: two cleanups at once in `RunRetention`,
   two adapters in `WorkerLease`. Their theorems hold for any number.
2. `TeamWorkers` over the waves of `DelegationRun`: its `core` and `wave` are the
   ledger as one launch sees it, and `WaveSchedule` is the contract between the
   two.
3. The runtime lock on two hosts, once the code says what a pid of another host
   means.
