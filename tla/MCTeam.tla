--------------------------------- MODULE MCTeam ---------------------------------
(*****************************************************************************)
(* One TeamExecutor run on small instances: its rounds and mailbox, its      *)
(* write leases, the launch and removal of wave workers and of workers added *)
(* later, the leases of the host's resources, and what is kept of old runs.  *)
(* A behaviour is one of a single component; the others' variables rest.     *)
(*****************************************************************************)
EXTENDS TeamMailbox, TLC

CONSTANTS
  Initial, Added, WaveWorkers, Writers,                        \* launches of workers
  ResourceIds, Holders, ProofRefs,                             \* leases of resources
  Runs, Sessions, RawTtl, CompactTtl, MaxCompact, MaxAge,      \* retention of runs
  Named,
  Cleaners                          \* record-cleanup, finalize-run and prune-runs

VARIABLE part      \* the component whose behaviour this is
VARIABLES
  run, team, files, core, wave, attempt, panes, started, tree, lock, pc, job, raced,
  lease, reported, receipts, loaded,
  dir, binding, damaged, refs, task, steady

\* A launch of the declared wave with the workers of `init`, and launches outside of a wave
\* in a team that a worker is added to: TeamWorkers twice, with the lemmas about it that
\* TeamProofs cites.
Launching == INSTANCE TeamWorkersProofs WITH Added <- {}
Adding == INSTANCE TeamWorkersProofs WITH WaveWorkers <- {}, Writers <- {}
Resources == INSTANCE WorkerLease WITH
  Leases <- ResourceIds, Workers <- Holders, Procs <- Cleaners
Retention == INSTANCE RunRetention WITH Procs <- Cleaners, job <- task

ASSUME LaunchingAssumption == Launching!ConstantsAssumption
ASSUME AddingAssumption == Adding!ConstantsAssumption
ASSUME RetentionAssumption == Retention!ConstantsAssumption

\* a, a/b*, a/ba, ab and *; a name is a sequence of letters.
MCScopes ==
  {[dirs |-> <<<<1>>>>, star |-> FALSE, part |-> <<>>],
   [dirs |-> <<<<1>>>>, star |-> TRUE, part |-> <<2>>],
   [dirs |-> <<<<1>>, <<2, 1>>>>, star |-> FALSE, part |-> <<>>],
   [dirs |-> <<<<1, 2>>>>, star |-> FALSE, part |-> <<>>],
   [dirs |-> <<>>, star |-> TRUE, part |-> <<>>]}
MCFiles == UNION {[1..n -> {<<1>>, <<1, 2>>, <<2, 1>>}] : n \in 1..2}
MCRawTtl == [success |-> 0, failed |-> 1]
MCNamed == {{}, {1}}

talked == <<rounds, coreRounds, opener, torn, mailbox, sending, got>>
launched == <<run, team, files, core, wave, attempt, panes, started, tree, lock, pc, job, raced>>
held == <<lease, reported, receipts, loaded>>
kept == <<dir, binding, damaged, refs, task, steady>>
AllVars == <<part, vars, launched, held, kept>>

AllInit ==
  /\ part \in {"mailbox", "leases", "wave", "added", "resources", "retention"}
  /\ Init
  /\ IF part \in {"wave", "added"}
     THEN (part = "wave" /\ Launching!Init) \/ (part = "added" /\ Adding!Init)
     ELSE run = "idle" /\ team = "idle" /\ files = "idle" /\ core = "idle" /\ wave = "idle"
          /\ attempt = "idle" /\ panes = "idle" /\ started = "idle" /\ tree = "idle"
          /\ lock = "idle" /\ pc = "idle" /\ job = "idle" /\ raced = "idle"
  /\ IF part = "resources" THEN Resources!Init
     ELSE lease = "idle" /\ reported = "idle" /\ receipts = "idle" /\ loaded = "idle"
  /\ IF part = "retention" THEN Retention!Init
     ELSE dir = "idle" /\ binding = "idle" /\ damaged = "idle" /\ refs = "idle"
          /\ task = "idle" /\ steady = "idle"

AllNext ==
  /\ UNCHANGED part
  /\ \/ part = "mailbox" /\ Next /\ UNCHANGED <<leases, launched, held, kept>>
     \/ part = "leases" /\ Next /\ UNCHANGED <<talked, launched, held, kept>>
     \/ part = "wave" /\ Launching!Next /\ UNCHANGED <<vars, held, kept>>
     \/ part = "added" /\ Adding!Next /\ UNCHANGED <<vars, held, kept>>
     \/ part = "resources" /\ Resources!Next /\ UNCHANGED <<vars, launched, kept>>
     \/ part = "retention" /\ Retention!Next /\ UNCHANGED <<vars, launched, held>>

AllSpec == AllInit /\ [][AllNext]_AllVars

AllSymmetry == Permutations(Procs) \cup Permutations(MessageIds) \cup Permutations(Workers)

--------------------------------------------------------------------------------
\* As long as nobody's scope is a glob of names in the root (run lease_scopes), the active
\* write leases of two workers share no file.
RootedScopes == \A s \in Scopes : s.star /\ s.dirs = <<>> => s.part = <<>>
LeasesAreDisjoint == RootedScopes => OneWriterPerFile

\* Each launch of a worker follows one admission, in a declared wave and outside of one, and
\* whoever is a member of the team is in the Core's ledger and has its files.
LaunchInv ==
  /\ part = "wave" => Launching!DispatchOnce /\ Launching!MembersRegistered
  /\ part = "added" => Adding!DispatchOnce /\ Adding!MembersRegistered

\* Removing a worktree takes no change that is not committed, and recording a launch as
\* failed takes no end that a worker has reported.
NothingLost ==
  [][/\ part = "wave" => Launching!LosesNothing
     /\ part = "added" => Adding!LosesNothing]_AllVars

\* A lease that has ended can be loaded and receipted, and its receipt says what it says.
CleanupIsTrue == part = "resources" => Resources!CleanupIsTrue

\* The cleanup of old runs spares the ones that a Context of a bound session names.
BoundRunsSurvive == [][part = "retention" => Retention!SparesBound]_AllVars
================================================================================
