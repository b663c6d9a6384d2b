------------------------------- MODULE MCLiveness -------------------------------
(*****************************************************************************)
(* What eventually happens, on small instances: an acquire ends, a wave      *)
(* closes, a reinstallation completes, a cancelled child stops.              *)
(*****************************************************************************)
EXTENDS TicketRun, TLC

CONSTANTS Procs, Malformed, Workers, Threads, Waves, i1, g1, g2, m1, Canonical, Runner, Guard, Edited,
          Absent, t1, e1, e2

OneEventEach == [t \in Runners |-> IF t = t1 THEN e1 ELSE e2]

VARIABLE part      \* the component whose behaviour this is
VARIABLES run_worker, run_rounds, run_wave, run_terminals, run_cleanups, run_fanIns, run_starting,
          run_team, run_opening
VARIABLES ins_pc, ins_alive, ins_force, ins_snap, ins_installed, ins_present, ins_txn, ins_hook,
          ins_drifted, ins_mishaps
VARIABLES lock_pc, lock_gone, lock_file, lock_written, lock_aged, lock_guard, lock_moved, lock_obs,
          lock_tok, lock_seq, lock_result

run_vars == <<run_worker, run_rounds, run_wave, run_terminals, run_cleanups, run_fanIns, run_starting, run_team,
              run_opening>>
Deleg == INSTANCE DelegationRun WITH
    Workers <- Workers, Threads <- Threads, Waves <- Waves,
    Rounds <- {}, MaxTotal <- 3, MaxConcurrency <- 2, MaxRounds <- 3,
    TerminalIds <- [w \in Workers |-> {<<"terminal", w>>}],
    CleanupIds <- [w \in Workers |-> {<<"cleanup", w>>}], Leases <- [w \in Workers |-> {{w}}],
    Outcomes <- {"completed", "failed"}, Forms <- {TRUE}, Interruptions <- TRUE, Nil <- Nil,
    worker <- run_worker, rounds <- run_rounds, wave <- run_wave, terminals <- run_terminals,
    cleanups <- run_cleanups, fanIns <- run_fanIns, starting <- run_starting, team <- run_team,
    opening <- run_opening

ins_vars == <<ins_pc, ins_alive, ins_force, ins_snap, ins_installed, ins_present, ins_txn, ins_hook, ins_drifted,
              ins_mishaps>>
Install == INSTANCE UserInstall WITH
    Installers <- {i1}, Epoch <- [i \in {i1} |-> 2],
    Hooks <- {}, Gens <- {g1, g2}, Modules <- {m1}, Undigested <- {}, Canonical <- Canonical,
    Runner <- Runner, Guard <- Guard, Edited <- Edited, Absent <- Absent, MaxMishaps <- 1,
    pc <- ins_pc, alive <- ins_alive, force <- ins_force, snap <- ins_snap,
    installed <- ins_installed, present <- ins_present, txn <- ins_txn, hook <- ins_hook,
    drifted <- ins_drifted, mishaps <- ins_mishaps

lock_vars == <<lock_pc, lock_gone, lock_file, lock_written, lock_aged, lock_guard, lock_moved, lock_obs,
               lock_tok, lock_seq, lock_result>>
Lock == INSTANCE RuntimeLock WITH
    Host <- [p \in Procs |-> "a"], MaxTokens <- 2, Aging <- "any", GuardCrash <- FALSE,
    pc <- lock_pc, gone <- lock_gone, file <- lock_file, written <- lock_written, aged <- lock_aged,
    guard <- lock_guard, moved <- lock_moved, obs <- lock_obs, tok <- lock_tok, seq <- lock_seq,
    result <- lock_result

AllVars == <<part, vars, run_vars, ins_vars, lock_vars>>

\* One component moves, the others stay in one initial state.
AllInit ==
  /\ part \in {"lock", "run", "install", "ticket"}
  /\ Init /\ Deleg!Init /\ Install!Init /\ Lock!Init

AllNext ==
  \/ part = "lock" /\ Lock!Next /\ UNCHANGED <<part, vars, run_vars, ins_vars>>
  \/ part = "run" /\ Deleg!Next /\ UNCHANGED <<part, vars, ins_vars, lock_vars>>
  \/ part = "install" /\ Install!Next /\ UNCHANGED <<part, vars, run_vars, lock_vars>>
  \/ part = "ticket" /\ Next /\ UNCHANGED <<part, run_vars, ins_vars, lock_vars>>

AllSpec == AllInit /\ [][AllNext]_AllVars

\* The fairness of the components, RetryingSpec of RuntimeLock and FairSpec of the others,
\* for the one that moves.
LockFairness ==
  \A p \in Procs :
    /\ WF_lock_vars(part = "lock" /\ Lock!Acquire(p)) /\ WF_lock_vars(part = "lock" /\ Lock!Release(p))
    /\ WF_lock_vars(part = "lock" /\ Lock!Begin(p)) /\ SF_lock_vars(part = "lock" /\ Lock!Timeout(p))
RunFairness ==
  /\ \A w \in Workers : /\ WF_run_vars(part = "run" /\ Deleg!ReportTerminal(w))
                        /\ WF_run_vars(part = "run" /\ Deleg!ReportCleanup(w))
  /\ \A v \in Waves : WF_run_vars(part = "run" /\ Deleg!FanIn(v))
InstallFairness ==
  /\ WF_ins_vars(part = "install" /\ Install!Acquire(i1)) /\ WF_ins_vars(part = "install" /\ Install!Reap(i1))
  /\ WF_ins_vars(part = "install" /\ Install!Work(i1)) /\ SF_ins_vars(part = "install" /\ Install!Launch(i1, TRUE))
TicketFairness ==
  \A p \in Runners : WF_vars(part = "ticket" /\ Run(p)) /\ WF_vars(part = "ticket" /\ SeeMarker(p))

FairAllSpec == AllSpec /\ LockFairness /\ RunFairness /\ InstallFairness /\ TicketFairness

--------------------------------------------------------------------------------
\* A wave that is open closes.
ActiveWaveCloses == Deleg!ActiveWaveCloses

\* Rerunning the installer brings a complete installation after any death or failure.
Recovers == part = "install" => Install!Recovers

\* Every acquire of a living process ends with a lock or an error.
AttemptEnds == Lock!AttemptEnds

\* A lock file whose owner has died is replaced while somebody keeps calling.
DeadOwnerReplaced == Lock!DeadOwnerReplaced
================================================================================
