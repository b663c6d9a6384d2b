------------------------------ MODULE RuntimeLock ------------------------------
(***************************************************************************)
(* One named runtime lock of docs/sejong/scripts/sejong_runtime_lock.py:   *)
(* a lock file created with O_EXCL, broken by a contender that finds it    *)
(* stale, and released by renaming it away and unlinking it.  A second     *)
(* file, <name>.lock.stale-break, guards stale-breaking and releasing.     *)
(*                                                                         *)
(* Every file-system call that another process can observe is a step of    *)
(* its own.  A process is one operating-system process; a tool that is     *)
(* started again after a crash is another member of Procs.                 *)
(***************************************************************************)
EXTENDS Naturals

CONSTANTS
  Procs,        \* operating-system processes using the lock
  Host,         \* the host each process runs on
  MaxTokens,    \* bound on the acquisitions of one process
  Aging,        \* which lock files may reach the stale-age threshold
  GuardCrash,   \* may a process die while its guard file exists?
  Nil,          \* no file, no process
  Malformed     \* what a reader gets from a file with no JSON in it

\* The record of one acquisition attempt: uuid4 makes the token unique, and
\* owner_process_id names the process.
Token == [own : Procs, seq : Nat]

\* "never": critical sections and stalls are shorter than stale_after_seconds
\* and nobody waits that long; "abandoned": only files no live process is
\* using grow that old; "any": a live owner may also be that slow.
ASSUME ConstantsAssumption ==
  /\ Aging \in {"never", "abandoned", "any"}
  /\ GuardCrash \in BOOLEAN
  /\ MaxTokens \in Nat
  /\ Nil \notin Token \cup Procs
  /\ Malformed \notin Token \cup {Nil}

VARIABLES
  pc,       \* where each process is in acquire_runtime_lock or release
  gone,     \* processes that have died
  file,     \* the token of the file linked at the lock path, or Nil
  written,  \* tokens whose JSON record has been written to their file
  aged,     \* tokens whose heartbeat and mtime are older than the threshold
  guard,    \* the creator of the guard file, or Nil when there is none
  moved,    \* the file a releaser has renamed to its private temporary name
  obs,      \* the record a contender has read and is acting on
  tok,      \* the token of the process's latest acquisition
  seq,      \* tokens published by each process
  result    \* how the process's latest call ended

vars == <<pc, gone, file, written, aged, guard, moved, obs, tok, seq, result>>

Acquiring == {"check", "create", "observe", "judge", "takeGuard", "recheck",
              "swap", "unguard", "wait"}
Owning    == {"write", "settle", "held", "relGuard", "relRename", "relVerify"}
Location  == {"idle", "relUnguard"} \cup Acquiring \cup Owning

Init ==
  /\ pc = [p \in Procs |-> "idle"]
  /\ gone = {}
  /\ file = Nil
  /\ written = {}
  /\ aged = {}
  /\ guard = Nil
  /\ moved = [p \in Procs |-> Nil]
  /\ obs = [p \in Procs |-> Nil]
  /\ tok = [p \in Procs |-> Nil]
  /\ seq = [p \in Procs |-> 0]
  /\ result = [p \in Procs |-> "none"]

\* read_lock_record: every file without a JSON object reads the same.
ReadRecord(f) ==
  IF f = Nil THEN Nil ELSE IF f \in written THEN f ELSE Malformed

\* A live process takes one step from location a to location b.
Move(p, a, b) ==
  /\ p \notin gone
  /\ pc[p] = a
  /\ pc' = [pc EXCEPT ![p] = b]

Fresh(p) == [own |-> p, seq |-> seq[p] + 1]

-----------------------------------------------------------------------------
(* acquire_runtime_lock *)

Begin(p) ==
  /\ Move(p, "idle", "check")
  /\ seq[p] < MaxTokens
  /\ result' = [result EXCEPT ![p] = "none"]
  /\ UNCHANGED <<gone, file, written, aged, guard, moved, obs, tok, seq>>

CheckGuard(p) ==
  /\ Move(p, "check", IF guard = Nil THEN "create" ELSE "wait")
  /\ UNCHANGED <<gone, file, written, aged, guard, moved, obs, tok, seq, result>>

\* Mutant: os.open without O_EXCL.
CreateFileNotExclusive(p) ==
  /\ Move(p, "create", "write")
  /\ file' = Fresh(p)
  /\ tok' = [tok EXCEPT ![p] = Fresh(p)]
  /\ seq' = [seq EXCEPT ![p] = @ + 1]
  /\ UNCHANGED <<gone, written, aged, guard, moved, obs, result>>

\* write_new_lock_file, first half: os.open(O_CREAT | O_EXCL) links an empty file.
CreateFile(p) ==
  /\ file = Nil
  /\ Move(p, "create", "write")
  /\ file' = Fresh(p)
  /\ tok' = [tok EXCEPT ![p] = Fresh(p)]
  /\ seq' = [seq EXCEPT ![p] = @ + 1]
  /\ UNCHANGED <<gone, written, aged, guard, moved, obs, result>>

CreateFails(p) ==
  /\ file # Nil
  /\ Move(p, "create", "observe")
  /\ UNCHANGED <<gone, file, written, aged, guard, moved, obs, tok, seq, result>>

\* write_new_lock_file, second half: the record goes to the created file,
\* wherever that file is linked by then, and acquire returns.
WriteRecord(p) ==
  /\ Move(p, "write", "held")
  /\ written' = written \cup {tok[p]}
  /\ UNCHANGED <<gone, file, aged, guard, moved, obs, tok, seq, result>>

Observe(p) ==
  /\ Move(p, "observe", "judge")
  /\ obs' = [obs EXCEPT ![p] = ReadRecord(file)]
  /\ UNCHANGED <<gone, file, written, aged, guard, moved, tok, seq, result>>

\* stale_lock_reason is not None.  The pid is probed on the contender's host,
\* where the pid of a remote owner may or may not exist; a malformed record
\* is dated by the mtime of whatever file is at the path now.
LooksStale(p) ==
  \/ /\ obs[p] \in Token
     /\ \/ obs[p].own \in gone
        \/ Host[obs[p].own] # Host[p]
        \/ obs[p] \in aged
  \/ /\ obs[p] = Malformed
     /\ file \in aged

\* stale_lock_reason is None.
LooksLive(p) ==
  /\ obs[p] \in Token =>
       /\ obs[p].own \notin gone \/ Host[obs[p].own] # Host[p]
       /\ obs[p] \notin aged
  /\ obs[p] = Malformed => file \notin aged

JudgeStale(p) ==
  /\ LooksStale(p)
  /\ Move(p, "judge", "takeGuard")
  /\ UNCHANGED <<gone, file, written, aged, guard, moved, obs, tok, seq, result>>

JudgeLive(p) ==
  /\ LooksLive(p)
  /\ Move(p, "judge", "wait")
  /\ obs' = [obs EXCEPT ![p] = Nil]
  /\ UNCHANGED <<gone, file, written, aged, guard, moved, tok, seq, result>>

\* replace_stale_lock: the guard is created with O_EXCL, or the loop continues.
TakeGuard(p) ==
  /\ guard = Nil
  /\ Move(p, "takeGuard", "recheck")
  /\ guard' = p
  /\ UNCHANGED <<gone, file, written, aged, moved, obs, tok, seq, result>>

GuardTaken(p) ==
  /\ guard # Nil
  /\ Move(p, "takeGuard", "check")
  /\ obs' = [obs EXCEPT ![p] = Nil]
  /\ UNCHANGED <<gone, file, written, aged, guard, moved, tok, seq, result>>

\* Mutant: the second reading of the lock file is not compared.
RecheckNothing(p) ==
  /\ Move(p, "recheck", "swap")
  /\ UNCHANGED <<gone, file, written, aged, guard, moved, obs, tok, seq, result>>

Recheck(p) ==
  /\ Move(p, "recheck", IF ReadRecord(file) = obs[p] THEN "swap" ELSE "unguard")
  /\ UNCHANGED <<gone, file, written, aged, guard, moved, obs, tok, seq, result>>

\* The replacement is written under a private name and renamed over the path.
Swap(p) ==
  /\ Move(p, "swap", "settle")
  /\ file' = Fresh(p)
  /\ written' = written \cup {Fresh(p)}
  /\ tok' = [tok EXCEPT ![p] = Fresh(p)]
  /\ seq' = [seq EXCEPT ![p] = @ + 1]
  /\ obs' = [obs EXCEPT ![p] = Nil]
  /\ UNCHANGED <<gone, aged, guard, moved, result>>

\* The finally clause of replace_stale_lock, after success and after failure.
Settle(p) ==
  /\ Move(p, "settle", "held")
  /\ guard' = Nil
  /\ UNCHANGED <<gone, file, written, aged, moved, obs, tok, seq, result>>

\* Mutant: the guard is left behind after a lost race.
UnguardKeepsGuard(p) ==
  /\ Move(p, "unguard", "check")
  /\ obs' = [obs EXCEPT ![p] = Nil]
  /\ UNCHANGED <<gone, file, written, aged, guard, moved, tok, seq, result>>

Unguard(p) ==
  /\ Move(p, "unguard", "check")
  /\ guard' = Nil
  /\ obs' = [obs EXCEPT ![p] = Nil]
  /\ UNCHANGED <<gone, file, written, aged, moved, tok, seq, result>>

\* wait_for_retry: sleep and try again, or raise once the timeout has passed.
Retry(p) ==
  /\ Move(p, "wait", "check")
  /\ UNCHANGED <<gone, file, written, aged, guard, moved, obs, tok, seq, result>>

\* Mutant: the deadline is not checked.
NoTimeout(p) == FALSE /\ UNCHANGED vars

Timeout(p) ==
  /\ Move(p, "wait", "idle")
  /\ result' = [result EXCEPT ![p] = "timeout"]
  /\ UNCHANGED <<gone, file, written, aged, guard, moved, obs, tok, seq>>

-----------------------------------------------------------------------------
(* RuntimeLock.release and remove_owned_lock_file *)

ReleaseRead(p) ==
  /\ ReadRecord(file) = tok[p]
  /\ Move(p, "held", "relGuard")
  /\ UNCHANGED <<gone, file, written, aged, guard, moved, obs, tok, seq, result>>

\* No file: release returns.  Another token: it raises RuntimeLockReleaseError.
ReleaseLost(p) ==
  /\ ReadRecord(file) # tok[p]
  /\ Move(p, "held", "idle")
  /\ result' = [result EXCEPT ![p] = IF file = Nil THEN "released" ELSE "error"]
  /\ UNCHANGED <<gone, file, written, aged, guard, moved, obs, tok, seq>>

ReleaseGuard(p) ==
  /\ guard = Nil
  /\ Move(p, "relGuard", "relRename")
  /\ guard' = p
  /\ UNCHANGED <<gone, file, written, aged, moved, obs, tok, seq, result>>

\* FileExistsError on the guard: release returns, the lock file stays.
ReleaseSkipped(p) ==
  /\ guard # Nil
  /\ Move(p, "relGuard", "idle")
  /\ result' = [result EXCEPT ![p] = "released"]
  /\ UNCHANGED <<gone, file, written, aged, guard, moved, obs, tok, seq>>

ReleaseRename(p) ==
  /\ Move(p, "relRename", IF file = Nil THEN "relUnguard" ELSE "relVerify")
  /\ moved' = [moved EXCEPT ![p] = file]
  /\ file' = Nil
  /\ result' = [result EXCEPT ![p] = IF file = Nil THEN "released" ELSE @]
  /\ UNCHANGED <<gone, written, aged, guard, obs, tok, seq>>

ReleaseUnlink(p) ==
  /\ ReadRecord(moved[p]) = tok[p]
  /\ Move(p, "relVerify", "relUnguard")
  /\ moved' = [moved EXCEPT ![p] = Nil]
  /\ result' = [result EXCEPT ![p] = "released"]
  /\ UNCHANGED <<gone, file, written, aged, guard, obs, tok, seq>>

\* The renamed file is someone else's: it replaces whatever is at the path now.
ReleaseRestore(p) ==
  /\ ReadRecord(moved[p]) # tok[p]
  /\ Move(p, "relVerify", "relUnguard")
  /\ file' = moved[p]
  /\ moved' = [moved EXCEPT ![p] = Nil]
  /\ result' = [result EXCEPT ![p] = "error"]
  /\ UNCHANGED <<gone, written, aged, guard, obs, tok, seq>>

ReleaseUnguard(p) ==
  /\ Move(p, "relUnguard", "idle")
  /\ guard' = Nil
  /\ UNCHANGED <<gone, file, written, aged, moved, obs, tok, seq, result>>

-----------------------------------------------------------------------------
(* The environment: processes die, files grow old *)

\* A live process is between publishing t and removing it.
InUse(t) == \E p \in Procs \ gone : pc[p] \in Owning /\ tok[p] = t

Reachable == {file} \cup {obs[p] : p \in Procs} \cup {moved[p] : p \in Procs}

GrowOld(t) ==
  /\ t \in Token \ aged
  /\ Aging = "any" \/ (Aging = "abandoned" /\ ~InUse(t))
  /\ aged' = aged \cup {t}
  /\ UNCHANGED <<pc, gone, file, written, guard, moved, obs, tok, seq, result>>

Crash(p) ==
  /\ p \notin gone
  /\ guard = p => GuardCrash
  /\ gone' = gone \cup {p}
  /\ UNCHANGED <<pc, file, written, aged, guard, moved, obs, tok, seq, result>>

Acquire(p) ==
  \/ CheckGuard(p) \/ CreateFile(p) \/ CreateFails(p) \/ WriteRecord(p)
  \/ Observe(p) \/ JudgeStale(p) \/ JudgeLive(p)
  \/ TakeGuard(p) \/ GuardTaken(p) \/ Recheck(p) \/ Swap(p) \/ Settle(p)
  \/ Unguard(p) \/ Retry(p)

Release(p) ==
  \/ ReleaseRead(p) \/ ReleaseLost(p) \/ ReleaseGuard(p) \/ ReleaseSkipped(p)
  \/ ReleaseRename(p) \/ ReleaseUnlink(p) \/ ReleaseRestore(p)
  \/ ReleaseUnguard(p)

Next ==
  \/ \E p \in Procs :
       Begin(p) \/ Acquire(p) \/ Timeout(p) \/ Release(p) \/ Crash(p)
  \/ \E t \in Reachable : GrowOld(t)

Spec == Init /\ [][Next]_vars

\* A started call runs on, a critical section ends (callers release in a
\* finally clause), and a process that keeps waiting reaches its deadline.
Fairness ==
  \A p \in Procs :
    /\ WF_vars(Acquire(p))
    /\ WF_vars(Release(p))
    /\ SF_vars(Timeout(p))

FairSpec == Spec /\ Fairness

\* Sessions that call acquire again after a timeout.
RetryingSpec == FairSpec /\ \A p \in Procs : WF_vars(Begin(p))

-----------------------------------------------------------------------------
(* Properties *)

TokenOrNil == Token \cup {Nil}

\* Every variable keeps its type, and whoever writes a record has a token.
TypeOK ==
  /\ pc \in [Procs -> Location]
  /\ gone \subseteq Procs
  /\ file \in TokenOrNil
  /\ written \subseteq Token
  /\ aged \subseteq Token
  /\ guard \in Procs \cup {Nil}
  /\ moved \in [Procs -> TokenOrNil]
  /\ obs \in [Procs -> TokenOrNil \cup {Malformed}]
  /\ tok \in [Procs -> TokenOrNil]
  /\ seq \in [Procs -> Nat]
  /\ result \in [Procs -> {"none", "released", "timeout", "error"}]
  /\ \A p \in Procs : pc[p] = "write" => tok[p] \in Token

Holders == {p \in Procs \ gone : pc[p] = "held"}

\* At most one live process is between a successful acquire_runtime_lock and
\* the start of its release.
MutualExclusion == \A p, q \in Holders : p = q

Guarded == {"recheck", "swap", "settle", "unguard",
            "relRename", "relVerify", "relUnguard"}

\* The guard file keeps stale-breaking and releasing apart: two live processes
\* are never both between creating the guard and removing it, however slow
\* the owners are and wherever they run.
GuardExclusive ==
  \A p, q \in Procs \ gone : pc[p] \in Guarded /\ pc[q] \in Guarded => p = q

\* release never raises RuntimeLockReleaseError, whoever waits for the lock, judges it
\* stale or dies meanwhile: nobody takes away the file of a live owner, not even between
\* its renaming and its unlinking, and a releaser never meets the file of another
\* (release:133-142, remove_owned_lock_file:144-165).  Callers release in a finally clause after they have
\* committed, so the error would hide a done write.
ReleaseSucceeds == \A p \in Procs : result[p] # "error"

\* A call of acquire_runtime_lock returns or raises: no lost wake-up, no
\* endless round between the guard, the stale check and the retry.
AttemptEnds ==
  \A p \in Procs : pc[p] = "check" ~> (pc[p] \in {"held", "idle"} \/ p \in gone)

LeftByTheDead == file \in written /\ file.own \in gone

\* A written lock file whose owner has died is replaced as long as somebody
\* keeps calling acquire_runtime_lock.
DeadOwnerReplaced ==
  \A p \in Procs :
    LeftByTheDead ~> (~LeftByTheDead \/ p \in gone \/ seq[p] = MaxTokens)

-----------------------------------------------------------------------------
(* The inductive invariant behind MutualExclusion, for lock users that run on
   one host and finish within the stale-age threshold. *)

PromptOnOneHost ==
  /\ Aging = "never"
  /\ \A p, q \in Procs : Host[p] = Host[q]

\* A live process between its acquisition and its unlink has the latest token
\* it published, and that token names the file at the lock path (or the file
\* it has renamed away), with the record written in all but the first step.
OwnsItsFile(p) ==
  pc[p] \in Owning =>
    /\ tok[p] = [own |-> p, seq |-> seq[p]]
    /\ pc[p] = "relVerify" => moved[p] = tok[p]
    /\ pc[p] # "relVerify" => file = tok[p]
    /\ tok[p] \in written <=> pc[p] # "write"

\* A live process in a guarded section is the creator of the guard file.
OwnsGuard(p) == pc[p] \in Guarded => guard = p

\* A live contender on its way to the swap acts on the record of a dead owner,
\* and after the second reading that record is still the one at the path.
BreaksTheDead(p) ==
  /\ pc[p] \in {"takeGuard", "recheck", "swap"} =>
       obs[p] \in Token /\ obs[p].own \in gone
  /\ pc[p] = "swap" => file = obs[p]

\* No process will publish a token whose record exists already.
WrittenAreOld == \A t \in written : t.seq <= seq[t.own]

\* The strengthening of MutualExclusion that every step preserves.
LockInv ==
  /\ TypeOK
  /\ aged = {}
  /\ WrittenAreOld
  /\ \A p \in Procs \ gone : OwnsItsFile(p) /\ OwnsGuard(p) /\ BreaksTheDead(p)
================================================================================
