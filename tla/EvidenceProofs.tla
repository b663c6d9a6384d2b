----------------------------- MODULE EvidenceProofs -----------------------------
(*****************************************************************************)
(* What MCEvidence checks on small instances, for every value of the          *)
(* constants: the runtime lock, the ledger of external actions, the evidence  *)
(* of ticket runs, the review of candidates, the write leases of hosts, and   *)
(* the work events.  Each component has an inductive invariant of its own.    *)
(*****************************************************************************)
EXTENDS MCEvidence, SequenceTheorems, TLAPS

--------------------------------------------------------------------------------
(* The runtime lock, for every set of processes and every bound on their    *)
(* acquisitions                                                              *)

\* A fresh token is a token.
LEMMA FreshType ==
  ASSUME TypeOK, NEW p \in Procs
  PROVE  Fresh(p) \in Token /\ Fresh(p).own = p /\ Fresh(p).seq = seq[p] + 1
BY DEF TypeOK, Fresh, Token

\* Every step of every handler keeps the variables in their types; this is
\* what the other invariants of the lock stand on.
THEOREM TypeCorrect == Spec => []TypeOK
<1>1. Init => TypeOK
  BY DEF Init, TypeOK, Location, TokenOrNil
<1>2. TypeOK /\ [Next]_vars => TypeOK'
  <2> SUFFICES ASSUME TypeOK, [Next]_vars PROVE TypeOK'
    OBVIOUS
  <2> USE DEF TypeOK, Move, TokenOrNil
  <2>1. ASSUME NEW p \in Procs,
               \/ CheckGuard(p) \/ CreateFails(p) \/ JudgeStale(p) \/ Recheck(p)
               \/ Retry(p) \/ ReleaseRead(p)
        PROVE  TypeOK'
    BY <2>1 DEF CheckGuard, CreateFails, JudgeStale, Recheck, Retry,
                ReleaseRead, Location, Acquiring, Owning
  <2>2. ASSUME NEW p \in Procs,
               \/ Begin(p) \/ Timeout(p) \/ ReleaseLost(p) \/ ReleaseSkipped(p)
        PROVE  TypeOK'
    BY <2>2 DEF Begin, Timeout, ReleaseLost, ReleaseSkipped, Location,
                Acquiring, Owning
  <2>3. ASSUME NEW p \in Procs, CreateFile(p) \/ Swap(p) PROVE TypeOK'
    <3>1. Fresh(p) \in Token
      BY FreshType
    <3> QED BY <2>3, <3>1 DEF CreateFile, Swap, Location, Acquiring, Owning
  <2>4. ASSUME NEW p \in Procs, WriteRecord(p) PROVE TypeOK'
    BY <2>4 DEF WriteRecord, Location, Acquiring, Owning
  <2>5. ASSUME NEW p \in Procs, Observe(p) \/ JudgeLive(p) PROVE TypeOK'
    <3>1. ReadRecord(file) \in TokenOrNil \cup {Malformed}
      BY DEF ReadRecord
    <3> QED BY <2>5, <3>1 DEF Observe, JudgeLive, Location, Acquiring, Owning
  <2>6. ASSUME NEW p \in Procs,
               \/ TakeGuard(p) \/ GuardTaken(p) \/ Settle(p) \/ Unguard(p)
               \/ ReleaseGuard(p) \/ ReleaseUnguard(p)
        PROVE  TypeOK'
    BY <2>6 DEF TakeGuard, GuardTaken, Settle, Unguard, ReleaseGuard,
                ReleaseUnguard, Location, Acquiring, Owning
  <2>7. ASSUME NEW p \in Procs,
               ReleaseRename(p) \/ ReleaseUnlink(p) \/ ReleaseRestore(p)
        PROVE  TypeOK'
    BY <2>7 DEF ReleaseRename, ReleaseUnlink, ReleaseRestore, Location,
                Acquiring, Owning
  <2>8. ASSUME NEW p \in Procs, Crash(p) PROVE TypeOK'
    BY <2>8 DEF Crash
  <2>9. ASSUME NEW t \in Reachable, GrowOld(t) PROVE TypeOK'
    BY <2>9 DEF GrowOld
  <2>10. CASE UNCHANGED vars
    BY <2>10 DEF vars
  <2> QED
    BY <2>1, <2>2, <2>3, <2>4, <2>5, <2>6, <2>7, <2>8, <2>9, <2>10
    DEF Next, Acquire, Release
<1> QED BY <1>1, <1>2, PTL DEF Spec

-----------------------------------------------------------------------------
(* The guard file *)

GuardInv == TypeOK /\ \A p \in Procs \ gone : OwnsGuard(p)

\* os.open(O_EXCL) on <name>.lock.stale-break and the unlink in the finally
\* clauses make the guard file the property of one live process.
LEMMA GuardStep == ASSUME GuardInv, TypeOK', [Next]_vars PROVE GuardInv'
<1> USE DEF GuardInv, OwnsGuard, Move, TypeOK, Guarded
<1>1. SUFFICES ASSUME NEW q \in Procs \ gone' PROVE OwnsGuard(q)'
  OBVIOUS
<1>2. q \in Procs \ gone
  BY DEF Next, Acquire, Release, vars, Begin, CheckGuard, CreateFile,
    CreateFails, WriteRecord, Observe, JudgeStale, JudgeLive, TakeGuard,
    GuardTaken, Recheck, Swap, Settle, Unguard, Retry, Timeout, ReleaseRead,
    ReleaseLost, ReleaseGuard, ReleaseSkipped, ReleaseRename, ReleaseUnlink,
    ReleaseRestore, ReleaseUnguard, Crash, GrowOld
<1>3. ASSUME NEW p \in Procs,
             \/ Begin(p) \/ CheckGuard(p) \/ CreateFile(p) \/ CreateFails(p)
             \/ WriteRecord(p) \/ Observe(p) \/ JudgeStale(p) \/ JudgeLive(p)
             \/ GuardTaken(p) \/ Retry(p) \/ Timeout(p) \/ ReleaseRead(p)
             \/ ReleaseLost(p) \/ ReleaseSkipped(p)
      PROVE  OwnsGuard(q)'
  BY <1>2, <1>3
  DEF Begin, CheckGuard, CreateFile, CreateFails, WriteRecord, Observe,
      JudgeStale, JudgeLive, GuardTaken, Retry, Timeout, ReleaseRead,
      ReleaseLost, ReleaseSkipped
<1>4. ASSUME NEW p \in Procs,
             \/ Recheck(p) \/ Swap(p) \/ ReleaseRename(p) \/ ReleaseUnlink(p)
             \/ ReleaseRestore(p)
      PROVE  OwnsGuard(q)'
  BY <1>2, <1>4
  DEF Recheck, Swap, ReleaseRename, ReleaseUnlink, ReleaseRestore
<1>5. ASSUME NEW p \in Procs, TakeGuard(p) \/ ReleaseGuard(p)
      PROVE  OwnsGuard(q)'
  BY <1>2, <1>5, ConstantsAssumption DEF TakeGuard, ReleaseGuard
<1>6. ASSUME NEW p \in Procs, Settle(p) \/ Unguard(p) \/ ReleaseUnguard(p)
      PROVE  OwnsGuard(q)'
  BY <1>2, <1>6 DEF Settle, Unguard, ReleaseUnguard
<1>7. CASE \/ \E p \in Procs : Crash(p)
           \/ \E t \in Reachable : GrowOld(t)
           \/ UNCHANGED vars
  BY <1>2, <1>7 DEF Crash, GrowOld, vars
<1> QED
  BY <1>3, <1>4, <1>5, <1>6, <1>7 DEF Next, Acquire, Release

\* Breaking a stale lock and releasing one exclude each other, whatever the
\* hosts, the ages and the crashes.
THEOREM GuardedAlone == Spec => []GuardExclusive
<1>1. Init => GuardInv
  BY DEF Init, GuardInv, TypeOK, TokenOrNil, Location, OwnsGuard, Guarded
<1>2. GuardInv /\ TypeOK' /\ [Next]_vars => GuardInv'
  BY GuardStep
<1>3. GuardInv => GuardExclusive
  BY DEF GuardInv, OwnsGuard, GuardExclusive
<1> QED BY <1>1, <1>2, <1>3, TypeCorrect, PTL DEF Spec

-----------------------------------------------------------------------------
(* Mutual exclusion of prompt users on one host *)

\* Under PromptOnOneHost only the record of a dead owner looks stale.
LEMMA StaleIsDead ==
  ASSUME PromptOnOneHost, TypeOK, aged = {}, NEW p \in Procs, LooksStale(p)
  PROVE  obs[p] \in Token /\ obs[p].own \in gone
BY DEF PromptOnOneHost, TypeOK, LooksStale, Token

\* An owner knows a token of its own.
LEMMA OwnerHasToken ==
  ASSUME LockInv, NEW p \in Procs \ gone, pc[p] \in Owning
  PROVE  tok[p] \in Token /\ tok[p].own = p /\ tok[p].seq = seq[p] /\ tok[p] # Nil
BY ConstantsAssumption DEF LockInv, TypeOK, OwnsItsFile, Token

\* The file at the lock path is the file of one live owner at most.
LEMMA OneOwner ==
  ASSUME LockInv, NEW p \in Procs \ gone, NEW q \in Procs \ gone,
         pc[p] \in Owning \ {"relVerify"}, pc[q] \in Owning \ {"relVerify"}
  PROVE  p = q /\ file # Nil
<1>1. file = tok[p] /\ file = tok[q]
  BY DEF LockInv, OwnsItsFile
<1>2. tok[p].own = p /\ tok[q].own = q /\ tok[p] # Nil
  <2>1. pc[p] \in Owning /\ pc[q] \in Owning
    OBVIOUS
  <2> QED BY <2>1, OwnerHasToken
<1> QED BY <1>1, <1>2

\* A process that is about to unlink or to release finds its own token, so
\* the two error paths of release are closed.
LEMMA NoReleaseError ==
  ASSUME LockInv, NEW p \in Procs
  PROVE  ~ReleaseLost(p) /\ ~ReleaseRestore(p)
<1> SUFFICES ASSUME p \notin gone, pc[p] \in {"held", "relVerify"}
             PROVE  ~ReleaseLost(p) /\ ~ReleaseRestore(p)
  BY DEF ReleaseLost, ReleaseRestore, Move
<1>1. tok[p] # Nil
  BY OwnerHasToken DEF Owning
<1> QED
  BY <1>1
  DEF LockInv, OwnsItsFile, ReleaseLost, ReleaseRestore, Move, ReadRecord, Owning

\* A swap puts the new token where the file of a dead owner was, so it takes
\* no live process's file away.
LEMMA SwapTakesNoFile ==
  ASSUME LockInv, NEW p \in Procs, Swap(p), NEW q \in Procs \ gone,
         pc[q] \in Owning \ {"relVerify"}
  PROVE  FALSE
<1>1. obs[p].own \in gone /\ file = obs[p]
  BY DEF LockInv, BreaksTheDead, Swap, Move
<1>2. file = tok[q] /\ tok[q].own = q
  BY OwnerHasToken DEF LockInv, OwnsItsFile
<1> QED BY <1>1, <1>2

\* Every step keeps the lock's invariant: nothing ages when locks are prompt on
\* one host, and each file belongs to whoever an action leaves it with.
LEMMA LockStep ==
  ASSUME PromptOnOneHost, LockInv, TypeOK', [Next]_vars
  PROVE  LockInv'
<1> DEFINE Goal == WrittenAreOld' /\ \A q \in Procs \ gone' :
                                       OwnsItsFile(q)' /\ BreaksTheDead(q)'
<1>1. aged' = {}
  BY DEF PromptOnOneHost, LockInv, Next, Acquire, Release, vars, Begin, CheckGuard,
    CreateFile, CreateFails, WriteRecord, Observe, JudgeStale, JudgeLive,
    TakeGuard, GuardTaken, Recheck, Swap, Settle, Unguard, Retry, Timeout,
    ReleaseRead, ReleaseLost, ReleaseGuard, ReleaseSkipped, ReleaseRename,
    ReleaseUnlink, ReleaseRestore, ReleaseUnguard, Crash, GrowOld
<1>2. \A q \in Procs \ gone' : OwnsGuard(q)'
  BY GuardStep DEF GuardInv, LockInv
<1> SUFFICES Goal
  BY <1>1, <1>2 DEF LockInv
<1>a. \A q \in Procs \ gone : pc[q] \in Owning =>
        tok[q] \in Token /\ tok[q].own = q /\ tok[q].seq = seq[q] /\ tok[q] # Nil
  BY OwnerHasToken
<1>b. \A q, r \in Procs \ gone :
        pc[q] \in Owning \ {"relVerify"} /\ pc[r] \in Owning \ {"relVerify"}
          => q = r /\ file # Nil
  BY OneOwner
<1>c. \A p \in Procs : Swap(p) =>
        \A q \in Procs \ gone : pc[q] \in Owning => pc[q] = "relVerify"
  BY SwapTakesNoFile
<1> USE DEF LockInv, Move, WrittenAreOld, OwnsItsFile, BreaksTheDead, Owning
<1>3. ASSUME NEW p \in Procs,
             \/ Begin(p) \/ CheckGuard(p) \/ CreateFails(p) \/ Observe(p)
             \/ JudgeLive(p) \/ GuardTaken(p) \/ Retry(p) \/ Timeout(p)
      PROVE  Goal
  BY <1>3 DEF TypeOK, Begin, CheckGuard, CreateFails, Observe, JudgeLive, GuardTaken,
    Retry, Timeout
<1>4. ASSUME NEW p \in Procs,
             \/ TakeGuard(p) \/ Settle(p) \/ Unguard(p) \/ ReleaseRead(p)
             \/ ReleaseGuard(p) \/ ReleaseSkipped(p) \/ ReleaseUnlink(p)
             \/ ReleaseUnguard(p)
      PROVE  Goal
  BY <1>4 DEF TypeOK, TakeGuard, Settle, Unguard, ReleaseRead, ReleaseGuard,
    ReleaseSkipped, ReleaseUnlink, ReleaseUnguard
<1>5. ASSUME NEW p \in Procs, JudgeStale(p)
      PROVE  Goal
  <2>1. obs[p] \in Token /\ obs[p].own \in gone
    BY <1>5, StaleIsDead DEF JudgeStale
  <2> QED BY <1>5, <2>1 DEF TypeOK, JudgeStale
<1>6. ASSUME NEW p \in Procs, Recheck(p)
      PROVE  Goal
  <2>1. ReadRecord(file) \in Token => file = ReadRecord(file)
    BY ConstantsAssumption DEF ReadRecord
  <2> QED BY <1>6, <2>1 DEF TypeOK, Recheck
<1>7. ASSUME NEW p \in Procs, CreateFile(p)
      PROVE  Goal
  <2>1. Fresh(p) \notin written /\ Fresh(p) # Nil
    <3>1. Fresh(p) \in Token /\ Fresh(p).own = p /\ Fresh(p).seq = seq[p] + 1
      BY FreshType
    <3>2. seq[p] \in Nat
      BY DEF TypeOK
    <3> QED BY <3>1, <3>2, ConstantsAssumption
  <2>2. ~\E q \in Procs \ gone : pc[q] \in Owning \ {"relVerify"}
    BY <1>7, <1>b DEF CreateFile
  <2>3. WrittenAreOld'
    BY <1>7 DEF TypeOK, CreateFile, Token
  <2>4. ASSUME NEW q \in Procs \ gone' PROVE OwnsItsFile(q)'
    BY <1>7, <2>1, <2>2 DEF TypeOK, CreateFile, Fresh
  <2>5. ASSUME NEW q \in Procs \ gone' PROVE BreaksTheDead(q)'
    BY <1>7, ConstantsAssumption DEF TypeOK, CreateFile
  <2> QED BY <2>3, <2>4, <2>5
<1>8. ASSUME NEW p \in Procs, WriteRecord(p)
      PROVE  Goal
  <2>1. tok[p] = [own |-> p, seq |-> seq[p]] /\ tok[p].own = p /\ tok[p].seq = seq[p]
    BY <1>8 DEF WriteRecord
  <2>2. \A q \in Procs \ gone : pc[q] \in Owning /\ q # p => tok[q] # tok[p]
    BY <2>1, <1>a
  <2> QED BY <1>8, <2>1, <2>2 DEF TypeOK, WriteRecord
<1>9. ASSUME NEW p \in Procs, Swap(p)
      PROVE  Goal
  <2>1. \A q \in Procs \ gone : pc[q] \in Owning => pc[q] = "relVerify"
    BY <1>9, <1>c
  <2>2. \A q \in Procs \ gone : pc[q] \in {"swap", "relVerify"} => q = p
    BY <1>9, ConstantsAssumption DEF Swap, OwnsGuard, Guarded
  <2>3. Fresh(p) \in Token /\ Fresh(p).own = p /\ Fresh(p).seq = seq[p] + 1
    BY FreshType
  <2>4. WrittenAreOld'
    BY <1>9, <2>3 DEF TypeOK, Swap, Token
  <2>5. ASSUME NEW q \in Procs \ gone' PROVE OwnsItsFile(q)'
    <3>1. CASE q = p
      BY <1>9, <2>3, <3>1 DEF TypeOK, Swap, Fresh
    <3>2. CASE q # p
      <4>1. pc'[q] \notin Owning
        BY <1>9, <2>1, <2>2, <3>2 DEF TypeOK, Swap
      <4> QED BY <4>1
    <3> QED BY <3>1, <3>2
  <2>6. ASSUME NEW q \in Procs \ gone' PROVE BreaksTheDead(q)'
    BY <1>9, <2>2, ConstantsAssumption DEF TypeOK, Swap
  <2> QED BY <2>4, <2>5, <2>6
<1>10. ASSUME NEW p \in Procs, ReleaseRename(p)
       PROVE  Goal
  <2>1. p \in Procs \ gone /\ file = tok[p] /\ file # Nil
    <3>1. p \in Procs \ gone /\ pc[p] = "relRename"
      BY <1>10 DEF ReleaseRename
    <3>2. file = tok[p] /\ tok[p] # Nil
      BY <3>1, <1>a
    <3> QED BY <3>1, <3>2
  <2>2. \A q \in Procs \ gone : pc[q] \in Owning \ {"relVerify"} => q = p
    BY <2>1, <1>10, <1>b DEF ReleaseRename
  <2>3. \A q \in Procs \ gone : pc[q] # "swap" \/ q = p
    BY <1>10, ConstantsAssumption DEF ReleaseRename, OwnsGuard, Guarded
  <2> QED BY <1>10, <2>1, <2>2, <2>3 DEF TypeOK, ReleaseRename
<1>11. ASSUME NEW p \in Procs, ReleaseLost(p) \/ ReleaseRestore(p)
       PROVE  Goal
  BY <1>11, NoReleaseError
<1>12. CASE \/ \E p \in Procs : Crash(p)
            \/ \E t \in Reachable : GrowOld(t)
            \/ UNCHANGED vars
  BY <1>12 DEF TypeOK, Crash, GrowOld, vars
<1> QED
  BY <1>3, <1>4, <1>5, <1>6, <1>7, <1>8, <1>9, <1>10, <1>11, <1>12
  DEF Next, Acquire, Release

\* The inductive invariant itself.
THEOREM LockInvariant == PromptOnOneHost => (Spec => []LockInv)
<1> SUFFICES ASSUME PromptOnOneHost PROVE Spec => []LockInv
  OBVIOUS
<1>1. Init => LockInv
  BY DEF Init, LockInv, TypeOK, TokenOrNil, Location, WrittenAreOld, OwnsItsFile,
    OwnsGuard, BreaksTheDead, Guarded, Owning
<1>2. LockInv /\ TypeOK' /\ [Next]_vars => LockInv'
  BY LockStep
<1> QED BY <1>1, <1>2, TypeCorrect, PTL DEF Spec

\* No two live processes are ever inside a critical section of the same lock:
\* the read-modify-write boundary every runtime writer relies on.
THEOREM Exclusion == PromptOnOneHost => (Spec => []MutualExclusion)
<1> SUFFICES ASSUME PromptOnOneHost PROVE Spec => []MutualExclusion
  OBVIOUS
<1>1. LockInv => MutualExclusion
  BY OneOwner DEF MutualExclusion, Holders, Owning
<1> QED BY <1>1, LockInvariant, PTL

\* A release never ends with RuntimeLockReleaseError after committed work.
THEOREM NoErrorAfterCommit == PromptOnOneHost => (Spec => []ReleaseSucceeds)
<1> SUFFICES ASSUME PromptOnOneHost PROVE Spec => []ReleaseSucceeds
  OBVIOUS
<1>1. Init => ReleaseSucceeds
  BY DEF Init, ReleaseSucceeds
<1>2. LockInv /\ ReleaseSucceeds /\ [Next]_vars => ReleaseSucceeds'
  <2> SUFFICES ASSUME LockInv, ReleaseSucceeds, [Next]_vars
               PROVE  ReleaseSucceeds'
    OBVIOUS
  <2> USE DEF ReleaseSucceeds, LockInv, TypeOK
  <2>1. ASSUME NEW p \in Procs, Acquire(p)
        PROVE  ReleaseSucceeds'
    BY <2>1 DEF Acquire, CheckGuard, CreateFile, CreateFails, WriteRecord, Observe,
      JudgeStale, JudgeLive, TakeGuard, GuardTaken, Recheck, Swap, Settle,
      Unguard, Retry
  <2>2. ASSUME NEW p \in Procs, Begin(p) \/ Timeout(p) \/ Crash(p)
        PROVE  ReleaseSucceeds'
    BY <2>2 DEF Begin, Timeout, Crash
  <2>3. ASSUME NEW p \in Procs, Release(p)
        PROVE  ReleaseSucceeds'
    <3>1. ~ReleaseLost(p) /\ ~ReleaseRestore(p)
      BY NoReleaseError
    <3> QED
      BY <2>3, <3>1 DEF Release, ReleaseRead, ReleaseGuard, ReleaseSkipped,
        ReleaseRename, ReleaseUnlink, ReleaseUnguard
  <2>4. CASE UNCHANGED vars \/ \E t \in Reachable : GrowOld(t)
    BY <2>4 DEF vars, GrowOld
  <2> QED BY <2>1, <2>2, <2>3, <2>4 DEF Next
<1> QED BY <1>1, <1>2, LockInvariant, PTL DEF Spec

--------------------------------------------------------------------------------
(* External actions                                                         *)

ActionReceipt == [status : Actions!Statuses, issued : Actions!Times, expires : Actions!Times,
                  dispatched : Actions!Times \cup {Nil}, terminal : Actions!Times \cup {Nil}]
ActionJob == [action : ActionIds \cup {Nil}, for : ActionIds \cup {Nil}, issued : Actions!Times,
              expires : Actions!Times, at : Actions!Times,
              status : Actions!Requested \cup {"none"}, known : BOOLEAN]
Doings == {"idle", "authorize", "record", "perform"}

\* What has been authorized has been approved by now, and who asks for it asked before now.
StampedByNow ==
  /\ \A a \in Actions!Recorded : ledger[a].issued <= now
  /\ \A p \in Callers : doing[p] = "authorize" => job[p].at <= now

\* Who records truthfully on an action that it has seen in the ledger names a time after its
\* approval.
Informed ==
  \A p \in Callers :
    honest /\ doing[p] = "record" /\ job[p].known =>
      job[p].action \in Actions!Recorded /\ ledger[job[p].action].issued <= job[p].at

\* An end comes with its time, after the dispatch; a cancellation of a truthful caller comes
\* after the approval, unless it was asked for before it.
EndsInOrder ==
  \A a \in Actions!Recorded :
    LET r == ledger[a] IN
    /\ r.status \in {"authorized", "dispatched"} => r.terminal = Nil
    /\ r.status \in {"completed", "failed"} => r.terminal # Nil /\ r.terminal >= r.dispatched
    /\ r.status = "cancelled" =>
         r.terminal # Nil /\ (honest /\ a \notin premature => r.terminal >= r.issued)

\* A receipt that has no dispatch is authorized or cancelled, and one that has it has it
\* inside the approval; a key has one receipt.
Approved ==
  /\ \A a \in Actions!Recorded :
       /\ ledger[a].expires > ledger[a].issued
       /\ ledger[a].expires - ledger[a].issued <= Window
       /\ IF ledger[a].status \in {"authorized", "cancelled"}
          THEN ledger[a].dispatched = Nil
          ELSE ledger[a].dispatched \in ledger[a].issued..ledger[a].expires
  /\ \A a, b \in Actions!Recorded : KeyOf[a] = KeyOf[b] => a = b

\* Who performs an action has recorded its dispatch, alone, and it has not been performed.
Performing(p, a) == doing[p] = "perform" /\ job[p].action = a
Dispatched(a) == a \in Actions!Recorded /\ ledger[a].dispatched # Nil

OnePerformer ==
  /\ \A p \in Callers, a \in ActionIds :
       Performing(p, a) => Dispatched(a) /\ performed[KeyOf[a]] = 0
  /\ \A p \in Callers : doing[p] # "idle" => job[p].action \in ActionIds
  /\ \A p, q \in Callers, a \in ActionIds : Performing(p, a) /\ Performing(q, a) => p = q
  /\ \A k \in Actions!Keys :
       /\ performed[k] <= 1
       /\ performed[k] = 1 => \E a \in ActionIds : KeyOf[a] = k /\ Dispatched(a)

ActionsInv == Actions!TypeOK /\ StampedByNow /\ Informed /\ EndsInOrder /\ Approved /\ OnePerformer

--------------------------------------------------------------------------------
\* A request that passes is recorded under an id and a key nothing else has.
LEMMA Authorizing ==
  ASSUME Actions!ClockCounts, ActionsInv, NEW p \in Callers, Actions!Authorize(p)
  PROVE  LET a == job[p].action IN
         /\ a \in ActionIds /\ a \notin Actions!Recorded
         /\ \A b \in Actions!Recorded : KeyOf[b] # KeyOf[a]
         /\ ledger' = [ledger EXCEPT ![a] = ledger'[a]]
         /\ ledger'[a] \in ActionReceipt
         /\ ledger'[a].status = "authorized" /\ ledger'[a].dispatched = Nil
            /\ ledger'[a].terminal = Nil
         /\ ledger'[a].issued <= now
         /\ ledger'[a].expires > ledger'[a].issued
         /\ ledger'[a].expires - ledger'[a].issued <= Window
         /\ Actions!Recorded' = Actions!Recorded \cup {a}
         /\ doing' = [doing EXCEPT ![p] = "idle"] /\ job' = [job EXCEPT ![p] = Actions!NoJob]
         /\ UNCHANGED <<honest, now, performed, premature>>
<1> DEFINE a == job[p].action
           new == [Actions!NoReceipt EXCEPT !.status = "authorized", !.issued = job[p].issued,
                                            !.expires = job[p].expires]
<1>1. a \in ActionIds /\ job[p] \in ActionJob /\ ledger \in [ActionIds -> ActionReceipt]
/\ job[p].at <= now /\ now \in Nat
  BY DEF ActionsInv, Actions!TypeOK, OnePerformer, StampedByNow, Actions!Authorize, ActionJob,
         ActionReceipt, Actions!Times, Actions!ClockCounts
<1>2. /\ a \notin Actions!Recorded /\ \A b \in Actions!Recorded : KeyOf[b] # KeyOf[a]
      /\ ledger' = [ledger EXCEPT ![a] = new]
      /\ Actions!RequestValid(job[p])
      /\ doing' = [doing EXCEPT ![p] = "idle"] /\ job' = [job EXCEPT ![p] = Actions!NoJob]
      /\ UNCHANGED <<honest, now, performed, premature>>
  BY DEF Actions!Authorize, Actions!Unused, Actions!Idle
<1>0. /\ Actions!NoReceipt \in ActionReceipt
      /\ Actions!NoReceipt.status = "none" /\ Actions!NoReceipt.dispatched = Nil
         /\ Actions!NoReceipt.terminal = Nil
  BY DEF Actions!NoReceipt, ActionReceipt, Actions!Statuses, Actions!Times,
         Actions!ClockCounts
<1>3. /\ new \in ActionReceipt /\ new.status = "authorized" /\ new.issued = job[p].issued
      /\ new.expires = job[p].expires /\ new.dispatched = Nil /\ new.terminal = Nil
  BY <1>0, <1>1 DEF ActionReceipt, ActionJob, Actions!Statuses
<1>4. ledger'[a] = new
  BY <1>1, <1>2
<1>6. /\ job[p].issued <= now /\ job[p].expires > job[p].issued
      /\ job[p].expires - job[p].issued <= Window
  BY <1>1, <1>2 DEF Actions!RequestValid, ActionJob, Actions!Times, Actions!ClockCounts
<1>7. Actions!Recorded' = Actions!Recorded \cup {a}
  BY <1>1, <1>2, <1>3, <1>4 DEF Actions!Recorded
<1> HIDE DEF new
<1> QED BY <1>1, <1>2, <1>3, <1>4, <1>6, <1>7

\* A record moves one receipt on, to the status and the time its caller asked for before it
\* had the lock; it keeps the approval.
LEMMA Recording ==
  ASSUME Actions!ClockCounts, ActionsInv, NEW p \in Callers, Actions!Record(p)
  PROVE  \E a \in ActionIds, status \in Actions!Requested, at \in Actions!Times :
           LET r == ledger[a]  s == ledger'[a] IN
           /\ a = job[p].action /\ at = job[p].at /\ doing[p] = "record"
           /\ r \in ActionReceipt /\ s \in ActionReceipt
           /\ ledger' = [ledger EXCEPT ![a] = s]
           /\ a \in Actions!Recorded
           /\ s.issued = r.issued /\ s.expires = r.expires /\ s.status = status
           /\ Actions!Allowed(r, status, at)
           /\ status = "dispatched" => /\ s.dispatched = at /\ s.terminal = r.terminal
                                       /\ doing' = [doing EXCEPT ![p] = "perform"] /\ job' = job
           /\ status # "dispatched" => /\ s.dispatched = r.dispatched /\ s.terminal = at
                                       /\ doing' = [doing EXCEPT ![p] = "idle"]
                                       /\ job' = [job EXCEPT ![p] = Actions!NoJob]
           /\ Actions!Recorded' = Actions!Recorded
           /\ premature' = IF status = "cancelled" /\ ~job[p].known THEN premature \cup {a} ELSE premature
           /\ UNCHANGED <<honest, now, performed>>
<1> DEFINE a == job[p].action
           status == job[p].status
           at == job[p].at
           s == Actions!Stamped(ledger[a], status, at)
<1>1. ledger \in [ActionIds -> ActionReceipt] /\ job[p] \in ActionJob
  BY DEF ActionsInv, Actions!TypeOK, ActionReceipt, ActionJob
<1>2. /\ doing[p] = "record" /\ a \in Actions!Recorded /\ Actions!Allowed(ledger[a], status, at)
      /\ ledger' = [ledger EXCEPT ![a] = s]
      /\ premature' = IF status = "cancelled" /\ ~job[p].known THEN premature \cup {a} ELSE premature
      /\ IF status = "dispatched" THEN doing' = [doing EXCEPT ![p] = "perform"] /\ UNCHANGED job
         ELSE doing' = [doing EXCEPT ![p] = "idle"] /\ job' = [job EXCEPT ![p] = Actions!NoJob]
      /\ UNCHANGED <<honest, now, performed>>
  BY DEF Actions!Record, Actions!Accepted, Actions!Idle
<1>3. status # "none" /\ a \in ActionIds
  BY <1>2 DEF Actions!Allowed, Actions!Recorded
<1>4. status \in Actions!Requested /\ at \in Actions!Times
  BY <1>1, <1>3 DEF ActionJob
<1>5. /\ s \in ActionReceipt
      /\ s.issued = ledger[a].issued /\ s.expires = ledger[a].expires /\ s.status = status
      /\ status = "dispatched" => s.dispatched = at /\ s.terminal = ledger[a].terminal
      /\ status # "dispatched" => s.dispatched = ledger[a].dispatched /\ s.terminal = at
  <2> HIDE DEF a, status, at
  <2> QED BY <1>1, <1>3, <1>4 DEF Actions!Stamped, ActionReceipt, Actions!Requested, Actions!Terminal, Actions!Statuses
<1>6. ledger'[a] = s
  BY <1>1, <1>2, <1>3
<1> HIDE DEF s, status, at, a
<1>7. Actions!Recorded' = Actions!Recorded
  BY <1>1, <1>2, <1>3, <1>5, <1>6 DEF Actions!Recorded
<1>8. a = job[p].action /\ at = job[p].at
  BY DEF a, at
<1> QED BY <1>1, <1>2, <1>3, <1>4, <1>5, <1>6, <1>7, <1>8

--------------------------------------------------------------------------------
\* The clock, the requests and the receipts keep their types.
LEMMA ActionsTypeStep ==
  ASSUME Actions!ClockCounts, ActionsInv, [Actions!Next]_acted
  PROVE  Actions!TypeOK'
<1>0. /\ honest \in BOOLEAN /\ now \in Actions!Times /\ ledger \in [ActionIds -> ActionReceipt]
      /\ doing \in [Callers -> Doings] /\ job \in [Callers -> ActionJob]
      /\ performed \in [Actions!Keys -> Nat] /\ premature \in SUBSET ActionIds
  BY DEF ActionsInv, Actions!TypeOK, ActionReceipt, ActionJob, Doings
<1>a. Actions!NoJob \in ActionJob
  BY DEF Actions!NoJob, ActionJob, Actions!Times, Actions!ClockCounts
<1> SUFFICES /\ honest' \in BOOLEAN /\ now' \in Actions!Times
             /\ ledger' \in [ActionIds -> ActionReceipt]
             /\ doing' \in [Callers -> Doings] /\ job' \in [Callers -> ActionJob]
             /\ performed' \in [Actions!Keys -> Nat] /\ premature' \in SUBSET ActionIds
  BY DEF Actions!TypeOK, ActionReceipt, ActionJob, Doings
<1> USE DEF Doings
<1>1. CASE Actions!Tick
  BY <1>0, <1>1 DEF Actions!Tick, Actions!Times, Actions!ClockCounts
<1>2. ASSUME NEW p \in Callers, NEW a \in ActionIds, NEW b \in ActionIds,
             NEW issued \in Actions!Times,
             NEW expires \in Actions!Times \ {0}, Actions!Prepare(p, a, b, issued, expires)
      PROVE  job' \in [Callers -> ActionJob] /\ doing' \in [Callers -> Doings]
             /\ UNCHANGED <<honest, now, ledger, performed, premature>>
  BY <1>0, <1>a, <1>2 DEF Actions!Prepare, ActionJob
<1>3. ASSUME NEW p \in Callers, NEW a \in ActionIds, NEW status \in Actions!Requested,
             NEW at \in Actions!Times, Actions!PrepareRecord(p, a, status, at)
      PROVE  job' \in [Callers -> ActionJob] /\ doing' \in [Callers -> Doings]
             /\ UNCHANGED <<honest, now, ledger, performed, premature>>
  <2>1. (a \in Actions!Recorded) \in BOOLEAN
    OBVIOUS
  <2> DEFINE j == [Actions!NoJob EXCEPT !.action = a, !.status = status, !.at = at,
                                        !.known = a \in Actions!Recorded]
  <2>2. j \in ActionJob
    BY <1>a, <2>1 DEF ActionJob
  <2>3. job' = [job EXCEPT ![p] = j] /\ doing' = [doing EXCEPT ![p] = "record"]
        /\ UNCHANGED <<honest, now, ledger, performed, premature>>
    BY <1>3 DEF Actions!PrepareRecord
  <2> HIDE DEF j
  <2> QED BY <1>0, <2>2, <2>3
<1>4. ASSUME NEW p \in Callers, Actions!Authorize(p)
      PROVE  ledger' \in [ActionIds -> ActionReceipt] /\ job' \in [Callers -> ActionJob]
             /\ doing' \in [Callers -> Doings] /\ UNCHANGED <<honest, now, performed, premature>>
  <2> HIDE DEF Actions!Authorize
  <2> QED BY <1>0, <1>a, <1>4, Authorizing
<1>5. ASSUME NEW p \in Callers, Actions!AuthorizeRefused(p) \/ Actions!RecordRefused(p) \/ Actions!Die(p)
      PROVE  job' \in [Callers -> ActionJob] /\ doing' \in [Callers -> Doings]
             /\ UNCHANGED <<honest, now, ledger, performed, premature>>
  BY <1>0, <1>a, <1>5 DEF Actions!AuthorizeRefused, Actions!RecordRefused, Actions!Die, Actions!Idle
<1>6. ASSUME NEW p \in Callers, Actions!Perform(p)
      PROVE  job' \in [Callers -> ActionJob] /\ doing' \in [Callers -> Doings]
             /\ performed' \in [Actions!Keys -> Nat] /\ UNCHANGED <<honest, now, ledger, premature>>
  <2> DEFINE k == KeyOf[job[p].action]
  <2>0. performed' = [performed EXCEPT ![k] = performed[k] + 1]
    BY <1>6 DEF Actions!Perform
  <2>a. k \in Actions!Keys
    BY <1>6 DEF Actions!Perform, ActionsInv, OnePerformer, Actions!Keys
  <2>b. performed[k] + 1 \in Nat
    BY <1>0, <2>a
  <2> HIDE DEF k
  <2>1. performed' \in [Actions!Keys -> Nat]
    BY <1>0, <2>0, <2>b
  <2> QED BY <1>0, <1>a, <1>6, <2>1 DEF Actions!Perform, Actions!Idle
<1>7. ASSUME NEW p \in Callers, Actions!Record(p)
      PROVE  ledger' \in [ActionIds -> ActionReceipt] /\ job' \in [Callers -> ActionJob]
             /\ doing' \in [Callers -> Doings] /\ premature' \in SUBSET ActionIds
             /\ UNCHANGED <<honest, now, performed>>
  <2> HIDE DEF Actions!Record
  <2> QED BY <1>0, <1>a, <1>7, Recording
<1>8. CASE UNCHANGED acted
  BY <1>0, <1>8 DEF acted
<1> QED BY <1>0, <1>1, <1>2, <1>3, <1>4, <1>5, <1>6, <1>7, <1>8 DEF Actions!Next

\* Approvals never run ahead of the clock.
LEMMA StampStep ==
  ASSUME Actions!ClockCounts, ActionsInv, [Actions!Next]_acted
  PROVE  StampedByNow'
<1>0. /\ now \in Nat /\ ledger \in [ActionIds -> ActionReceipt]
      /\ job \in [Callers -> ActionJob] /\ doing \in [Callers -> Doings] /\ StampedByNow
      /\ \A a \in Actions!Recorded : ledger[a].issued \in Nat
  BY DEF ActionsInv, Actions!TypeOK, ActionReceipt, ActionJob, Actions!Times, Actions!ClockCounts,
         Actions!Recorded, Doings
<1>1. CASE Actions!Tick
  <2>1. now' = now + 1 /\ ledger' = ledger /\ job' = job /\ doing' = doing
    BY <1>1 DEF Actions!Tick
  <2>2. \A p \in Callers : job[p].at \in Nat
    BY <1>0 DEF ActionJob, Actions!Times, Actions!ClockCounts
  <2> QED BY <1>0, <2>1, <2>2 DEF StampedByNow, Actions!Recorded
<1>2. ASSUME NEW p \in Callers, NEW a \in ActionIds, NEW b \in ActionIds,
             NEW issued \in Actions!Times,
             NEW expires \in Actions!Times \ {0}, Actions!Prepare(p, a, b, issued, expires)
      PROVE  StampedByNow'
  <2>1. /\ job' = [job EXCEPT ![p] = job'[p]] /\ job'[p].at = now /\ doing' = [doing EXCEPT ![p] = "authorize"]
        /\ UNCHANGED <<now, ledger>>
    BY <1>0, <1>2 DEF Actions!Prepare, Actions!NoJob
  <2> QED BY <1>0, <2>1 DEF StampedByNow, Actions!Recorded
<1>3. ASSUME NEW p \in Callers, NEW a \in ActionIds, NEW status \in Actions!Requested,
             NEW at \in Actions!Times, Actions!PrepareRecord(p, a, status, at)
      PROVE  StampedByNow'
  <2>1. /\ job' = [job EXCEPT ![p] = job'[p]] /\ doing' = [doing EXCEPT ![p] = "record"]
        /\ UNCHANGED <<now, ledger>>
    BY <1>0, <1>3 DEF Actions!PrepareRecord
  <2> QED BY <1>0, <2>1 DEF StampedByNow, Actions!Recorded
<1>4. ASSUME NEW p \in Callers, Actions!Authorize(p) PROVE StampedByNow'
  <2>1. /\ now' = now /\ job' = [job EXCEPT ![p] = Actions!NoJob] /\ doing' = [doing EXCEPT ![p] = "idle"]
        /\ Actions!Recorded' = Actions!Recorded \cup {job[p].action}
        /\ job[p].action \in ActionIds
        /\ ledger' = [ledger EXCEPT ![job[p].action] = ledger'[job[p].action]]
        /\ ledger'[job[p].action].issued <= now
    BY <1>4, Authorizing
  <2>2. \A a \in Actions!Recorded' : ledger'[a].issued <= now
    BY <1>0, <2>1 DEF StampedByNow, Actions!Recorded
  <2> QED BY <1>0, <2>1, <2>2 DEF StampedByNow
<1>5. ASSUME NEW p \in Callers,
             \/ Actions!AuthorizeRefused(p) \/ Actions!RecordRefused(p) \/ Actions!Die(p) \/ Actions!Perform(p)
      PROVE  StampedByNow'
  BY <1>0, <1>5 DEF Actions!AuthorizeRefused, Actions!RecordRefused, Actions!Die, Actions!Perform,
                    Actions!Idle, StampedByNow, Actions!Recorded
<1>6. ASSUME NEW p \in Callers, Actions!Record(p) PROVE StampedByNow'
  <2>1. PICK a \in ActionIds :
          /\ now' = now /\ Actions!Recorded' = Actions!Recorded /\ a \in Actions!Recorded
          /\ ledger' = [ledger EXCEPT ![a] = ledger'[a]] /\ ledger'[a].issued = ledger[a].issued
          /\ \/ doing' = [doing EXCEPT ![p] = "perform"] /\ job' = job
             \/ doing' = [doing EXCEPT ![p] = "idle"] /\ job' = [job EXCEPT ![p] = Actions!NoJob]
    BY <1>6, Recording
  <2>2. \A b \in Actions!Recorded' : ledger'[b].issued <= now
    BY <1>0, <2>1 DEF StampedByNow, Actions!Recorded
  <2>3. \A q \in Callers : doing'[q] = "authorize" => doing[q] = "authorize" /\ job'[q] = job[q]
    BY <1>0, <2>1
  <2> QED BY <1>0, <2>1, <2>2, <2>3 DEF StampedByNow
<1>7. CASE UNCHANGED acted
  BY <1>0, <1>7 DEF acted, StampedByNow, Actions!Recorded
<1> QED BY <1>1, <1>2, <1>3, <1>4, <1>5, <1>6, <1>7 DEF Actions!Next

\* Who waits for the lock has its time already: nothing that overtakes it changes the approval
\* it has seen.
LEMMA InformedStep ==
  ASSUME Actions!ClockCounts, ActionsInv, [Actions!Next]_acted
  PROVE  Informed'
<1>0. /\ ledger \in [ActionIds -> ActionReceipt] /\ job \in [Callers -> ActionJob]
      /\ doing \in [Callers -> Doings] /\ Informed /\ StampedByNow
  BY DEF ActionsInv, Actions!TypeOK, ActionReceipt, ActionJob, Doings
<1>1. ASSUME NEW p \in Callers, NEW a \in ActionIds, NEW b \in ActionIds,
             NEW issued \in Actions!Times,
             NEW expires \in Actions!Times \ {0}, Actions!Prepare(p, a, b, issued, expires)
      PROVE  Informed'
  <2>1. /\ job' = [job EXCEPT ![p] = job'[p]] /\ doing' = [doing EXCEPT ![p] = "authorize"]
        /\ UNCHANGED <<honest, ledger>>
    BY <1>0, <1>1 DEF Actions!Prepare
  <2> QED BY <1>0, <2>1 DEF Informed, Actions!Recorded
<1>2. ASSUME NEW p \in Callers, NEW a \in ActionIds, NEW status \in Actions!Requested,
             NEW at \in Actions!Times, Actions!PrepareRecord(p, a, status, at)
      PROVE  Informed'
  <2>1. /\ job' = [job EXCEPT ![p] = job'[p]] /\ job'[p].action = a /\ job'[p].at = at
        /\ job'[p].known = (a \in Actions!Recorded)
        /\ doing' = [doing EXCEPT ![p] = "record"] /\ UNCHANGED <<honest, ledger>>
        /\ honest => at = now
    BY <1>0, <1>2 DEF Actions!PrepareRecord, Actions!NoJob
  <2>2. Actions!Recorded' = Actions!Recorded
    BY <2>1 DEF Actions!Recorded
  <2>3. a \in Actions!Recorded /\ honest => ledger[a].issued <= at
    BY <1>0, <2>1 DEF StampedByNow
  <2> QED BY <1>0, <2>1, <2>2, <2>3 DEF Informed
<1>3. ASSUME NEW p \in Callers, Actions!Authorize(p) PROVE Informed'
  <2> DEFINE a == job[p].action
  <2>1. /\ a \in ActionIds /\ a \notin Actions!Recorded
        /\ ledger' = [ledger EXCEPT ![a] = ledger'[a]]
        /\ Actions!Recorded' = Actions!Recorded \cup {a}
        /\ doing' = [doing EXCEPT ![p] = "idle"] /\ job' = [job EXCEPT ![p] = Actions!NoJob]
        /\ honest' = honest
    BY <1>3, Authorizing
  <2> HIDE DEF a
  <2>2. \A b \in Actions!Recorded : ledger'[b] = ledger[b]
    BY <1>0, <2>1 DEF Actions!Recorded
  <2> QED BY <1>0, <2>1, <2>2 DEF Informed
<1>4. ASSUME NEW p \in Callers,
             \/ Actions!AuthorizeRefused(p) \/ Actions!RecordRefused(p) \/ Actions!Die(p) \/ Actions!Perform(p)
      PROVE  Informed'
  <2>1. /\ doing' = [doing EXCEPT ![p] = "idle"] /\ job' = [job EXCEPT ![p] = Actions!NoJob]
        /\ UNCHANGED <<honest, ledger>>
    BY <1>4 DEF Actions!AuthorizeRefused, Actions!RecordRefused, Actions!Die, Actions!Perform, Actions!Idle
  <2> QED BY <1>0, <2>1 DEF Informed, Actions!Recorded
<1>5. ASSUME NEW p \in Callers, Actions!Record(p) PROVE Informed'
  <2>1. PICK a \in ActionIds :
          /\ honest' = honest /\ Actions!Recorded' = Actions!Recorded
          /\ ledger' = [ledger EXCEPT ![a] = ledger'[a]] /\ ledger'[a].issued = ledger[a].issued
          /\ \/ doing' = [doing EXCEPT ![p] = "perform"] /\ job' = job
             \/ doing' = [doing EXCEPT ![p] = "idle"] /\ job' = [job EXCEPT ![p] = Actions!NoJob]
    BY <1>5, Recording
  <2>2. \A b \in Actions!Recorded : ledger'[b].issued = ledger[b].issued
    BY <1>0, <2>1 DEF Actions!Recorded
  <2>3. \A q \in Callers : doing'[q] = "record" => doing[q] = "record" /\ job'[q] = job[q]
    BY <1>0, <2>1
  <2> QED BY <1>0, <2>1, <2>2, <2>3 DEF Informed
<1>6. CASE UNCHANGED <<honest, ledger, doing, job>>
  BY <1>0, <1>6 DEF Informed, Actions!Recorded
<1> QED BY <1>1, <1>2, <1>3, <1>4, <1>5, <1>6 DEF Actions!Next, Actions!Tick, acted

\* Ends stay in order.
LEMMA EndsStep ==
  ASSUME Actions!ClockCounts, ActionsInv, [Actions!Next]_acted
  PROVE  EndsInOrder'
<1>0. /\ ledger \in [ActionIds -> ActionReceipt] /\ job \in [Callers -> ActionJob]
      /\ EndsInOrder /\ Informed /\ Nil \notin Actions!Times
      /\ \A t \in Actions!Times : t \in Nat
  BY DEF ActionsInv, Actions!TypeOK, ActionReceipt, ActionJob, Actions!Times, Actions!ClockCounts
<1>1. ASSUME NEW p \in Callers, Actions!Authorize(p) PROVE EndsInOrder'
  <2> DEFINE a == job[p].action
  <2>1. /\ a \in ActionIds /\ a \notin Actions!Recorded
        /\ ledger' = [ledger EXCEPT ![a] = ledger'[a]]
        /\ ledger'[a].status = "authorized" /\ ledger'[a].terminal = Nil
        /\ Actions!Recorded' = Actions!Recorded \cup {a}
        /\ UNCHANGED <<honest, premature>>
    BY <1>1, Authorizing
  <2> HIDE DEF a
  <2>2. \A b \in Actions!Recorded : b # a /\ ledger'[b] = ledger[b]
    BY <1>0, <2>1 DEF Actions!Recorded
  <2> QED BY <1>0, <2>1, <2>2 DEF EndsInOrder
<1>2. ASSUME NEW p \in Callers, Actions!Record(p) PROVE EndsInOrder'
  <2>1. PICK a \in ActionIds, status \in Actions!Requested, at \in Actions!Times :
          /\ a = job[p].action /\ at = job[p].at /\ doing[p] = "record"
          /\ ledger[a] \in ActionReceipt
          /\ ledger' = [ledger EXCEPT ![a] = ledger'[a]]
          /\ a \in Actions!Recorded
          /\ ledger'[a].issued = ledger[a].issued /\ ledger'[a].status = status
          /\ Actions!Allowed(ledger[a], status, at)
          /\ status = "dispatched" => ledger'[a].terminal = ledger[a].terminal
          /\ status # "dispatched" => ledger'[a].dispatched = ledger[a].dispatched /\ ledger'[a].terminal = at
          /\ Actions!Recorded' = Actions!Recorded
          /\ premature' = IF status = "cancelled" /\ ~job[p].known THEN premature \cup {a} ELSE premature
          /\ honest' = honest
    BY <1>2, Recording
  <2>2. \A b \in Actions!Recorded : b # a => ledger'[b] = ledger[b]
    BY <1>0, <2>1 DEF Actions!Recorded
  <2>3. job[p].known \in BOOLEAN
    BY <1>0 DEF ActionJob
  <2>4. honest /\ job[p].known => ledger[a].issued <= at
    BY <1>0, <2>1 DEF Informed
  <2> DEFINE r == ledger[a]
             s == ledger'[a]
  <2>5. /\ s.status \in {"authorized", "dispatched"} => s.terminal = Nil
        /\ s.status \in {"completed", "failed"} => s.terminal # Nil /\ s.terminal >= s.dispatched
        /\ s.status = "cancelled" =>
             s.terminal # Nil /\ (honest /\ a \notin premature' => s.terminal >= s.issued)
    <3>1. r.status \in {"authorized", "dispatched"} => r.terminal = Nil
      BY <1>0, <2>1 DEF EndsInOrder
    <3>2. at # Nil /\ at \in Nat /\ r.issued \in Nat
      BY <1>0, <2>1 DEF ActionReceipt
    <3> HIDE DEF r, s
    <3>3. CASE status = "dispatched"
      BY <2>1, <3>1, <3>2, <3>3 DEF Actions!Allowed, r, s
    <3>4. CASE status = "cancelled"
      <4>1. honest /\ a \notin premature' => job[p].known
        BY <2>1, <2>3, <3>4
      <4> QED BY <2>1, <2>4, <3>2, <3>4, <4>1 DEF r, s
    <3>5. CASE status \in {"completed", "failed"}
      BY <2>1, <3>2, <3>5 DEF Actions!Allowed, r, s
    <3> QED BY <3>3, <3>4, <3>5 DEF Actions!Requested, Actions!Terminal
  <2>6. \A b \in Actions!Recorded : b \notin premature' => b \notin premature
    BY <2>1
  <2> HIDE DEF r, s
  <2> QED BY <1>0, <2>1, <2>2, <2>5, <2>6 DEF EndsInOrder, s
<1>3. CASE UNCHANGED <<honest, ledger, premature>>
  BY <1>0, <1>3 DEF EndsInOrder, Actions!Recorded
<1> QED BY <1>1, <1>2, <1>3 DEF Actions!Next, Actions!Tick, Actions!Prepare, Actions!PrepareRecord,
              Actions!AuthorizeRefused, Actions!RecordRefused, Actions!Perform, Actions!Die, acted

\* The receipts stay approved, each under its own key.
LEMMA ApprovedStep ==
  ASSUME Actions!ClockCounts, ActionsInv, [Actions!Next]_acted
  PROVE  Approved'
<1>0. ledger \in [ActionIds -> ActionReceipt] /\ Approved
  BY DEF ActionsInv, Actions!TypeOK, ActionReceipt
<1>1. ASSUME NEW p \in Callers, Actions!Authorize(p) PROVE Approved'
  <2> DEFINE a == job[p].action
  <2>1. /\ a \in ActionIds /\ a \notin Actions!Recorded
        /\ \A b \in Actions!Recorded : KeyOf[b] # KeyOf[a]
        /\ ledger' = [ledger EXCEPT ![a] = ledger'[a]]
        /\ ledger'[a].status = "authorized" /\ ledger'[a].dispatched = Nil
        /\ ledger'[a].expires > ledger'[a].issued
        /\ ledger'[a].expires - ledger'[a].issued <= Window
        /\ Actions!Recorded' = Actions!Recorded \cup {a}
    BY <1>1, Authorizing
  <2>2. \A b \in Actions!Recorded : b \in ActionIds /\ b # a /\ ledger'[b] = ledger[b]
    BY <1>0, <2>1 DEF Actions!Recorded
  <2> HIDE DEF a
  <2> QED BY <1>0, <2>1, <2>2 DEF Approved
<1>2. ASSUME NEW p \in Callers, Actions!Record(p) PROVE Approved'
  <2>1. PICK a \in ActionIds, status \in Actions!Requested, at \in Actions!Times :
          LET r == ledger[a]  s == ledger'[a] IN
          /\ ledger' = [ledger EXCEPT ![a] = s]
          /\ a \in Actions!Recorded
          /\ s.issued = r.issued /\ s.expires = r.expires /\ s.status = status
          /\ Actions!Allowed(r, status, at)
          /\ status = "dispatched" => s.dispatched = at
          /\ status # "dispatched" => s.dispatched = r.dispatched
          /\ Actions!Recorded' = Actions!Recorded
    BY <1>2, Recording
  <2> DEFINE r == ledger[a]
             s == ledger'[a]
  <2>2. \A b \in Actions!Recorded : b # a => ledger'[b] = ledger[b]
    BY <1>0, <2>1 DEF Actions!Recorded
  <2>3. IF status \in {"authorized", "cancelled"} THEN s.dispatched = Nil
        ELSE s.dispatched \in s.issued..s.expires
    <3> HIDE DEF r, s
    <3>1. IF r.status \in {"authorized", "cancelled"} THEN r.dispatched = Nil
          ELSE r.dispatched \in r.issued..r.expires
      BY <1>0, <2>1 DEF Approved, r
    <3> QED BY <2>1, <3>1 DEF Actions!Allowed, r, s
  <2> HIDE DEF s
  <2> QED BY <1>0, <2>1, <2>2, <2>3 DEF Approved, s
<1>3. CASE UNCHANGED ledger
  BY <1>0, <1>3 DEF Approved, Actions!Recorded
<1> QED BY <1>1, <1>2, <1>3 DEF Actions!Next, Actions!Tick, Actions!Prepare, Actions!PrepareRecord,
                                Actions!AuthorizeRefused, Actions!RecordRefused, Actions!Perform, Actions!Die, acted

\* Nobody performs what has been performed, and two do not perform the same.
LEMMA PerformerStep ==
  ASSUME Actions!ClockCounts, ActionsInv, [Actions!Next]_acted
  PROVE  OnePerformer'
<1>0. /\ ledger \in [ActionIds -> ActionReceipt] /\ job \in [Callers -> ActionJob]
/\ performed \in [Actions!Keys -> Nat]
      /\ doing \in [Callers -> Doings]
      /\ OnePerformer /\ Approved
  BY DEF ActionsInv, Actions!TypeOK, ActionReceipt, ActionJob, Doings
<1>1. ASSUME NEW p \in Callers, NEW a \in ActionIds, NEW b \in ActionIds,
             NEW issued \in Actions!Times,
             NEW expires \in Actions!Times \ {0}, Actions!Prepare(p, a, b, issued, expires)
      PROVE  OnePerformer'
  BY <1>0, <1>1 DEF Actions!Prepare, Actions!NoJob, OnePerformer, Performing, Dispatched, Actions!Recorded
<1>7. ASSUME NEW p \in Callers, NEW a \in ActionIds, NEW status \in Actions!Requested,
             NEW at \in Actions!Times, Actions!PrepareRecord(p, a, status, at)
      PROVE  OnePerformer'
  <2>1. /\ job' = [job EXCEPT ![p] = job'[p]] /\ job'[p].action = a
        /\ doing' = [doing EXCEPT ![p] = "record"] /\ UNCHANGED <<ledger, performed>>
    BY <1>0, <1>7 DEF Actions!PrepareRecord, Actions!NoJob
  <2> QED BY <1>0, <2>1 DEF OnePerformer, Performing, Dispatched, Actions!Recorded
<1>2. ASSUME NEW p \in Callers, Actions!Authorize(p) PROVE OnePerformer'
  <2> DEFINE a == job[p].action
  <2>1. /\ a \in ActionIds /\ a \notin Actions!Recorded
        /\ ledger' = [ledger EXCEPT ![a] = ledger'[a]]
        /\ Actions!Recorded' = Actions!Recorded \cup {a}
        /\ doing' = [doing EXCEPT ![p] = "idle"] /\ job' = [job EXCEPT ![p] = Actions!NoJob]
           /\ performed' = performed
    BY <1>2, Authorizing
  <2> HIDE DEF a
  <2>2. \A b \in ActionIds : Dispatched(b) => Dispatched(b)'
    BY <1>0, <2>1 DEF Dispatched
  <2>3. \A q \in Callers, b \in ActionIds : Performing(q, b)' => Performing(q, b)
    BY <1>0, <2>1 DEF Performing
  <2>4. \A q \in Callers : doing'[q] # "idle" => job'[q].action \in ActionIds
    BY <1>0, <2>1 DEF OnePerformer
  <2> QED BY <1>0, <2>1, <2>2, <2>3, <2>4 DEF OnePerformer
<1>3. ASSUME NEW p \in Callers, Actions!AuthorizeRefused(p) \/ Actions!RecordRefused(p) \/ Actions!Die(p)
      PROVE  OnePerformer'
  BY <1>0, <1>3 DEF Actions!AuthorizeRefused, Actions!RecordRefused, Actions!Die, Actions!Idle, OnePerformer, Performing,
                    Dispatched, Actions!Recorded
<1>4. ASSUME NEW p \in Callers, Actions!Perform(p) PROVE OnePerformer'
  <2> DEFINE a == job[p].action
             k == KeyOf[a]
  <2>1. /\ doing' = [doing EXCEPT ![p] = "idle"] /\ job' = [job EXCEPT ![p] = Actions!NoJob]
        /\ performed' = [performed EXCEPT ![k] = performed[k] + 1] /\ ledger' = ledger
    BY <1>4 DEF Actions!Perform, Actions!Idle
  <2>2. a \in ActionIds /\ Performing(p, a) /\ k \in Actions!Keys
    BY <1>0, <1>4 DEF Actions!Perform, OnePerformer, Performing, Actions!Keys
  <2> HIDE DEF a
  <2>3. Dispatched(a) /\ performed[k] = 0
    BY <1>0, <2>2 DEF OnePerformer
  <2>4. \A b \in ActionIds : Dispatched(b)' = Dispatched(b)
    BY <2>1 DEF Dispatched, Actions!Recorded
  <2>5. \A q \in Callers, b \in ActionIds : Performing(q, b)' => Performing(q, b) /\ q # p
    BY <1>0, <2>1 DEF Performing
  <2>6. \A b \in ActionIds : Dispatched(b) /\ KeyOf[b] = k => b = a
    BY <1>0, <2>3 DEF Approved, Dispatched
  <2>7. \A q \in Callers, b \in ActionIds : Performing(q, b)' => performed'[KeyOf[b]] = 0
    <3> SUFFICES ASSUME NEW q \in Callers, NEW b \in ActionIds, Performing(q, b)'
                 PROVE  performed'[KeyOf[b]] = 0
      OBVIOUS
    <3>1. Performing(q, b) /\ q # p /\ Dispatched(b) /\ performed[KeyOf[b]] = 0
      BY <1>0, <2>5 DEF OnePerformer
    <3>2. b # a
      BY <1>0, <2>2, <3>1 DEF OnePerformer
    <3>3. KeyOf[b] # k
      BY <2>6, <3>1, <3>2
    <3> HIDE DEF k
    <3> QED BY <1>0, <2>1, <3>1, <3>3
  <2>8. \A l \in Actions!Keys : /\ performed'[l] <= 1
                                /\ performed'[l] = 1 => \E b \in ActionIds : KeyOf[b] = l
                                   /\ Dispatched(b)
    <3>1. KeyOf[a] = k
      OBVIOUS
    <3> HIDE DEF k
    <3> QED BY <1>0, <2>1, <2>2, <2>3, <3>1 DEF OnePerformer
  <2>9. \A q \in Callers : doing'[q] # "idle" => job'[q].action \in ActionIds
    BY <1>0, <2>1 DEF OnePerformer
  <2> HIDE DEF k
  <2> QED BY <1>0, <2>4, <2>5, <2>7, <2>8, <2>9 DEF OnePerformer
<1>5. ASSUME NEW p \in Callers, Actions!Record(p) PROVE OnePerformer'
  <2>1. PICK a \in ActionIds, status \in Actions!Requested, at \in Actions!Times :
          LET r == ledger[a]  s == ledger'[a] IN
          /\ a = job[p].action /\ doing[p] = "record"
          /\ ledger' = [ledger EXCEPT ![a] = s]
          /\ a \in Actions!Recorded /\ Actions!Allowed(r, status, at)
          /\ status = "dispatched" => /\ s.dispatched = at
                                      /\ doing' = [doing EXCEPT ![p] = "perform"] /\ job' = job
          /\ status # "dispatched" => /\ s.dispatched = r.dispatched
                                      /\ doing' = [doing EXCEPT ![p] = "idle"]
                                      /\ job' = [job EXCEPT ![p] = Actions!NoJob]
          /\ Actions!Recorded' = Actions!Recorded /\ performed' = performed
    BY <1>5, Recording
  <2> DEFINE r == ledger[a]
             s == ledger'[a]
  <2>2. at # Nil
    BY DEF Actions!Times, Actions!ClockCounts
  <2>3. \A b \in ActionIds : Dispatched(b) => Dispatched(b)'
    BY <1>0, <2>1, <2>2 DEF Dispatched
  <2>4. CASE status = "dispatched"
    <3>1. /\ doing' = [doing EXCEPT ![p] = "perform"]
          /\ \A q \in Callers : job'[q].action = IF q = p THEN a ELSE job[q].action
      BY <1>0, <2>1, <2>4
    <3>2. r.status = "authorized" /\ r.dispatched = Nil
      BY <1>0, <2>1, <2>4 DEF Actions!Allowed, Approved
    <3>3. ~Dispatched(a) /\ Dispatched(a)'
      BY <2>1, <2>2, <2>4, <3>2 DEF Dispatched
    <3>4. performed[KeyOf[a]] = 0
      <4>1. \A b \in ActionIds : KeyOf[b] = KeyOf[a] => ~Dispatched(b)
        BY <1>0, <2>1, <3>3 DEF Approved, Dispatched
      <4>2. KeyOf[a] \in Actions!Keys /\ performed[KeyOf[a]] \in Nat
        BY <1>0 DEF Actions!Keys
      <4>3. performed[KeyOf[a]] <= 1 /\ performed[KeyOf[a]] # 1
        BY <1>0, <4>1, <4>2 DEF OnePerformer
      <4> QED BY <4>2, <4>3
    <3>5. \A q \in Callers, b \in ActionIds : Performing(q, b)' =>
            IF q = p THEN b = a ELSE b # a /\ Performing(q, b)
      <4>1. \A q \in Callers : ~Performing(q, a)
        BY <1>0, <3>3 DEF OnePerformer
      <4> QED BY <1>0, <3>1, <4>1 DEF Performing
    <3>6. \A q \in Callers : doing'[q] # "idle" => job'[q].action \in ActionIds
      BY <1>0, <3>1 DEF OnePerformer
    <3> HIDE DEF r, s
    <3> QED BY <1>0, <2>1, <2>3, <3>3, <3>4, <3>5, <3>6 DEF OnePerformer
  <2>5. CASE status # "dispatched"
    <3>1. doing' = [doing EXCEPT ![p] = "idle"] /\ job' = [job EXCEPT ![p] = Actions!NoJob]
      BY <2>1, <2>5
    <3>2. \A q \in Callers, b \in ActionIds : Performing(q, b)' => Performing(q, b)
      BY <1>0, <3>1 DEF Performing
    <3>3. \A q \in Callers : doing'[q] # "idle" => job'[q].action \in ActionIds
      BY <1>0, <3>1 DEF OnePerformer
    <3> HIDE DEF r, s
    <3> QED BY <1>0, <2>1, <2>3, <3>2, <3>3 DEF OnePerformer
  <2> QED BY <2>4, <2>5
<1>6. CASE UNCHANGED <<ledger, doing, job, performed>>
  BY <1>0, <1>6 DEF OnePerformer, Performing, Dispatched, Actions!Recorded
<1> QED BY <1>1, <1>2, <1>3, <1>4, <1>5, <1>6, <1>7 DEF Actions!Next, Actions!Tick, acted

--------------------------------------------------------------------------------
\* What can go wrong with the next load is a cancellation before the approval, and a truthful
\* caller's is one asked for before the action was authorized.
LEMMA LedgerFollows == ASSUME Actions!ClockCounts, ActionsInv PROVE Actions!LedgerLoads
<1>0. /\ ledger \in [ActionIds -> ActionReceipt] /\ Approved /\ EndsInOrder
      /\ \A t \in Actions!Times : t \in Nat
  BY DEF ActionsInv, Actions!TypeOK, ActionReceipt, Actions!Times, Actions!ClockCounts
<1>1. ASSUME NEW a \in Actions!Recorded, a \notin Actions!BackDated
      PROVE  Actions!TimesValid(ledger[a])
  <2> DEFINE r == ledger[a]
  <2>1. r \in ActionReceipt /\ r.status # "none"
    BY <1>0 DEF Actions!Recorded
  <2>2. r.status = "cancelled" => ~(r.terminal < r.issued) /\ r.terminal # Nil
    BY <1>0, <1>1 DEF Actions!BackDated, EndsInOrder
  <2>3. /\ IF r.status \in {"authorized", "cancelled"} THEN r.dispatched = Nil
           ELSE r.dispatched \in r.issued..r.expires
        /\ r.status \in {"authorized", "dispatched"} => r.terminal = Nil
        /\ r.status \in {"completed", "failed"} => r.terminal # Nil /\ r.terminal >= r.dispatched
    BY <1>0 DEF Approved, EndsInOrder
  <2> HIDE DEF r
  <2>4. r.status = "cancelled" => r.terminal >= r.issued
    BY <1>0, <2>1, <2>2 DEF ActionReceipt
  <2>5. Actions!TimesValid(r)
    BY <2>1, <2>2, <2>3, <2>4 DEF ActionReceipt, Actions!Statuses, Actions!TimesValid
  <2> QED BY <2>5 DEF r
<1>2. Actions!BackDated = {} => Actions!Loads
  BY <1>0, <1>1 DEF Actions!Loads, Approved
<1>3. ASSUME honest, NEW a \in Actions!BackDated PROVE a \in premature
  <2>1. /\ a \in Actions!Recorded /\ ledger[a].status = "cancelled" /\ ledger[a].terminal < ledger[a].issued
        /\ ledger[a].issued \in Nat /\ ledger[a].terminal \in Nat \cup {Nil}
    BY <1>0, <1>3 DEF Actions!BackDated, Actions!Recorded, ActionReceipt
  <2> QED BY <1>0, <1>3, <2>1 DEF EndsInOrder
<1> QED BY <1>2, <1>3 DEF Actions!LedgerLoads

\* The ledger starts empty and stays a record of what dispatchers did.
LEMMA ActionsStart == Actions!Init => ActionsInv
<1> SUFFICES ASSUME Actions!Init PROVE ActionsInv
  OBVIOUS
<1>1. /\ Actions!NoReceipt \in ActionReceipt /\ Actions!NoReceipt.status = "none"
      /\ Actions!NoJob \in ActionJob
  BY ClockAssumption
     DEF Actions!NoReceipt, Actions!NoJob, ActionReceipt, ActionJob, Actions!Statuses,
         Actions!Times, Actions!ClockCounts
<1>2. Actions!TypeOK
  BY <1>1, ClockAssumption
     DEF Actions!Init, Actions!TypeOK, ActionReceipt, ActionJob, Actions!Times, Actions!ClockCounts
<1>3. Actions!Recorded = {}
  BY <1>1 DEF Actions!Init, Actions!Recorded
<1>4. StampedByNow /\ Informed /\ EndsInOrder /\ Approved
  BY <1>1, <1>3 DEF Actions!Init, StampedByNow, Informed, EndsInOrder, Approved
<1>5. OnePerformer
  BY DEF Actions!Init, OnePerformer, Performing
<1> QED BY <1>2, <1>4, <1>5 DEF ActionsInv

LEMMA ActionsKept == ASSUME ActionsInv, [Actions!Next]_acted PROVE ActionsInv'
BY ClockAssumption, ActionsTypeStep, StampStep, InformedStep, EndsStep, ApprovedStep, PerformerStep
   DEF ActionsInv

\* The ledger is what dispatchers did, whatever the behaviour is one of.
ActionsPart == part = "actions" => ActionsInv

LEMMA ActionsInit == AllInit => ActionsPart
BY ActionsStart, Zenon DEF AllInit, ActionsPart

LEMMA ActionsStep ==
  ASSUME ActionsPart, [AllNext]_AllVars
  PROVE  ActionsPart'
<1>1. part' = part
  BY DEF AllNext, AllVars
<1>2. part = "actions" => [Actions!Next]_acted
  BY DEF AllNext, AllVars
<1> QED BY <1>1, <1>2, ActionsKept, Zenon DEF ActionsPart

\* However dispatchers die, race and name an action, the effect behind a key is performed at
\* most once, on a recorded dispatch inside its approval.  A ledger cannot be loaded again only
\* when it holds a cancellation dated before its approval, and a caller that gives the time it
\* is writes one only when it asked, and fixed that time, before the action was authorized
\* (external_action_contract.py:141-212, _receipt.py:86-101, _storage.py:103-121).
THEOREM EffectsOnce == AllSpec => []LedgerIsSound
<1>1. ActionsInv => Actions!EffectInv
  <2> SUFFICES ASSUME ActionsInv, NEW k \in Actions!Keys, performed[k] = 1
               PROVE  \E a \in Actions!Recorded :
                        /\ KeyOf[a] = k /\ ledger[a].dispatched # Nil
                        /\ ledger[a].dispatched \in ledger[a].issued..ledger[a].expires
                        /\ ledger[a].expires - ledger[a].issued <= Window
    BY DEF ActionsInv, Actions!EffectInv, Actions!AtMostOnce, OnePerformer
  <2>1. PICK a \in ActionIds : KeyOf[a] = k /\ Dispatched(a)
    BY DEF ActionsInv, OnePerformer
  <2> QED BY <2>1 DEF ActionsInv, Approved, Dispatched
<1>2. ActionsPart => LedgerIsSound
  BY <1>1, ClockAssumption, LedgerFollows, Zenon DEF ActionsPart, LedgerIsSound, Actions!LedgerIsSound
<1> QED BY <1>2, ActionsInit, ActionsStep, PTL DEF AllSpec

\* No retry and no late record rewrites an approval, a dispatch or an end.
LEMMA ReceiptsStay ==
  ASSUME ActionsInv, [Actions!Next]_acted
  PROVE  Actions!KeepsReceipts
<1> USE ClockAssumption
<1> SUFFICES ASSUME ActionsInv, [Actions!Next]_acted, NEW b \in Actions!Recorded
             PROVE  LET old == ledger[b]  new == ledger'[b] IN
                    /\ old.status \in Actions!Terminal => new = old
                    /\ new.issued = old.issued /\ new.expires = old.expires
                    /\ old.dispatched # Nil => new.dispatched = old.dispatched
                    /\ new.status # "none"
  BY DEF Actions!KeepsReceipts
<1>0. ledger \in [ActionIds -> ActionReceipt] /\ b \in ActionIds /\ ledger[b].status # "none"
/\ Approved
  BY DEF ActionsInv, Actions!TypeOK, ActionReceipt, Actions!Recorded
<1>1. ASSUME NEW p \in Callers, Actions!Authorize(p) PROVE ledger'[b] = ledger[b]
  <2>1. job[p].action \notin Actions!Recorded
        /\ ledger' = [ledger EXCEPT ![job[p].action] = ledger'[job[p].action]]
    BY <1>1, Authorizing
  <2> QED BY <1>0, <2>1
<1>2. ASSUME NEW p \in Callers, Actions!Record(p), job[p].action = b
      PROVE  LET old == ledger[b]  new == ledger'[b] IN
             /\ old.status \notin Actions!Terminal
             /\ new.issued = old.issued /\ new.expires = old.expires
             /\ old.dispatched # Nil => new.dispatched = old.dispatched
             /\ new.status # "none"
  <2> DEFINE r == ledger[b]
             s == ledger'[b]
  <2>1. PICK status \in Actions!Requested, at \in Actions!Times :
          /\ s.issued = r.issued /\ s.expires = r.expires /\ s.status = status
          /\ Actions!Allowed(r, status, at)
          /\ status # "dispatched" => s.dispatched = r.dispatched
    BY <1>2, Recording
  <2>2. r.status = "authorized" => r.dispatched = Nil
    BY <1>0 DEF Approved
  <2> HIDE DEF r, s
  <2>3. /\ r.status \notin Actions!Terminal /\ s.issued = r.issued /\ s.expires = r.expires
        /\ r.dispatched # Nil => s.dispatched = r.dispatched
        /\ s.status # "none"
    BY <2>1, <2>2 DEF Actions!Allowed, Actions!Terminal
  <2> QED BY <2>3 DEF r, s
<1>3. ASSUME NEW p \in Callers, Actions!Record(p), job[p].action # b
      PROVE  ledger'[b] = ledger[b]
  <2>1. ledger' = [ledger EXCEPT ![job[p].action] = ledger'[job[p].action]]
    BY <1>3, Recording
  <2> QED BY <1>0, <1>3, <2>1
<1>4. CASE UNCHANGED ledger
  BY <1>0, <1>4
<1> QED BY <1>0, <1>1, <1>2, <1>3, <1>4
        DEF Actions!Next, Actions!Tick, Actions!Prepare, Actions!PrepareRecord,
            Actions!AuthorizeRefused, Actions!RecordRefused, Actions!Perform, Actions!Die, acted,
            Actions!Terminal

--------------------------------------------------------------------------------
Outcome == Ticket!ProcessStatus \cup {"dry_run", Nil}

\* What a runner that has no child yet, or has a result, knows.
RunnerKnows ==
  \A p \in Runners :
    /\ runner[p] \in {"event", "sealed", "marker", "lease", "core", "launch"} =>
             child[p] = "none" /\ outcome[p] \in {Nil, "cancelled"}
    /\ runner[p] \in {"write", "record"} => outcome[p] # Nil
    /\ outcome[p] = "completed" => child[p] = "succeeded"
    /\ outcome[p] = "cancelled" => marker

\* Between the seal and the terminal the receipt is the runner's own.
SealedByRecorder ==
  \A p \in Runners :
    runner[p] = "record" => receipt = outcome[p] /\ receipt \in Ticket!ProcessStatus

\* Whoever has reported left the worker terminal, so nobody reports again.
ReportStands == reporter # Nil => worker # "launched"

\* A runner whose event was accepted is in the store, and is the event's only one.
Accepted(p) == runner[p] \notin {"event", "refused", "killed"} \/ child[p] # "none"
AcceptedOnce ==
  /\ \A p \in Runners : Accepted(p) => EventOf[p] \in accepted
  /\ \A p, q \in Runners : Accepted(p) /\ Accepted(q) /\ EventOf[p] = EventOf[q] => p = q

TicketRunInv ==
  /\ Ticket!TypeOK /\ Ticket!EvidenceAgrees
  /\ RunnerKnows /\ SealedByRecorder /\ ReportStands /\ AcceptedOnce

\* A process result becomes a terminal status of the delegation run.
LEMMA DispositionType ==
  ASSUME NEW s \in Ticket!ProcessStatus
  PROVE  Ticket!Disposition(s) \in Ticket!TerminalStatus /\ Ticket!Disposition(s) # "launched"
BY DEF Ticket!ProcessStatus, Ticket!TerminalStatus, Ticket!Disposition

\* Every step keeps the runners, the receipt and the terminal in their vocabulary.
LEMMA TicketTypeStep ==
  ASSUME Ticket!TypeOK, RunnerKnows, SealedByRecorder, [Ticket!Next]_ticketed
  PROVE  Ticket!TypeOK'
<1> USE DEF Ticket!TypeOK
<1>1. ASSUME NEW p \in Runners,
             \/ Ticket!Accept(p) \/ Ticket!CheckReceipt(p) \/ Ticket!CheckMarker(p)
                \/ Ticket!CheckLease(p) \/ Ticket!CheckCore(p)
      PROVE  Ticket!TypeOK'
  BY <1>1, TicketAssumption
     DEF Ticket!Accept, Ticket!CheckReceipt, Ticket!CheckMarker, Ticket!CheckLease,
         Ticket!CheckCore, Ticket!Move, Ticket!Location, Ticket!ProcessStatus
<1>2. ASSUME NEW p \in Runners,
             Ticket!Launch(p) \/ Ticket!ReadExit(p) \/ Ticket!SeeMarker(p)
             \/ Ticket!TimeOut(p) \/ Ticket!ChildExits(p)
      PROVE  Ticket!TypeOK'
  BY <1>2 DEF Ticket!Launch, Ticket!ReadExit, Ticket!SeeMarker, Ticket!TimeOut, Ticket!Stop,
              Ticket!ChildExits, Ticket!Move, Ticket!Location, Ticket!ProcessStatus, Ticket!Exited
<1>3. ASSUME NEW p \in Runners, Ticket!WriteReceipt(p) PROVE Ticket!TypeOK'
  BY <1>3 DEF Ticket!WriteReceipt, Ticket!AfterSeal, Ticket!Move, Ticket!Location
<1>4. ASSUME NEW p \in Runners, Ticket!RecordTerminal(p) PROVE Ticket!TypeOK'
  <2>1. runner[p] = "record" /\ outcome[p] \in Ticket!ProcessStatus
    BY <1>4 DEF Ticket!RecordTerminal, Ticket!Move, SealedByRecorder
  <2>2. Ticket!Disposition(outcome[p]) \in Ticket!TerminalStatus
    BY <2>1, DispositionType
  <2> QED BY <1>4, <2>2 DEF Ticket!RecordTerminal, Ticket!Move, Ticket!Location
<1>5. ASSUME NEW p \in Runners, Ticket!Kill(p) PROVE Ticket!TypeOK'
  BY <1>5 DEF Ticket!Kill, Ticket!Location
<1>6. ASSUME Ticket!Cancel \/ Ticket!ReleaseLease \/ Ticket!LeadRecords \/ Ticket!AllEnded
             \/ UNCHANGED ticketed PROVE Ticket!TypeOK'
  BY <1>6 DEF Ticket!Cancel, Ticket!ReleaseLease, Ticket!LeadRecords, Ticket!AllEnded,
              Ticket!vars, ticketed
<1> QED BY <1>1, <1>2, <1>3, <1>4, <1>5, <1>6 DEF Ticket!Next, Ticket!Run

\* What a runner knows stays true of it: its child has ended for good when it is read, the
\* marker is never removed.
LEMMA KnowsStep ==
  ASSUME Ticket!TypeOK, RunnerKnows, [Ticket!Next]_ticketed
  PROVE  RunnerKnows'
<1> USE DEF Ticket!TypeOK, RunnerKnows, Outcome
<1>0. Nil # "completed" /\ Nil # "cancelled"
  BY TicketAssumption DEF Ticket!ProcessStatus
<1>1. ASSUME NEW p \in Runners,
             \/ Ticket!Accept(p) \/ Ticket!CheckReceipt(p) \/ Ticket!CheckMarker(p)
                \/ Ticket!CheckLease(p) \/ Ticket!CheckCore(p)
      PROVE  RunnerKnows'
  BY <1>0, <1>1, TicketAssumption DEF Ticket!Accept, Ticket!CheckReceipt, Ticket!CheckMarker,
                                      Ticket!CheckLease, Ticket!CheckCore, Ticket!Move
<1>2. ASSUME NEW p \in Runners, Ticket!Launch(p) PROVE RunnerKnows'
  BY <1>0, <1>2, TicketAssumption DEF Ticket!Launch, Ticket!Move, Ticket!ProcessStatus
<1>3. ASSUME NEW p \in Runners, Ticket!ReadExit(p) \/ Ticket!SeeMarker(p) \/ Ticket!TimeOut(p)
      PROVE  RunnerKnows'
  BY <1>3, TicketAssumption DEF Ticket!ReadExit, Ticket!SeeMarker, Ticket!TimeOut, Ticket!Stop,
                                Ticket!Move, Ticket!ProcessStatus
<1>4. ASSUME NEW p \in Runners, Ticket!ChildExits(p) PROVE RunnerKnows'
  BY <1>4 DEF Ticket!ChildExits, Ticket!Exited
<1>5. ASSUME NEW p \in Runners, Ticket!WriteReceipt(p) \/ Ticket!RecordTerminal(p) \/ Ticket!Kill(p)
      PROVE  RunnerKnows'
  BY <1>5 DEF Ticket!WriteReceipt, Ticket!AfterSeal, Ticket!RecordTerminal, Ticket!Kill, Ticket!Move
<1>6. ASSUME Ticket!Cancel \/ Ticket!ReleaseLease \/ Ticket!LeadRecords \/ Ticket!AllEnded
             \/ UNCHANGED ticketed
      PROVE  RunnerKnows'
  BY <1>6 DEF Ticket!Cancel, Ticket!ReleaseLease, Ticket!LeadRecords, Ticket!AllEnded,
              Ticket!vars, ticketed
<1> QED BY <1>1, <1>2, <1>3, <1>4, <1>5, <1>6 DEF Ticket!Next, Ticket!Run

\* The receipt is created once, so the runner that created it still finds its own.
LEMMA SealStep ==
  ASSUME Ticket!TypeOK, RunnerKnows, SealedByRecorder, [Ticket!Next]_ticketed
  PROVE  SealedByRecorder' /\ (receipt # Nil => receipt' = receipt)
<1> USE DEF Ticket!TypeOK, SealedByRecorder
<1>0. Nil \notin Ticket!ProcessStatus
  BY TicketAssumption
<1>1. ASSUME NEW p \in Runners,
             \/ Ticket!Accept(p) \/ Ticket!CheckReceipt(p) \/ Ticket!CheckMarker(p)
                \/ Ticket!CheckLease(p) \/ Ticket!CheckCore(p)
             \/ Ticket!Launch(p) \/ Ticket!ReadExit(p) \/ Ticket!SeeMarker(p)
                \/ Ticket!TimeOut(p) \/ Ticket!ChildExits(p)
             \/ Ticket!RecordTerminal(p) \/ Ticket!Kill(p)
      PROVE  SealedByRecorder' /\ receipt' = receipt
  BY <1>1 DEF Ticket!Accept, Ticket!CheckReceipt, Ticket!CheckMarker, Ticket!CheckLease,
              Ticket!CheckCore, Ticket!Launch, Ticket!ReadExit, Ticket!SeeMarker,
              Ticket!TimeOut, Ticket!Stop, Ticket!ChildExits, Ticket!RecordTerminal, Ticket!Kill,
              Ticket!Move
<1>2. ASSUME NEW p \in Runners, Ticket!WriteReceipt(p)
      PROVE  SealedByRecorder' /\ (receipt # Nil => receipt' = receipt)
  <2>1. outcome[p] # Nil /\ outcome' = outcome
    BY <1>2 DEF Ticket!WriteReceipt, Ticket!Move, RunnerKnows
  <2>2. CASE receipt = Nil
    BY <1>0, <1>2, <2>1, <2>2 DEF Ticket!WriteReceipt, Ticket!AfterSeal, Ticket!Move
  <2>3. CASE receipt # Nil
    BY <1>2, <2>3 DEF Ticket!WriteReceipt, Ticket!AfterSeal, Ticket!Move
  <2> QED BY <2>2, <2>3
<1>3. ASSUME Ticket!Cancel \/ Ticket!ReleaseLease \/ Ticket!LeadRecords \/ Ticket!AllEnded
             \/ UNCHANGED ticketed
      PROVE  SealedByRecorder' /\ receipt' = receipt
  BY <1>3 DEF Ticket!Cancel, Ticket!ReleaseLease, Ticket!LeadRecords, Ticket!AllEnded,
              Ticket!vars, ticketed
<1> QED BY <1>1, <1>2, <1>3 DEF Ticket!Next, Ticket!Run

\* A terminal is recorded once.
LEMMA ReportStep ==
  ASSUME Ticket!TypeOK, SealedByRecorder, ReportStands, [Ticket!Next]_ticketed
  PROVE  ReportStands' /\ (reporter # Nil => worker' = worker /\ reporter' = reporter)
<1> USE DEF Ticket!TypeOK, ReportStands
<1>1. ASSUME NEW p \in Runners,
             \/ Ticket!Accept(p) \/ Ticket!CheckReceipt(p) \/ Ticket!CheckMarker(p)
                \/ Ticket!CheckLease(p) \/ Ticket!CheckCore(p)
             \/ Ticket!Launch(p) \/ Ticket!ReadExit(p) \/ Ticket!SeeMarker(p)
                \/ Ticket!TimeOut(p) \/ Ticket!ChildExits(p)
             \/ Ticket!WriteReceipt(p) \/ Ticket!Kill(p)
      PROVE  worker' = worker /\ reporter' = reporter
  BY <1>1 DEF Ticket!Accept, Ticket!CheckReceipt, Ticket!CheckMarker, Ticket!CheckLease,
              Ticket!CheckCore, Ticket!Launch, Ticket!ReadExit, Ticket!SeeMarker,
              Ticket!TimeOut, Ticket!Stop, Ticket!ChildExits, Ticket!WriteReceipt, Ticket!Kill
<1>2. ASSUME NEW p \in Runners, Ticket!RecordTerminal(p)
      PROVE  ReportStands' /\ (reporter # Nil => worker' = worker /\ reporter' = reporter)
  <2>1. outcome[p] \in Ticket!ProcessStatus
    BY <1>2 DEF Ticket!RecordTerminal, Ticket!Move, SealedByRecorder
  <2>2. Ticket!Disposition(outcome[p]) # "launched"
    BY <2>1, DispositionType
  <2> QED BY <1>2, <2>2 DEF Ticket!RecordTerminal
<1>3. ASSUME Ticket!LeadRecords
      PROVE  ReportStands' /\ (reporter # Nil => worker' = worker /\ reporter' = reporter)
  BY <1>3 DEF Ticket!LeadRecords, Ticket!TerminalStatus
<1>4. ASSUME Ticket!Cancel \/ Ticket!ReleaseLease \/ Ticket!AllEnded \/ UNCHANGED ticketed
      PROVE  worker' = worker /\ reporter' = reporter
  BY <1>4 DEF Ticket!Cancel, Ticket!ReleaseLease, Ticket!AllEnded, Ticket!vars, ticketed
<1> QED BY <1>1, <1>2, <1>3, <1>4 DEF Ticket!Next, Ticket!Run

\* Receipt, child, marker and terminal go on agreeing.
LEMMA EvidenceStep ==
  ASSUME TicketRunInv, [Ticket!Next]_ticketed
  PROVE  Ticket!EvidenceAgrees'
<1> USE DEF TicketRunInv, Ticket!TypeOK
<1>1. receipt' = "completed" => \E p \in Runners : child'[p] = "succeeded"
  <2>1. ASSUME receipt' = receipt, NEW p \in Runners, child[p] = "succeeded"
        PROVE  child'[p] = "succeeded"
    <3>1. runner[p] # "launch"
      BY <2>1 DEF RunnerKnows
    <3> QED BY <2>1, <3>1 DEF Ticket!Next, Ticket!Run, Ticket!Accept, Ticket!CheckReceipt,
                              Ticket!CheckMarker, Ticket!CheckLease, Ticket!CheckCore,
                              Ticket!Launch,
              Ticket!ReadExit, Ticket!SeeMarker, Ticket!TimeOut, Ticket!Stop, Ticket!ChildExits,
              Ticket!WriteReceipt, Ticket!RecordTerminal, Ticket!Kill, Ticket!Move,
              Ticket!Cancel, Ticket!ReleaseLease, Ticket!LeadRecords, Ticket!AllEnded,
              Ticket!vars, ticketed
  <2>2. CASE receipt' = receipt
    BY <2>1, <2>2 DEF Ticket!EvidenceAgrees
  <2>3. CASE receipt' # receipt
    <3>1. PICK p \in Runners : Ticket!WriteReceipt(p)
      BY <2>3 DEF Ticket!Next, Ticket!Run, Ticket!Accept, Ticket!CheckReceipt, Ticket!CheckMarker,
                  Ticket!CheckLease, Ticket!CheckCore, Ticket!Launch,
              Ticket!ReadExit, Ticket!SeeMarker, Ticket!TimeOut, Ticket!Stop, Ticket!ChildExits,
              Ticket!RecordTerminal, Ticket!Kill,
              Ticket!Cancel, Ticket!ReleaseLease, Ticket!LeadRecords, Ticket!AllEnded,
              Ticket!vars, ticketed
    <3> QED BY <2>3, <3>1 DEF Ticket!WriteReceipt, RunnerKnows
  <2> QED BY <2>2, <2>3
<1>2. receipt' = "cancelled" => marker'
  <2>1. marker => marker'
    BY DEF Ticket!Next, Ticket!Run, Ticket!Accept, Ticket!CheckReceipt, Ticket!CheckMarker,
           Ticket!CheckLease, Ticket!CheckCore, Ticket!Launch,
              Ticket!ReadExit, Ticket!SeeMarker, Ticket!TimeOut, Ticket!Stop, Ticket!ChildExits,
              Ticket!WriteReceipt, Ticket!RecordTerminal, Ticket!Kill,
              Ticket!Cancel, Ticket!ReleaseLease, Ticket!LeadRecords, Ticket!AllEnded,
              Ticket!vars, ticketed
  <2>2. CASE receipt' = receipt
    BY <2>1, <2>2 DEF Ticket!EvidenceAgrees
  <2>3. CASE receipt' # receipt
    <3>1. PICK p \in Runners : Ticket!WriteReceipt(p)
      BY <2>3 DEF Ticket!Next, Ticket!Run, Ticket!Accept, Ticket!CheckReceipt, Ticket!CheckMarker,
                  Ticket!CheckLease, Ticket!CheckCore, Ticket!Launch,
              Ticket!ReadExit, Ticket!SeeMarker, Ticket!TimeOut, Ticket!Stop, Ticket!ChildExits,
              Ticket!RecordTerminal, Ticket!Kill,
              Ticket!Cancel, Ticket!ReleaseLease, Ticket!LeadRecords, Ticket!AllEnded,
              Ticket!vars, ticketed
    <3> QED BY <2>1, <2>3, <3>1 DEF Ticket!WriteReceipt, RunnerKnows
  <2> QED BY <2>2, <2>3
<1>3. reporter' = "runner" => receipt' # Nil /\ worker' = Ticket!Disposition(receipt')
  <2>1. CASE reporter # Nil
    BY <2>1, SealStep, ReportStep DEF Ticket!EvidenceAgrees
  <2>2. CASE reporter = Nil
    <3>1. SUFFICES ASSUME reporter' = "runner" PROVE receipt' # Nil
                          /\ worker' = Ticket!Disposition(receipt')
      OBVIOUS
    <3>2. reporter' # reporter
      BY <2>2, <3>1, TicketAssumption
    <3>3. PICK p \in Runners : Ticket!RecordTerminal(p)
      BY <3>1, <3>2 DEF Ticket!Next, Ticket!Run, Ticket!Accept, Ticket!CheckReceipt,
                        Ticket!CheckMarker, Ticket!CheckLease, Ticket!CheckCore, Ticket!Launch,
              Ticket!ReadExit, Ticket!SeeMarker, Ticket!TimeOut, Ticket!Stop, Ticket!ChildExits,
              Ticket!WriteReceipt, Ticket!Kill,
              Ticket!Cancel, Ticket!ReleaseLease, Ticket!LeadRecords, Ticket!AllEnded,
              Ticket!vars, ticketed
    <3>4. receipt = outcome[p] /\ receipt # Nil /\ receipt' = receipt
      BY <3>3, TicketAssumption DEF Ticket!RecordTerminal, Ticket!Move, SealedByRecorder
    <3> QED BY <3>2, <3>3, <3>4 DEF Ticket!RecordTerminal
  <2> QED BY <2>1, <2>2
<1> QED BY <1>1, <1>2, <1>3 DEF Ticket!EvidenceAgrees

\* The store lets one delivery of an event pass, and only who passed has a child.
LEMMA AcceptedStep ==
  ASSUME Ticket!TypeOK, RunnerKnows, AcceptedOnce, [Ticket!Next]_ticketed
  PROVE  AcceptedOnce'
<1> USE DEF Ticket!TypeOK, AcceptedOnce, Accepted
<1>1. ASSUME accepted' = accepted, \A q \in Runners : Accepted(q)' => Accepted(q)
      PROVE  AcceptedOnce'
  BY <1>1
<1>2. ASSUME NEW p \in Runners, Ticket!Accept(p) PROVE AcceptedOnce'
  <2>1. runner[p] = "event" /\ child[p] = "none" /\ child' = child
    BY <1>2 DEF Ticket!Accept, Ticket!Move, RunnerKnows
  <2>2. \A q \in Runners : q # p => runner'[q] = runner[q]
    BY <1>2 DEF Ticket!Accept, Ticket!Move
  <2>3. CASE EventOf[p] \in accepted
    BY <1>2, <2>1, <2>2, <2>3 DEF Ticket!Accept, Ticket!Move
  <2>4. CASE EventOf[p] \notin accepted
    BY <1>2, <2>1, <2>2, <2>4 DEF Ticket!Accept, Ticket!Move
  <2> QED BY <2>3, <2>4
<1>3. ASSUME NEW p \in Runners,
             \/ Ticket!CheckReceipt(p) \/ Ticket!CheckMarker(p) \/ Ticket!CheckLease(p)
                \/ Ticket!CheckCore(p)
             \/ Ticket!Launch(p) \/ Ticket!ReadExit(p) \/ Ticket!SeeMarker(p)
                \/ Ticket!TimeOut(p) \/ Ticket!ChildExits(p)
             \/ Ticket!WriteReceipt(p) \/ Ticket!RecordTerminal(p) \/ Ticket!Kill(p)
      PROVE  AcceptedOnce'
  <2>1. accepted' = accepted /\ \A q \in Runners : q # p => runner'[q] = runner[q]
  /\ child'[q] = child[q]
    BY <1>3 DEF Ticket!CheckReceipt, Ticket!CheckMarker, Ticket!CheckLease, Ticket!CheckCore,
                Ticket!Launch, Ticket!ReadExit, Ticket!SeeMarker, Ticket!TimeOut,
                Ticket!Stop, Ticket!ChildExits, Ticket!WriteReceipt, Ticket!RecordTerminal,
                Ticket!Kill, Ticket!Move
  <2>2. Accepted(p)' => Accepted(p)
    BY <1>3 DEF Ticket!CheckReceipt, Ticket!CheckMarker, Ticket!CheckLease, Ticket!CheckCore,
                Ticket!Launch, Ticket!ReadExit, Ticket!SeeMarker, Ticket!TimeOut,
                Ticket!Stop, Ticket!ChildExits, Ticket!WriteReceipt, Ticket!RecordTerminal,
                Ticket!Kill, Ticket!Move, RunnerKnows
  <2> QED BY <1>1, <2>1, <2>2
<1>4. ASSUME Ticket!Cancel \/ Ticket!ReleaseLease \/ Ticket!LeadRecords \/ Ticket!AllEnded
             \/ UNCHANGED ticketed
      PROVE  AcceptedOnce'
  BY <1>1, <1>4 DEF Ticket!Cancel, Ticket!ReleaseLease, Ticket!LeadRecords, Ticket!AllEnded,
                    Ticket!vars, ticketed
<1> QED BY <1>2, <1>3, <1>4 DEF Ticket!Next, Ticket!Run

\* A ticket run starts with nothing sealed, and every step keeps its evidence in agreement.
LEMMA TicketStart == Ticket!Init => TicketRunInv
BY TicketAssumption
   DEF Ticket!Init, TicketRunInv, Ticket!TypeOK, Ticket!EvidenceAgrees, RunnerKnows,
       SealedByRecorder,
       ReportStands, AcceptedOnce, Accepted, Ticket!Location, Ticket!ProcessStatus

LEMMA TicketKept ==
  ASSUME TicketRunInv, [Ticket!Next]_ticketed
  PROVE  TicketRunInv'
BY TicketTypeStep, KnowsStep, SealStep, ReportStep, EvidenceStep, AcceptedStep DEF TicketRunInv

\* The evidence of a ticket agrees, whatever the behaviour is one of.
TicketPart == part = "ticket" => TicketRunInv

LEMMA TicketInit == AllInit => TicketPart
BY TicketStart, Zenon DEF AllInit, TicketPart

LEMMA TicketStep ==
  ASSUME TicketPart, [AllNext]_AllVars
  PROVE  TicketPart'
<1>1. part' = part
  BY DEF AllNext, AllVars
<1>2. part = "ticket" => [Ticket!Next]_ticketed
  BY DEF AllNext, AllVars
<1> QED BY <1>1, <1>2, TicketKept, Zenon DEF TicketPart

\* Receipt, child, marker and terminal agree, and one event starts one process, however
\* many runners race, are killed or cancelled (codex_ticket_runner.py:63-109).
THEOREM EvidenceIsTrue == AllSpec => []TicketInv
<1>1. TicketRunInv => Ticket!TicketInv
  BY DEF TicketRunInv, Ticket!TicketInv, Ticket!StartInv, Ticket!OneProcessPerEvent, AcceptedOnce,
         Accepted
<1>2. TicketPart => TicketInv
  BY <1>1, Zenon DEF TicketPart, TicketInv
<1> QED BY <1>2, TicketInit, TicketStep, PTL DEF AllSpec

\* Nothing that has been sealed or recorded changes.
LEMMA SealStays ==
  ASSUME TicketRunInv, [Ticket!Next]_ticketed
  PROVE  Ticket!KeepsSealed
BY SealStep, ReportStep DEF TicketRunInv, Ticket!KeepsSealed

--------------------------------------------------------------------------------
ReviewReceipt ==
  [candidate : Candidates, reviewer : Actors \ {Producer}, lane : Review!Lanes, shadow : BOOLEAN,
   verdict : Review!Verdicts, satisfied : SUBSET Requirements, unknowns : BOOLEAN]

\* Receipts are those of dispatches that could be built.
ReceiptsBuilt ==
  receipts \subseteq {r \in ReviewReceipt : r.shadow = (r.lane = "antigravity")}

\* Whoever writes the handoff has written the manifest, which nobody replaces.
HandoffFollows ==
  /\ attempt \in [Candidates -> {"idle", "manifest", "handoff", "sealed", "refused"}]
  /\ \A c \in Candidates : attempt[c] = "handoff" => manifest = c
  /\ handoff # Nil => manifest = handoff

ReviewInv == ReceiptsBuilt /\ HandoffFollows

\* Every receipt added was dispatchable.
LEMMA ReceiptsStep ==
  ASSUME ReceiptsBuilt, [Review!Next]_reviewed
  PROVE  ReceiptsBuilt'
<1>1. ASSUME NEW c \in Candidates, NEW reviewer \in Actors, NEW lane \in Review!Lanes,
             NEW shadow \in BOOLEAN,
             NEW verdict \in Review!Verdicts, NEW satisfied \in SUBSET Requirements,
             NEW unknowns \in BOOLEAN,
             Review!Review(c, reviewer, lane, shadow, verdict, satisfied, unknowns)
      PROVE  ReceiptsBuilt'
  <2> DEFINE r == [candidate |-> c, reviewer |-> reviewer, lane |-> lane, shadow |-> shadow,
                   verdict |-> verdict, satisfied |-> satisfied, unknowns |-> unknowns]
  <2>1. receipts' = receipts \cup {r}
    BY <1>1 DEF Review!Review
  <2>2. r \in ReviewReceipt
    BY <1>1 DEF Review!Review, Review!Dispatchable, ReviewReceipt
  <2>3. r.shadow = (r.lane = "antigravity")
    BY <1>1 DEF Review!Review, Review!Dispatchable
  <2> HIDE DEF r
  <2> QED BY <2>1, <2>2, <2>3 DEF ReceiptsBuilt
<1>2. CASE UNCHANGED receipts
  BY <1>2 DEF ReceiptsBuilt
<1> QED BY <1>1, <1>2
      DEF Review!Next, Review!StartHandoff, Review!WriteManifest, Review!WriteHandoff,
          Review!HandoffDies, Review!CoreVerifies, reviewed

\* The first writer of the manifest alone goes on to the handoff.
LEMMA HandoffStep ==
  ASSUME Review!NilIsNone, HandoffFollows, [Review!Next]_reviewed
  PROVE  HandoffFollows'
<1> USE DEF HandoffFollows, Review!NilIsNone, Review!Goto
<1>1. ASSUME NEW c \in Candidates,
             Review!StartHandoff(c) \/ Review!HandoffDies(c) PROVE HandoffFollows'
  BY <1>1 DEF Review!StartHandoff, Review!HandoffDies
<1>2. ASSUME NEW c \in Candidates, Review!WriteManifest(c) PROVE HandoffFollows'
  BY <1>2 DEF Review!WriteManifest
<1>3. ASSUME NEW c \in Candidates, Review!WriteHandoff(c) PROVE HandoffFollows'
  BY <1>3 DEF Review!WriteHandoff
<1>4. CASE UNCHANGED <<manifest, handoff, attempt>>
  BY <1>4
<1> QED BY <1>1, <1>2, <1>3, <1>4 DEF Review!Next, Review!Review, Review!CoreVerifies, reviewed

\* A handoff starts with nothing on disk, and every step keeps receipts and handoff true.
LEMMA ReviewStart == Review!Init => ReviewInv
BY DEF Review!Init, ReviewInv, ReceiptsBuilt, HandoffFollows

LEMMA ReviewKept ==
  ASSUME ReviewInv, [Review!Next]_reviewed
  PROVE  ReviewInv'
BY ReviewAssumption, ReceiptsStep, HandoffStep DEF ReviewInv

\* Receipts and handoff are true, whatever the behaviour is one of.
ReviewPart == part = "review" => ReviewInv

LEMMA ReviewInit == AllInit => ReviewPart
BY ReviewStart, Zenon DEF AllInit, ReviewPart

LEMMA ReviewStep ==
  ASSUME ReviewPart, [AllNext]_AllVars
  PROVE  ReviewPart'
<1>1. part' = part
  BY DEF AllNext, AllVars
<1>2. part = "review" => [Review!Next]_reviewed
  BY DEF AllNext, AllVars
<1> QED BY <1>1, <1>2, ReviewKept, Zenon DEF ReviewPart

\* However handoffs race or die, the handoff names the manifest beside it; and a ticket is
\* verified only of a candidate another actor approved in the canonical lane for every
\* requirement, without an objection there, and that the Core verified
\* (candidate_handoff.py:120-165, candidate_review.py:207-238,
\* ticket_evidence_state.py:46-74).
THEOREM VerifiedWasEarned == AllSpec => []VerifiedIsEarned
<1>1. ReviewInv => Review!VerifiedIsEarned
  <2> SUFFICES ASSUME ReviewInv, NEW c \in Candidates, Review!TicketState(c) = "verified"
               PROVE  /\ verification.candidate = c /\ verification.passed
                      /\ \E r \in receipts : /\ r.candidate = c /\ r.reviewer # Producer
                         /\ r.lane = "sol"
                                             /\ r.verdict = "approved" /\ r.satisfied = Requirements
                      /\ \A r \in receipts : r.candidate = c
                         /\ r.verdict # "approved" => r.lane = "antigravity"
    BY DEF ReviewInv, HandoffFollows, Review!VerifiedIsEarned
  <2>1. Review!ReviewState(c) = "review_approved" /\ verification.candidate = c
  /\ Review!EvidenceComplete
    BY ReviewAssumption DEF Review!TicketState, Review!NilIsNone, Review!ReviewState
  <2>2. Review!Approves(c) /\ ~Review!Objects(c, "changes_requested") /\ ~Review!Objects(c,
  "blocked")
    BY <2>1 DEF Review!ReviewState
  <2>3. \A r \in receipts : r \in ReviewReceipt /\ r.shadow = (r.lane = "antigravity")
    BY DEF ReviewInv, ReceiptsBuilt
  <2>4. PICK r \in receipts : /\ r.candidate = c /\ r.lane = "sol" /\ r.verdict = "approved"
                              /\ Requirements \subseteq r.satisfied
    BY <2>2 DEF Review!Approves, Review!Canonical
  <2>5. r.reviewer # Producer /\ r.satisfied = Requirements
    BY <2>3, <2>4 DEF ReviewReceipt
  <2>6. ASSUME NEW s \in receipts, s.candidate = c,
               s.verdict # "approved" PROVE s.lane = "antigravity"
    <3>1. s.verdict \in {"changes_requested", "blocked"} /\ s.lane \in {"sol", "antigravity"}
      BY <2>3, <2>6 DEF ReviewReceipt, Review!Verdicts, Review!Lanes
    <3>2. s.lane = "sol" => s \in Review!Canonical(c)
      BY <2>3, <2>6 DEF Review!Canonical
    <3> QED BY <2>2, <3>1, <3>2 DEF Review!Objects
  <2> QED BY <2>1, <2>4, <2>5, <2>6 DEF Review!EvidenceComplete
<1>2. ReviewPart => VerifiedIsEarned
  BY <1>1, Zenon DEF ReviewPart, VerifiedIsEarned
<1> QED BY <1>2, ReviewInit, ReviewStep, PTL DEF AllSpec

\* Further receipts never lift an objection.
LEMMA ObjectionStays ==
  ASSUME [Review!Next]_reviewed
  PROVE  Review!KeepsObjection
<1> SUFFICES ASSUME [Review!Next]_reviewed, NEW c \in Candidates,
                    Review!ReviewState(c) \in {"changes_requested", "blocked"}
             PROVE  Review!ReviewState(c)' \in {"changes_requested", "blocked"}
  BY DEF Review!KeepsObjection
<1>1. receipts \subseteq receipts'
  BY DEF Review!Next, Review!StartHandoff, Review!WriteManifest, Review!WriteHandoff,
         Review!HandoffDies, Review!Review, Review!CoreVerifies, reviewed
<1>2. Review!Objects(c, "changes_requested") \/ Review!Objects(c, "blocked")
  BY DEF Review!ReviewState
<1>3. Review!Objects(c, "changes_requested")' \/ Review!Objects(c, "blocked")'
  BY <1>1, <1>2 DEF Review!Objects, Review!Canonical
<1> QED BY <1>3 DEF Review!ReviewState

--------------------------------------------------------------------------------
\* What is settled stays, also for whoever comes late: an action's approval, dispatch and end
\* (external_action_contract.py:179-212), a ticket's sealed receipt and terminal
\* (codex_subprocess_adapter.py:72-109), and an objection (candidate_review.py:221-224).
THEOREM SettledStays == AllSpec => RecordsStand
<1> DEFINE Stands == /\ part = "actions" => Actions!KeepsReceipts
                     /\ part = "ticket" => Ticket!KeepsSealed
                     /\ part = "review" => Review!KeepsObjection
<1>1. ActionsPart /\ TicketPart /\ [AllNext]_AllVars => [Stands]_AllVars
  <2> SUFFICES ASSUME ActionsPart, TicketPart, [AllNext]_AllVars PROVE Stands
    OBVIOUS
  <2>1. /\ part = "actions" => [Actions!Next]_acted
        /\ part = "ticket" => [Ticket!Next]_ticketed
        /\ part = "review" => [Review!Next]_reviewed
    BY DEF AllNext, AllVars
  <2> QED BY <2>1, ReceiptsStay, SealStays, ObjectionStays, Zenon DEF ActionsPart, TicketPart
<1> QED BY <1>1, ActionsInit, ActionsStep, TicketInit, TicketStep, PTL DEF AllSpec, RecordsStand

--------------------------------------------------------------------------------
\* The leases and the requests for them; no two leases of one id, no two active of one repository.
Lease == [id : LeaseIds, ticket : Tickets, host : Hosts, repo : Repos, expires : Nat,
active : BOOLEAN]
LeaseRequest == [id : LeaseIds, ticket : Tickets, host : Hosts, repo : Repos, expires : Nat,
                 status : Hosting!Statuses]

LeaseInv ==
  /\ heartbeat \in [Hosts -> Hosting!Statuses] /\ clock \in Nat
  /\ leases \in Seq(Lease)
  /\ asking \in [Callers -> LeaseRequest \cup {Nil}]
  /\ Hosting!OneWriterPerRepo

\* A lease that ends changes nothing else and frees its repository.
LEMMA LeaseReplaced ==
  ASSUME NEW s \in Seq(Lease), NEW i \in DOMAIN s, NEW u \in Lease,
         u.id = s[i].id, u.repo = s[i].repo, ~u.active, NEW t, t = [s EXCEPT ![i] = u]
  PROVE  /\ t \in Seq(Lease) /\ DOMAIN t = DOMAIN s
         /\ \A j \in DOMAIN s : t[j].id = s[j].id /\ t[j].repo = s[j].repo
         /\ \A j \in DOMAIN s : t[j].active => s[j].active
<1>1. t \in Seq(Lease) /\ DOMAIN t = DOMAIN s
  BY ExceptSeq
<1>2. \A j \in DOMAIN s : t[j] = IF j = i THEN u ELSE s[j]
  OBVIOUS
<1> QED BY <1>1, <1>2

\* Whatever is asked in whatever order, a lease is added to a free repository under a new id.
LEMMA LeaseKept ==
  ASSUME LeaseInv, [Hosting!Next]_hosted
  PROVE  LeaseInv'
<1> USE DEF LeaseInv
<1>1. ASSUME NEW c \in Callers, Hosting!Acquire(c) PROVE LeaseInv'
  <2> DEFINE a == asking[c]
             new == [id |-> a.id, ticket |-> a.ticket, host |-> a.host, repo |-> a.repo,
                     expires |-> a.expires, active |-> TRUE]
  <2>1. a \in LeaseRequest
    BY <1>1 DEF Hosting!Acquire
  <2>2. new \in Lease /\ new.id = a.id /\ new.repo = a.repo
    BY <2>1 DEF Lease, LeaseRequest
  <2>3. heartbeat' = heartbeat /\ clock' = clock /\ asking' \in [Callers -> LeaseRequest \cup {Nil}]
    BY <1>1 DEF Hosting!Acquire
  <2>4. CASE leases' = leases
    BY <2>3, <2>4 DEF Hosting!OneWriterPerRepo
  <2>5. CASE leases' # leases
    <3>1. /\ leases' = Append(leases, new)
          /\ \A i \in DOMAIN leases : leases[i].id # a.id
          /\ \A i \in DOMAIN leases : ~(leases[i].active /\ leases[i].repo = a.repo)
      BY <1>1, <2>5 DEF Hosting!Acquire, Hosting!Free, Hosting!Active
    <3> HIDE DEF a, new
    <3>2. /\ leases' \in Seq(Lease) /\ DOMAIN leases' = DOMAIN leases \cup {Len(leases) + 1}
          /\ \A i \in DOMAIN leases : leases'[i] = leases[i]
          /\ leases'[Len(leases) + 1] = new
          /\ Len(leases) + 1 \notin DOMAIN leases
      BY <2>2, <3>1
    <3>3. Hosting!OneWriterPerRepo'
      BY <2>2, <3>1, <3>2 DEF Hosting!OneWriterPerRepo
    <3> QED BY <2>3, <3>2, <3>3
  <2> QED BY <2>4, <2>5
<1>2. ASSUME NEW c \in Callers, NEW id \in LeaseIds, NEW t \in Tickets, NEW h \in Hosts,
             NEW r \in Repos,
             Hosting!Prepare(c, id, t, h, r, 1)
      PROVE  LeaseInv'
  <2> DEFINE a == [id |-> id, ticket |-> t, host |-> h, repo |-> r, expires |-> clock + 1,
                   status |-> heartbeat[h]]
  <2>1. a \in LeaseRequest
    BY DEF LeaseRequest
  <2>2. asking' = [asking EXCEPT ![c] = a] /\ UNCHANGED <<heartbeat, leases, clock>>
    BY <1>2 DEF Hosting!Prepare
  <2> HIDE DEF a
  <2> QED BY <2>1, <2>2 DEF Hosting!OneWriterPerRepo
<1>3. ASSUME NEW id \in LeaseIds, NEW t \in Tickets, Hosting!RecoverRelease(id, t) PROVE LeaseInv'
  <2>1. PICK i \in DOMAIN leases : leases' = [leases EXCEPT ![i].active = FALSE]
    BY <1>3 DEF Hosting!RecoverRelease
  <2>2. UNCHANGED <<heartbeat, asking, clock>>
    BY <1>3 DEF Hosting!RecoverRelease
  <2>3. /\ leases' \in Seq(Lease) /\ DOMAIN leases' = DOMAIN leases
        /\ \A j \in DOMAIN leases : leases'[j].id = leases[j].id /\ leases'[j].repo = leases[j].repo
        /\ \A j \in DOMAIN leases : leases'[j].active => leases[j].active
    <3> DEFINE u == [leases[i] EXCEPT !.active = FALSE]
    <3>1. leases[i] \in Lease
      BY ElementOfSeq
    <3>2. u \in Lease /\ u.id = leases[i].id /\ u.repo = leases[i].repo /\ ~u.active
      BY <3>1 DEF Lease
    <3>3. leases' = [leases EXCEPT ![i] = u]
      BY <2>1
    <3> HIDE DEF u
    <3> QED BY <3>2, <3>3, LeaseReplaced
  <2>4. Hosting!OneWriterPerRepo'
    BY <2>3 DEF Hosting!OneWriterPerRepo
  <2> QED BY <2>2, <2>3, <2>4
<1>4. ASSUME NEW h \in Hosts, NEW s \in Hosting!Statuses, Hosting!RecordHeartbeat(h,
             s) PROVE LeaseInv'
  BY <1>4 DEF Hosting!RecordHeartbeat, Hosting!OneWriterPerRepo
<1>5. CASE Hosting!Tick
  BY <1>5 DEF Hosting!Tick, Hosting!OneWriterPerRepo
<1>6. CASE UNCHANGED hosted
  BY <1>6 DEF hosted, Hosting!OneWriterPerRepo
<1> QED BY <1>1, <1>2, <1>3, <1>4, <1>5, <1>6 DEF Hosting!Next

\* The leases exclude each other, whatever the behaviour is one of.
HostPart == part = "host" => LeaseInv

LEMMA HostInit == AllInit => HostPart
BY DEF AllInit, HostPart, LeaseInv, Hosting!Init, Hosting!Statuses, Hosting!OneWriterPerRepo

LEMMA HostStep ==
  ASSUME HostPart, [AllNext]_AllVars
  PROVE  HostPart'
<1>1. part' = part
  BY DEF AllNext, AllVars
<1>2. part = "host" => [Hosting!Next]_hosted
  BY DEF AllNext, AllVars
<1> QED BY <1>1, <1>2, LeaseKept, Zenon DEF HostPart

\* However requests race, hosts disconnect and leases expire, a repository has one active write
\* lease at a time and no id is given twice (host_coordination.py:124-192).
THEOREM LeasesExclude == AllSpec => []OneWriterPerRepo
<1>1. HostPart => OneWriterPerRepo
  BY DEF HostPart, OneWriterPerRepo, LeaseInv
<1> QED BY <1>1, HostInit, HostStep, PTL DEF AllSpec

--------------------------------------------------------------------------------
\* The ledger of work events.  One recorder at a time holds the lock, for a new event; the
\* candidate has its events in the ledger, or the ledger is torn for good.
WorkEvent == [id : EventIds, run : Runs, pattern : Patterns]
LessonCandidate == [pattern : Patterns, events : SUBSET EventIds, runs : SUBSET Runs]

EventTypes ==
  /\ lines \in Seq(WorkEvent) /\ tail \in {"line", "no newline", "torn"}
  /\ writing \in [Callers -> WorkEvent \cup {Nil}]
  /\ candidate \in LessonCandidate \cup {Nil}
  /\ tail = "no newline" => lines # <<>>

OneRecorder ==
  /\ \A i, j \in DOMAIN lines : i # j => lines[i].id # lines[j].id
  /\ \A r, s \in Callers : writing[r] # Nil /\ writing[s] # Nil => r = s
  /\ \A r \in Callers : writing[r] # Nil => Lessons!Fresh(writing[r].id)

TornForGood == tail = "torn" /\ Lessons!Unlocked
RestsOn(c, s) ==
  \A run \in c.runs : \E i \in DOMAIN s :
    s[i].pattern = c.pattern /\ s[i].run = run /\ s[i].id \in c.events

Supported ==
  candidate # Nil => /\ Lessons!Cardinality(candidate.runs) >= 2
                     /\ TornForGood \/ RestsOn(candidate, lines)

EventsInv == EventTypes /\ OneRecorder /\ Supported

\* One more line, or the last one spoilt.
LEMMA OneMoreLine ==
  ASSUME NEW s \in Seq(WorkEvent), NEW e \in WorkEvent, NEW t, t = Append(s, e)
  PROVE  /\ t \in Seq(WorkEvent) /\ t # <<>>
         /\ DOMAIN t = DOMAIN s \cup {Len(s) + 1} /\ Len(s) + 1 \notin DOMAIN s
         /\ \A i \in DOMAIN s : t[i] = s[i]
         /\ t[Len(s) + 1] = e
OBVIOUS

LEMMA OneMoreEvent ==
  ASSUME NEW s \in Seq(WorkEvent), NEW e \in WorkEvent, NEW t, t = Append(s, e),
         \A i \in DOMAIN s : s[i].id # e.id, \A i, j \in DOMAIN s : i # j => s[i].id # s[j].id
  PROVE  /\ \A i, j \in DOMAIN t : i # j => t[i].id # t[j].id
         /\ \A c \in LessonCandidate : RestsOn(c, s) => RestsOn(c, t)
<1>1. /\ DOMAIN t = DOMAIN s \cup {Len(s) + 1} /\ Len(s) + 1 \notin DOMAIN s
      /\ \A i \in DOMAIN s : t[i] = s[i]
      /\ t[Len(s) + 1] = e
  BY OneMoreLine
<1>2. \A i, j \in DOMAIN t : i # j => t[i].id # t[j].id
  BY <1>1
<1>3. \A c \in LessonCandidate : RestsOn(c, s) => RestsOn(c, t)
  BY <1>1 DEF RestsOn
<1> QED BY <1>2, <1>3

LEMMA OneLineLess ==
  ASSUME NEW s \in Seq(WorkEvent), s # <<>>
  PROVE  /\ Lessons!Front(s) \in Seq(WorkEvent)
         /\ DOMAIN Lessons!Front(s) \subseteq DOMAIN s
         /\ \A i \in DOMAIN Lessons!Front(s) : Lessons!Front(s)[i] = s[i]
<1>1. Lessons!Front(s) = SubSeq(s, 1, Len(s) - 1)
  BY DEF Lessons!Front
<1>2. Len(s) \in Nat /\ Len(s) # 0
  OBVIOUS
<1> QED BY <1>1, <1>2, SubSeqProperties

\* A ledger with a line more, which the candidate on disk still rests on.
Longer(t) ==
  /\ t \in Seq(WorkEvent) /\ t # <<>>
  /\ \A i, j \in DOMAIN t : i # j => t[i].id # t[j].id
  /\ candidate # Nil => RestsOn(candidate, t)

\* A line is added whole, by whoever holds the lock.
LEMMA LineAdded ==
  ASSUME EventsInv, NEW r \in Callers, writing[r] # Nil
  PROVE  Longer(Append(lines, writing[r]))
<1> DEFINE e == writing[r]
           t == Append(lines, e)
<1>1. lines \in Seq(WorkEvent) /\ e \in WorkEvent
  BY DEF EventsInv, EventTypes
<1>2. Lessons!Fresh(e.id)
  BY DEF EventsInv, OneRecorder
<1>3. candidate # Nil => candidate \in LessonCandidate /\ RestsOn(candidate, lines)
  BY DEF TornForGood, Lessons!Unlocked, EventsInv, EventTypes, Supported
<1> HIDE DEF e
<1>4. \A i \in DOMAIN lines : lines[i].id # e.id
  BY <1>2 DEF Lessons!Fresh
<1>5. \A i, j \in DOMAIN lines : i # j => lines[i].id # lines[j].id
  BY DEF EventsInv, OneRecorder
<1>6. t \in Seq(WorkEvent) /\ t # <<>>
  BY <1>1, OneMoreLine
<1>7. /\ \A i, j \in DOMAIN t : i # j => t[i].id # t[j].id
      /\ \A c \in LessonCandidate : RestsOn(c, lines) => RestsOn(c, t)
  BY <1>1, <1>4, <1>5, OneMoreEvent
<1> HIDE DEF t
<1>8. Longer(t)
  BY <1>3, <1>6, <1>7 DEF Longer
<1> QED BY <1>8 DEF t, e

LEMMA Unlocks ==
  ASSUME EventsInv, NEW r \in Callers, writing[r] # Nil, writing' = [writing EXCEPT ![r] = Nil],
         candidate' = candidate, tail' \in {"line", "no newline"},
         Longer(lines')
  PROVE  EventsInv'
<1>1. EventTypes'
  BY DEF EventsInv, EventTypes, Longer
<1>2. \A q \in Callers : writing'[q] = Nil
  BY DEF EventsInv, EventTypes, OneRecorder
<1>3. OneRecorder'
  BY <1>2 DEF OneRecorder, Longer
<1>4. Supported'
  BY DEF EventsInv, Supported, Longer, RestsOn
<1> QED BY <1>1, <1>3, <1>4 DEF EventsInv

LEMMA EventsKept ==
  ASSUME EventsInv, [Lessons!Next]_noted
  PROVE  EventsInv'
<1> USE DEF EventsInv
<1>1. ASSUME NEW r \in Callers, NEW id \in EventIds, NEW run \in Runs, NEW p \in Patterns,
             Lessons!RecordEvent(r, id, run, p)
      PROVE  EventsInv'
  <2> DEFINE e == [id |-> id, run |-> run, pattern |-> p]
  <2>1. /\ Lessons!Unlocked /\ tail # "torn" /\ Lessons!Fresh(id)
        /\ writing' = [writing EXCEPT ![r] = e] /\ UNCHANGED <<lines, tail, candidate>>
    BY <1>1 DEF Lessons!RecordEvent, Lessons!Readable
  <2>2. e \in WorkEvent /\ e.id = id
    BY DEF WorkEvent
  <2> HIDE DEF e
  <2>3. EventTypes'
    BY <2>1, <2>2 DEF EventTypes
  <2>4. \A q \in Callers : writing'[q] = IF q = r THEN e ELSE Nil
    BY <2>1 DEF EventTypes, Lessons!Unlocked
  <2>5. OneRecorder'
    BY <2>1, <2>2, <2>4 DEF OneRecorder, Lessons!Fresh
  <2>6. Supported'
    BY <2>1 DEF Supported, TornForGood, RestsOn
  <2> QED BY <2>3, <2>5, <2>6
<1>2. ASSUME NEW r \in Callers, Lessons!WriteStarts(r) PROVE EventsInv'
  <2>1. writing[r] # Nil /\ tail # "torn" /\ tail' = "torn" /\ candidate' = candidate
    BY <1>2 DEF Lessons!WriteStarts
  <2>2. CASE tail = "line"
    <3>1. lines' = lines /\ writing' = writing
      BY <1>2, <2>2 DEF Lessons!WriteStarts, EventTypes
    <3>2. EventTypes' /\ OneRecorder'
      BY <2>1, <3>1 DEF EventTypes, OneRecorder, Lessons!Fresh
    <3>3. Supported'
      BY <2>1, <3>1 DEF Supported, TornForGood, RestsOn
    <3> QED BY <3>2, <3>3
  <2>3. CASE tail # "line"
    <3>1. lines' = Lessons!Front(lines) /\ writing' = [writing EXCEPT ![r] = Nil] /\ lines # <<>>
      BY <1>2, <2>1, <2>3 DEF Lessons!WriteStarts, EventTypes
    <3>2. /\ lines' \in Seq(WorkEvent) /\ DOMAIN lines' \subseteq DOMAIN lines
          /\ \A i \in DOMAIN lines' : lines'[i] = lines[i]
      BY <3>1, OneLineLess DEF EventTypes
    <3>3. \A q \in Callers : writing'[q] = Nil
      BY <2>1, <3>1 DEF EventTypes, OneRecorder
    <3>4. EventTypes'
      BY <2>1, <3>1, <3>2 DEF EventTypes
    <3>5. OneRecorder'
      BY <3>2, <3>3 DEF OneRecorder
    <3>6. Supported'
      BY <2>1, <3>3 DEF Supported, TornForGood, Lessons!Unlocked
    <3> QED BY <3>4, <3>5, <3>6
  <2> QED BY <2>2, <2>3
<1>3. ASSUME NEW r \in Callers, Lessons!WriteEnds(r) PROVE EventsInv'
  <2>1. writing[r] # Nil /\ lines' = Append(lines, writing[r])
    BY <1>3 DEF Lessons!WriteEnds
  <2>2. Longer(lines')
    BY <2>1, LineAdded
  <2>3. writing' = [writing EXCEPT ![r] = Nil] /\ candidate' = candidate /\ tail' = "line"
    BY <1>3 DEF Lessons!WriteEnds
  <2> QED BY <2>1, <2>2, <2>3, Unlocks
<1>4. ASSUME NEW r \in Callers, Lessons!RecorderDies(r) PROVE EventsInv'
  <2>1. writing[r] # Nil /\ writing' = [writing EXCEPT ![r] = Nil] /\ candidate' = candidate
    BY <1>4 DEF Lessons!RecorderDies
  <2>2. CASE UNCHANGED <<lines, tail>>
    <3>1. \A q \in Callers : writing'[q] = Nil
      BY <2>1 DEF EventTypes, OneRecorder
    <3>2. EventTypes' /\ OneRecorder'
      BY <2>1, <2>2, <3>1 DEF EventTypes, OneRecorder
    <3>3. TornForGood => TornForGood'
      BY <2>2, <3>1 DEF TornForGood, Lessons!Unlocked
    <3>4. Supported'
      BY <2>1, <2>2, <3>3 DEF Supported, RestsOn
    <3> QED BY <3>2, <3>4
  <2>3. CASE lines' = Append(lines, writing[r]) /\ tail' = "no newline"
    <3>1. Longer(lines')
      BY <2>1, <2>3, LineAdded
    <3>2. tail' = "no newline"
      BY <2>3
    <3> QED BY <2>1, <3>1, <3>2, Unlocks
  <2> QED BY <1>4, <2>2, <2>3, Zenon DEF Lessons!RecorderDies
<1>5. ASSUME NEW p \in Patterns, Lessons!DeriveCandidate(p) PROVE EventsInv'
  <2> DEFINE c == [pattern |-> p, events |-> {lines[i].id : i \in Lessons!Matching(p)},
                   runs |-> Lessons!RunsOf(p)]
  <2>1. /\ Lessons!Cardinality(Lessons!RunsOf(p)) >= 2 /\ candidate' = c
        /\ UNCHANGED <<lines, tail, writing>>
    BY <1>5 DEF Lessons!DeriveCandidate, Lessons!Independent
  <2>0. lines \in Seq(WorkEvent)
    BY DEF EventTypes
  <2>2. \A i \in DOMAIN lines : lines[i] \in WorkEvent
    BY <2>0, ElementOfSeq
  <2>3. Lessons!RunsOf(p) \subseteq Runs
    BY <2>2 DEF Lessons!RunsOf, Lessons!Matching, WorkEvent
  <2>4. {lines[i].id : i \in Lessons!Matching(p)} \subseteq EventIds
    BY <2>2 DEF Lessons!Matching, WorkEvent
  <2>5. c \in LessonCandidate /\ c.runs = Lessons!RunsOf(p)
    BY <2>3, <2>4 DEF LessonCandidate
  <2>6. RestsOn(c, lines)
    BY DEF RestsOn, Lessons!RunsOf, Lessons!Matching
  <2> HIDE DEF c
  <2>7. EventTypes' /\ OneRecorder'
    BY <2>1, <2>5 DEF EventTypes, OneRecorder, Lessons!Fresh
  <2>8. Supported'
    BY <2>1, <2>5, <2>6 DEF Supported, RestsOn
  <2> QED BY <2>7, <2>8
<1>6. CASE UNCHANGED noted
  <2>1. EventTypes' /\ OneRecorder'
    BY <1>6 DEF noted, EventTypes, OneRecorder, Lessons!Fresh
  <2>2. Supported'
    BY <1>6 DEF noted, Supported, TornForGood, Lessons!Unlocked, RestsOn
  <2> QED BY <2>1, <2>2
<1> QED BY <1>1, <1>2, <1>3, <1>4, <1>5, <1>6 DEF Lessons!Next

\* The candidate rests on the ledger, whatever the behaviour is one of.
EventsPart == part = "events" => EventsInv

LEMMA EventsInit == AllInit => EventsPart
BY DEF AllInit, EventsPart, EventsInv, EventTypes, OneRecorder, Supported, Lessons!Init

LEMMA EventsStep ==
  ASSUME EventsPart, [AllNext]_AllVars
  PROVE  EventsPart'
<1>1. part' = part
  BY DEF AllNext, AllVars
<1>2. part = "events" => [Lessons!Next]_noted
  BY DEF AllNext, AllVars
<1> QED BY <1>1, <1>2, EventsKept, Zenon DEF EventsPart

\* Whatever recorders die while they write, an event is recorded once, and the candidate on disk
\* rests on events of two runs which the ledger holds as long as it can be read
\* (work_lifecycle.py:75-100, 140-161).
THEOREM CandidateRests == AllSpec => []CandidateIsJustified
<1>1. EventsInv => Lessons!CandidateIsJustified
  <2> SUFFICES ASSUME EventsInv PROVE Lessons!CandidateIsJustified
    OBVIOUS
  <2>1. \A i, j \in DOMAIN lines : i # j => lines[i].id # lines[j].id
    BY DEF EventsInv, OneRecorder
  <2>2. ASSUME candidate # Nil, tail # "torn" PROVE RestsOn(candidate, lines)
    BY <2>2 DEF EventsInv, Supported, TornForGood
  <2>3. candidate # Nil => Lessons!Cardinality(candidate.runs) >= 2
    BY DEF EventsInv, Supported
  <2> QED BY <2>1, <2>2, <2>3
          DEF Lessons!CandidateIsJustified, Lessons!Readable, Lessons!Matching, RestsOn
<1>2. EventsPart => CandidateIsJustified
  BY <1>1 DEF EventsPart, CandidateIsJustified
<1> QED BY <1>2, EventsInit, EventsStep, PTL DEF AllSpec
=================================================================================
