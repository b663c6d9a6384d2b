---------------------------- MODULE ExternalActions ----------------------------
(***************************************************************************)
(* The ledger of approved external actions of one run:                     *)
(* docs/sejong/scripts/external_action_contract.py, _receipt.py and        *)
(* _storage.py.  Each command replaces the ledger under a runtime lock,    *)
(* one step here; it has fixed its time, and read the approval record,     *)
(* before it waits for the lock.  A dispatcher performs an action once its *)
(* own record of the dispatch has been accepted.                           *)
(***************************************************************************)
EXTENDS Naturals, FiniteSets

CONSTANTS
  Procs,       \* dispatchers and their resumptions
  Actions,     \* action ids
  KeyOf,       \* the idempotency key of each action's intent
  MaxTime,     \* bound on the clock
  Window,      \* MAX_APPROVAL_WINDOW, in ticks
  MaxAge,      \* MAX_APPROVAL_RECORD_AGE, in ticks
  Nil

Times == 0..MaxTime
Statuses == {"none", "authorized", "dispatched", "completed", "failed", "cancelled"}
Terminal == {"completed", "failed", "cancelled"}
Requested == Terminal \cup {"dispatched"}

VARIABLES
  honest,      \* do callers stamp their records with the time it is?  (never changes)
  now,         \* the clock
  ledger,      \* the receipt of each action, status "none" when there is none
  pc, job,     \* what each process does next, and its request
  performed,   \* how often the effect behind each key has been performed
  premature    \* ghost: actions cancelled by a request older than their authorization

vars == <<honest, now, ledger, pc, job, performed, premature>>

NoJob == [action |-> Nil, for |-> Nil, issued |-> 0, expires |-> 0, at |-> 0,
          status |-> "none", known |-> FALSE]
NoReceipt == [status |-> "none", issued |-> 0, expires |-> 0, dispatched |-> Nil, terminal |-> Nil]
Keys == {KeyOf[a] : a \in Actions}

Init ==
  /\ honest \in BOOLEAN
  /\ now = 0
  /\ ledger = [a \in Actions |-> NoReceipt]
  /\ pc = [p \in Procs |-> "idle"]
  /\ job = [p \in Procs |-> NoJob]
  /\ performed = [k \in Keys |-> 0]
  /\ premature = {}

Recorded == {a \in Actions : ledger[a].status # "none"}

--------------------------------------------------------------------------------
\* load_ledger validates before every command.
TimesValid(r) ==
  CASE r.status = "authorized" -> r.dispatched = Nil /\ r.terminal = Nil
    [] r.status = "dispatched" ->
         r.dispatched \in r.issued..r.expires /\ r.terminal = Nil
    [] r.status \in {"completed", "failed"} ->
         /\ r.dispatched \in r.issued..r.expires
         /\ r.terminal # Nil /\ r.terminal >= r.dispatched
    [] OTHER -> r.dispatched = Nil /\ r.terminal # Nil /\ r.terminal >= r.issued

Loads ==
  /\ \A a \in Recorded : /\ ledger[a].expires > ledger[a].issued
                         /\ ledger[a].expires - ledger[a].issued <= Window
                         /\ TimesValid(ledger[a])
  /\ \A a, b \in Recorded : KeyOf[a] = KeyOf[b] => a = b

--------------------------------------------------------------------------------
Idle(p) == pc' = [pc EXCEPT ![p] = "idle"] /\ job' = [job EXCEPT ![p] = NoJob]

\* The request is built from whatever approval record the caller names, written for
\* action b, and stamped, before the lock is asked for.
Prepare(p, a, b, issued, expires) ==
  /\ pc[p] = "idle"
  /\ job' = [job EXCEPT ![p] = [NoJob EXCEPT !.action = a, !.for = b, !.issued = issued,
                                           !.expires = expires, !.at = now]]
  /\ pc' = [pc EXCEPT ![p] = "authorize"]
  /\ UNCHANGED <<honest, now, ledger, performed, premature>>

RequestValid(j) ==
  /\ j.expires > j.issued /\ j.expires - j.issued <= Window
  /\ j.at >= j.issued /\ j.at <= j.expires
  /\ j.at - j.issued <= MaxAge
  /\ j.for = j.action

\* Mutant: only the action id is looked for, not the idempotency key.
UnusedId(a) == a \notin Recorded

Unused(a) == a \notin Recorded /\ \A b \in Recorded : KeyOf[b] # KeyOf[a]

Authorize(p) ==
  LET j == job[p] IN
  /\ pc[p] = "authorize"
  /\ Loads /\ RequestValid(j) /\ Unused(j.action)
  /\ ledger' = [ledger EXCEPT ![j.action] =
                  [NoReceipt EXCEPT !.status = "authorized",
                                    !.issued = j.issued, !.expires = j.expires]]
  /\ Idle(p)
  /\ UNCHANGED <<honest, now, performed, premature>>

AuthorizeRefused(p) ==
  /\ pc[p] = "authorize"
  /\ ~(Loads /\ RequestValid(job[p]) /\ Unused(job[p].action))
  /\ Idle(p)
  /\ UNCHANGED <<honest, now, ledger, performed, premature>>

\* Mutant: an action that failed may be dispatched again.
AllowedRetry(r, status, at) ==
  \/ r.status \in {"authorized", "failed"} /\ status = "dispatched" /\ at \in r.issued..r.expires
  \/ r.status = "authorized" /\ status = "cancelled"
  \/ r.status = "dispatched" /\ status \in {"completed", "failed"} /\ at >= r.dispatched

\* Mutant: a late result replaces an earlier one.
AllowedLate(r, status, at) ==
  \/ r.status = "authorized" /\ status = "dispatched" /\ at \in r.issued..r.expires
  \/ r.status = "authorized" /\ status = "cancelled"
  \/ r.status \in {"dispatched", "failed"} /\ status \in {"completed", "failed"}
     /\ at >= r.dispatched

Allowed(r, status, at) ==
  \/ r.status = "authorized" /\ status = "dispatched" /\ at \in r.issued..r.expires
  \/ r.status = "authorized" /\ status = "cancelled"
  \/ r.status = "dispatched" /\ status \in {"completed", "failed"} /\ at >= r.dispatched

Stamped(r, status, at) ==
  IF status = "dispatched"
  THEN [r EXCEPT !.status = status, !.dispatched = at]
  ELSE [r EXCEPT !.status = status, !.terminal = at]

\* record fixes --at before it asks for the lock; an honest caller says what time it is.
PrepareRecord(p, a, status, at) ==
  /\ pc[p] = "idle" /\ (honest => at = now)
  /\ job' = [job EXCEPT ![p] = [NoJob EXCEPT !.action = a, !.status = status, !.at = at,
                                           !.known = a \in Recorded]]
  /\ pc' = [pc EXCEPT ![p] = "record"]
  /\ UNCHANGED <<honest, now, ledger, performed, premature>>

Accepted(j) == Loads /\ j.action \in Recorded /\ Allowed(ledger[j.action], j.status, j.at)

\* Whoever recorded the dispatch performs the action next.
Record(p) ==
  LET j == job[p] IN
  /\ pc[p] = "record" /\ Accepted(j)
  /\ ledger' = [ledger EXCEPT ![j.action] = Stamped(@, j.status, j.at)]
  /\ premature' = IF j.status = "cancelled" /\ ~j.known THEN premature \cup {j.action}
                  ELSE premature
  /\ IF j.status = "dispatched" THEN pc' = [pc EXCEPT ![p] = "perform"] /\ UNCHANGED job
     ELSE Idle(p)
  /\ UNCHANGED <<honest, now, performed>>

RecordRefused(p) ==
  /\ pc[p] = "record" /\ ~Accepted(job[p])
  /\ Idle(p)
  /\ UNCHANGED <<honest, now, ledger, performed, premature>>

Perform(p) ==
  /\ pc[p] = "perform"
  /\ performed' = [performed EXCEPT ![KeyOf[job[p].action]] = @ + 1]
  /\ Idle(p)
  /\ UNCHANGED <<honest, now, ledger, premature>>

Die(p) ==
  /\ pc[p] # "idle"
  /\ Idle(p)
  /\ UNCHANGED <<honest, now, ledger, performed, premature>>

Tick ==
  /\ now < MaxTime
  /\ now' = now + 1
  /\ UNCHANGED <<honest, ledger, pc, job, performed, premature>>

Next ==
  \/ Tick
  \/ \E p \in Procs :
       \/ \E a, b \in Actions, issued \in Times, expires \in Times \ {0} :
            Prepare(p, a, b, issued, expires)
       \/ \E a \in Actions, status \in Requested, at \in Times : PrepareRecord(p, a, status, at)
       \/ Authorize(p) \/ AuthorizeRefused(p) \/ Record(p) \/ RecordRefused(p)
       \/ Perform(p) \/ Die(p)

Spec == Init /\ [][Next]_vars

--------------------------------------------------------------------------------
\* Receipts carry a status of the enumeration and times where times belong
\* (external_action_contract.py ActionStatus, Receipt).
TypeOK ==
  /\ honest \in BOOLEAN /\ now \in Times
  /\ ledger \in [Actions -> [status : Statuses, issued : Times,
                             expires : Times,
                             dispatched : Times \cup {Nil}, terminal : Times \cup {Nil}]]
  /\ pc \in [Procs -> {"idle", "authorize", "record", "perform"}]
  /\ job \in [Procs -> [action : Actions \cup {Nil}, for : Actions \cup {Nil},
                        issued : Times, expires : Times, at : Times,
                        status : Requested \cup {"none"}, known : BOOLEAN]]
  /\ performed \in [Keys -> Nat] /\ premature \in SUBSET Actions

\* "must remain safe to resume" (SECURITY.md:103): however often dispatchers die, are
\* resumed and race one another, and whatever they name the action, the effect behind
\* an idempotency key is performed at most once, and only on a recorded dispatch
\* inside an approval window (external_action_contract.py:141-212).
AtMostOnce ==
  \A k \in Keys :
    /\ performed[k] <= 1
    /\ performed[k] = 1 =>
         \E a \in Recorded :
           /\ KeyOf[a] = k /\ ledger[a].dispatched # Nil
           /\ ledger[a].dispatched \in ledger[a].issued..ledger[a].expires
           /\ ledger[a].expires - ledger[a].issued <= Window

\* Receipts are well formed, and each effect happens at most once, inside its approval
\* window, however dispatchers die and race (external_action_contract.py:141-212).
EffectInv == TypeOK /\ AtMostOnce

\* Receipts cancelled at a time before their approval, which record writes and no command
\* loads (transition:188-202, validate_receipt_timestamps:302-306).
BackDated ==
  {a \in Recorded : ledger[a].status = "cancelled" /\ ledger[a].terminal < ledger[a].issued}

\* Nothing but a back-dated cancellation leaves a ledger that the next command cannot load
\* (storage load_ledger:103-121), whatever times callers give and however late a command
\* gets the lock.  A caller who gives the time it is writes one only when it asked before
\* the action was authorized: while it waited for the lock, authorize overtook it.
LedgerLoads ==
  /\ BackDated = {} => Loads
  /\ honest => BackDated \subseteq premature

\* Both, with a clock that counts from zero (external_action_contract.py:57-68).
LedgerIsSound == LedgerLoads /\ EffectInv

ClockCounts == MaxTime \in Nat /\ Window \in Nat /\ MaxAge \in Nat /\ Nil \notin Nat

\* A receipt keeps its approval, its dispatch time and its terminal state: no retry
\* and no late record of another process rewrites them (transition, 179-212).
KeepsReceipts ==
  \A a \in Recorded :
    LET old == ledger[a]  new == ledger'[a] IN
    /\ old.status \in Terminal => new = old
    /\ new.issued = old.issued /\ new.expires = old.expires
    /\ old.dispatched # Nil => new.dispatched = old.dispatched
    /\ new.status # "none"
================================================================================
