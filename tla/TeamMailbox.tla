------------------------------ MODULE TeamMailbox ------------------------------
(***************************************************************************)
(* What the workers of one TeamExecutor run share: its rounds, its mailbox *)
(* and its scope leases, docs/sejong/scripts/team_executor.py.  Rounds,    *)
(* mailbox and leases are written under the flock of the run directory     *)
(* (run_state_lock), which dies with its holder.  send-message looks at    *)
(* the rounds before it takes the lock; open-round writes the delegation   *)
(* ledger of the Core first and rounds.json afterwards.                    *)
(***************************************************************************)
EXTENDS Naturals, Sequences, SequencesExt

CONSTANTS
  Workers,     \* the registered workers
  Lead,        \* the lead, an endpoint that is no worker
  Procs,       \* processes that run commands
  RoundIds, MessageIds, LeaseIds,
  Scopes,      \* the write scopes callers name
  Files,       \* paths a scope may cover: sequences of names, a name a sequence
  MaxRounds,   \* rounds the Core's budget allows
  Nil

\* A name is a sequence of letters, given by their numbers.
ASSUME TeamAssumption ==
  /\ Nil \notin Procs \cup MessageIds
  /\ \A s \in Scopes : s \in [dirs : Seq(Seq(Nat)), star : BOOLEAN, part : Seq(Nat)]
  /\ Files \subseteq Seq(Seq(Nat))

VARIABLES
  rounds,      \* rounds.json: sequence of [id, open]
  coreRounds,  \* rounds_started of the linked delegation ledger, waves left out
  opener,      \* the process between the two writes of open-round, or Nil
  torn,        \* has one died there?
  mailbox,     \* mailbox.jsonl
  leases,      \* leases.json
  sending,     \* the message each process is about to append, or Nil
  got          \* what each endpoint has received, in order

vars == <<rounds, coreRounds, opener, torn, mailbox, leases, sending, got>>

Endpoints == Workers \cup {Lead}

Init ==
  /\ rounds = <<>> /\ coreRounds = <<>> /\ opener = Nil /\ torn = FALSE
  /\ mailbox = <<>> /\ leases = <<>>
  /\ sending = [p \in Procs |-> Nil]
  /\ got = [e \in Endpoints |-> <<>>]

Ids(s) == [i \in DOMAIN s |-> s[i].id]
IdSet(s) == {s[i].id : i \in DOMAIN s}
OpenRounds == {rounds[i].id : i \in {j \in DOMAIN rounds : rounds[j].open}}
Unlocked == opener = Nil
Linked == Ids(rounds) = coreRounds      \* linked_round_id_failure

--------------------------------------------------------------------------------
(* Scopes.  A scope is a path, or a path whose last name ends in "*", which *)
(* matches across "/" as fnmatch does.                                      *)

Glob(s) == s.star
Covers(s, f) ==
  /\ IsPrefix(s.dirs, f)
  /\ s.star => Len(f) > Len(s.dirs) /\ IsPrefix(s.part, f[Len(s.dirs) + 1])

\* literal_scope_prefix: the directories before the first glob character; when there
\* is none before it, the name's own beginning stands for a path.
LiteralPrefix(s) ==
  IF ~s.star \/ s.dirs # <<>> \/ s.part = <<>> THEN s.dirs ELSE <<s.part>>

PathsOverlap(a, b) == IsPrefix(a, b) \/ IsPrefix(b, a)

\* Mutant: two scopes overlap only when one is the other.
SameScope(s, t) == s = t

ScopesOverlap(s, t) ==
  \/ PathsOverlap(LiteralPrefix(s), LiteralPrefix(t))
  \/ s.star /\ ~t.star /\ Covers(s, t.dirs)
  \/ t.star /\ ~s.star /\ Covers(t, s.dirs)

--------------------------------------------------------------------------------
(* Rounds                                                                  *)

\* open-round, up to and including start_delegation_round in the Core.
OpenRound(p, r) ==
  /\ Unlocked /\ sending[p] = Nil
  /\ r \notin IdSet(rounds) /\ Linked
  /\ r \notin Range(coreRounds) /\ Len(coreRounds) < MaxRounds
  /\ coreRounds' = Append(coreRounds, r)
  /\ opener' = p
  /\ UNCHANGED <<rounds, torn, mailbox, leases, sending, got>>

RoundWritten ==
  /\ ~Unlocked
  /\ rounds' = Append(rounds, [id |-> Last(coreRounds), open |-> TRUE])
  /\ opener' = Nil
  /\ UNCHANGED <<coreRounds, torn, mailbox, leases, sending, got>>

\* write_json raised OSError: cancel_delegation_round.
WriteFails ==
  /\ ~Unlocked
  /\ coreRounds' = Front(coreRounds)
  /\ opener' = Nil
  /\ UNCHANGED <<rounds, torn, mailbox, leases, sending, got>>

OpenerDies ==
  /\ ~Unlocked
  /\ opener' = Nil /\ torn' = TRUE
  /\ UNCHANGED <<rounds, coreRounds, mailbox, leases, sending, got>>

CloseRound(r) ==
  /\ Unlocked /\ Linked /\ r \in OpenRounds
  /\ rounds' = [i \in DOMAIN rounds |->
                  IF rounds[i].id = r THEN [rounds[i] EXCEPT !.open = FALSE] ELSE rounds[i]]
  /\ UNCHANGED <<coreRounds, opener, torn, mailbox, leases, sending, got>>

--------------------------------------------------------------------------------
(* The mailbox                                                             *)

\* What send-message settles before it asks for the lock: the round is open now, and
\* the recipients are the lead or workers, not both (infer_direction).  The sender is
\* a registered worker; its text is free.
PrepareMessage(p, to, r, target, id) ==
  /\ sending[p] = Nil /\ opener # p
  /\ r \in OpenRounds
  /\ to = {Lead} \/ (to # {} /\ to \subseteq Workers)
  /\ sending' = [sending EXCEPT ![p] =
       [id |-> id, round |-> r, target |-> target, thread |-> Nil, to |-> to]]
  /\ UNCHANGED <<rounds, coreRounds, opener, torn, mailbox, leases, got>>

ById(id) == CHOOSE m \in Range(mailbox) : m.id = id
\* Mutant: the id was compared before the lock was taken.
SendableAgain(m) == m.target \in IdSet(mailbox) \cup {Nil}

Sendable(m) == m.id \notin IdSet(mailbox) /\ m.target \in IdSet(mailbox) \cup {Nil}

Threaded(m) ==
  [m EXCEPT !.thread = IF m.target = Nil THEN m.id ELSE ById(m.target).thread]

AppendMessage(p) ==
  /\ sending[p] # Nil /\ Unlocked
  /\ mailbox' = IF Sendable(sending[p]) THEN Append(mailbox, Threaded(sending[p])) ELSE mailbox
  /\ sending' = [sending EXCEPT ![p] = Nil]
  /\ UNCHANGED <<rounds, coreRounds, opener, torn, leases, got>>

SenderDies(p) ==
  /\ sending[p] # Nil
  /\ sending' = [sending EXCEPT ![p] = Nil]
  /\ UNCHANGED <<rounds, coreRounds, opener, torn, mailbox, leases, got>>

\* Mutant: the message named as the last one is delivered again.
ResumeAt(e) ==
  IF got[e] = <<>> THEN 0
  ELSE SelectInSeq(mailbox, LAMBDA m : m.id = Last(got[e]).id) - 1
\* Where a reader whose last message was got[e] goes on: after the first line with
\* that id (receive_messages, include).
Resume(e) ==
  IF got[e] = <<>> THEN 0
  ELSE SelectInSeq(mailbox, LAMBDA m : m.id = Last(got[e]).id)

AddressedTo(e, s) == FoldLeft(LAMBDA r, m : IF e \in m.to THEN Append(r, m) ELSE r, <<>>, s)

\* receive-messages --after-message-id <the last one received>
Receive(e) ==
  /\ got' = [got EXCEPT ![e] =
       @ \o AddressedTo(e, SubSeq(mailbox, Resume(e) + 1, Len(mailbox)))]
  /\ UNCHANGED <<rounds, coreRounds, opener, torn, mailbox, leases, sending>>

--------------------------------------------------------------------------------
(* Scope leases                                                            *)

Active == {i \in DOMAIN leases : leases[i].active}

\* A worker's own leases may overlap.
Conflicts(w, scopes) ==
  \E i \in Active : /\ leases[i].owner # w
                    /\ \E s \in scopes, t \in leases[i].scopes : ScopesOverlap(s, t)

AcquireLease(w, id, scopes) ==
  /\ Unlocked
  /\ scopes # {} /\ id \notin IdSet(leases) /\ ~Conflicts(w, scopes)
  /\ leases' = Append(leases, [id |-> id, owner |-> w, scopes |-> scopes, active |-> TRUE])
  /\ UNCHANGED <<rounds, coreRounds, opener, torn, mailbox, sending, got>>

ReleaseLease(id) ==
  /\ Unlocked
  /\ \E i \in Active : leases[i].id = id /\ leases' = [leases EXCEPT ![i].active = FALSE]
  /\ UNCHANGED <<rounds, coreRounds, opener, torn, mailbox, sending, got>>

--------------------------------------------------------------------------------
Next ==
  \/ RoundWritten \/ WriteFails \/ OpenerDies
  \/ \E r \in RoundIds : CloseRound(r) \/ \E p \in Procs : OpenRound(p, r)
  \/ \E p \in Procs : AppendMessage(p) \/ SenderDies(p)
  \/ \E p \in Procs, to \in SUBSET Endpoints, r \in RoundIds,
        target \in MessageIds \cup {Nil}, id \in MessageIds :
       PrepareMessage(p, to, r, target, id)
  \/ \E e \in Endpoints : Receive(e)
  \/ \E id \in LeaseIds :
       ReleaseLease(id) \/ \E w \in Workers, s \in SUBSET Scopes : AcquireLease(w, id, s)

Spec == Init /\ [][Next]_vars

--------------------------------------------------------------------------------
(* What `team_executor.py check` reports of these files.                   *)

RoundFailure == ~Linked
MessageFailure(i) ==
  LET m == mailbox[i]  seen == {mailbox[j].id : j \in 1..(i - 1)} IN
  \/ m.id \in seen
  \/ m.target # Nil /\ m.target \notin seen
  \/ m.thread = Nil
  \/ m.round \notin IdSet(rounds)
  \/ m.to = {} \/ ~(m.to = {Lead} \/ m.to \subseteq Workers)

\* The loop keeps, for each scope, the owner of the last lease that names it, and
\* compares every further lease with those.
LastOwner(s, i) ==
  LET named == {j \in Active : j < i /\ s \in leases[j].scopes} IN
  IF named = {} THEN Nil ELSE leases[CHOOSE j \in named : \A k \in named : k <= j].owner
LeaseFailure ==
  \E i \in Active, s \in Scopes :
    /\ LastOwner(s, i) \notin {Nil, leases[i].owner}
    /\ \E t \in leases[i].scopes : ScopesOverlap(s, t)

TypeOK ==
  /\ rounds \in Seq([id : RoundIds, open : BOOLEAN]) /\ coreRounds \in Seq(RoundIds)
  /\ opener \in Procs \cup {Nil} /\ torn \in BOOLEAN
  /\ IdSet(mailbox) \subseteq MessageIds /\ IdSet(leases) \subseteq LeaseIds
  /\ DOMAIN sending = Procs /\ DOMAIN got = Endpoints

\* Whatever the order of commands, the check of the run directory finds nothing that a
\* command caused (check_run:1479-1617): ids are unique, replies follow what they
\* answer, every message is of a round that exists, and the rounds of the delegation
\* ledger are the run's own unless an open-round is between its two writes or died there.
CheckAccepts ==
  /\ TypeOK
  /\ \A i \in DOMAIN mailbox : ~MessageFailure(i)
  /\ ~LeaseFailure
  /\ RoundFailure => ~Unlocked \/ torn

\* "no two workers may write overlapping file scopes at the same time"
\* (docs/sejong/TEAM_EXECUTOR.md:469): no file is covered by active leases of two
\* workers (acquire_lease:1269-1308).
OneWriterPerFile ==
  \A i, j \in Active :
    leases[i].owner # leases[j].owner =>
      \A s \in leases[i].scopes, t \in leases[j].scopes, f \in Files :
        ~(Covers(s, f) /\ Covers(t, f))

\* A reader that names its last message as the cursor is given every message addressed
\* to it once, in the order of the mailbox (receive_messages:1620-1663).
ReceivedOnceInOrder ==
  \A e \in Endpoints : IsPrefix(got[e], AddressedTo(e, mailbox))
================================================================================
