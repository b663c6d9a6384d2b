------------------------------ MODULE SessionProofs ------------------------------
(***************************************************************************)
(* Proofs about one session's work: its execution run for any todos,       *)
(* receipts and criteria, the hooks for any updates of the Context, the    *)
(* continuity capsules for any commands, planning sessions for any         *)
(* answers, the choice of a route for any task and host, and workflow runs *)
(* for any evidence.                                                       *)
(***************************************************************************)
EXTENDS MCSession, SequenceTheorems, FiniteSetTheorems, TLAPS

--------------------------------------------------------------------------------
(* The execution run: what is true of every record                          *)

\* run_failures but for the attached receipts, whose ledgers change on their own.
Rules(r) ==
  /\ \A t \in Known(r) : ValidTodo(r, t)
  /\ ValidLinks(r)
  /\ \A i \in DOMAIN r.ledger : r.ledger[i].todo \in Known(r)
  /\ r.status = "completed" => ValidCompletion(r)

\* Whoever loses a completion loses its score with it.
Scored(r) ==
  /\ r.status = "active" => r.score = "none"
  /\ \A t \in Todos : r.todo[t] # "completed" => r.todoScore[t] = "none"

Formed(r) == r \in Run /\ Rules(r) /\ Scored(r)

RecordsInv ==
  /\ run # Absent => Formed(run)
  /\ copy \in [Procs -> Run \cup {Absent}]
  /\ \A p \in Procs : copy[p] # Absent => Formed(copy[p])
  /\ checkpoint # Absent => Formed(checkpoint)
  /\ starts \in 0..MaxStarts /\ sound \subseteq Receipts

LEMMA ValidIsRules == ASSUME NEW r PROVE Valid(r) <=> r.fanIns \subseteq sound /\ Rules(r)
BY DEF Valid, Rules

LEMMA AbsentIsNoRun == Absent \notin Run
BY ConstantsAssumption

\* The second at which a record was written is no part of any rule.
LEMMA StampIsFree ==
  ASSUME NEW r \in Run, Rules(r), Scored(r), NEW second \in Seconds, run # Absent => run \in Run
  PROVE  Formed([r EXCEPT !.updated = second])
<1> DEFINE q == [r EXCEPT !.updated = second]
<1>1. second \in 0..MaxNow
  BY ConstantsAssumption DEF Seconds, Run
<1>2. /\ q \in Run /\ q.status = r.status /\ q.score = r.score /\ q.todo = r.todo
      /\ q.todoScore = r.todoScore /\ q.links = r.links /\ q.ledger = r.ledger
      /\ q.evidence = r.evidence /\ q.blockers = r.blockers
  BY <1>1 DEF Run
<1> HIDE DEF q
<1>3. Known(q) = Known(r) /\ OpenTodos(q) = OpenTodos(r)
  BY <1>2 DEF Known, OpenTodos
<1>4. \A t \in Todos : LatestPassed(q, t) <=> LatestPassed(r, t)
  BY <1>2 DEF LatestPassed
<1>5. \A t \in Todos : ValidTodo(r, t) => ValidTodo(q, t)
  BY <1>2, <1>4 DEF ValidTodo
<1>6. \A t \in Todos : Resolved(r, t) => Resolved(q, t)
  BY <1>2, <1>3 DEF Resolved
<1>7. Known(r) \subseteq Todos
  BY DEF Known
<1>8. \A t \in Known(q) : ValidTodo(q, t)
  BY <1>3, <1>5, <1>7 DEF Rules
<1>9. ValidLinks(q)
  BY <1>2, <1>3 DEF Rules, ValidLinks
<1>10. \A i \in DOMAIN q.ledger : q.ledger[i].todo \in Known(q)
  BY <1>2, <1>3 DEF Rules
<1>11. q.status = "completed" => ValidCompletion(q)
  BY <1>2, <1>3, <1>6, <1>7 DEF Rules, ValidCompletion
<1>12. Scored(q)
  BY <1>2 DEF Scored
<1>13. Formed(q)
  BY <1>2, <1>8, <1>9, <1>10, <1>11, <1>12 DEF Formed, Rules
<1> QED BY <1>13 DEF q

--------------------------------------------------------------------------------
(* What the commands make of a record                                       *)

\* Another attempt leaves the last one of every other todo, and is the last of its own.
LEMMA LatestAfter ==
  ASSUME NEW r, NEW q, NEW t \in Todos, NEW passed \in BOOLEAN, r.ledger \in Seq(Attempt),
         q.ledger = Append(r.ledger, [todo |-> t, passed |-> passed])
  PROVE  /\ \A u \in Todos \ {t} : LatestPassed(q, u) <=> LatestPassed(r, u)
         /\ ~passed => ~LatestPassed(q, t)
<1> DEFINE n == Len(r.ledger)
<1>1. /\ n \in Nat /\ DOMAIN r.ledger = 1..n /\ DOMAIN q.ledger = 1..(n + 1)
      /\ \A i \in 1..n : q.ledger[i] = r.ledger[i]
      /\ q.ledger[n + 1] = [todo |-> t, passed |-> passed]
  OBVIOUS
<1> HIDE DEF n
<1>2. ASSUME NEW u \in Todos \ {t}
      PROVE  LatestPassed(q, u) <=> LatestPassed(r, u)
  <2>1. \A i \in 1..(n + 1) : q.ledger[i].todo = u => i \in 1..n /\ r.ledger[i].todo = u
    BY <1>1, <1>2
  <2>2. \A i \in 1..n : r.ledger[i].todo = u => i \in 1..(n + 1) /\ q.ledger[i].todo = u
    BY <1>1
  <2>3. ASSUME NEW i \in 1..n, r.ledger[i] = [todo |-> u, passed |-> TRUE],
               \A j \in 1..n : r.ledger[j].todo = u => j <= i
        PROVE  LatestPassed(q, u)
    <3>1. i \in 1..(n + 1) /\ q.ledger[i] = [todo |-> u, passed |-> TRUE]
      BY <1>1, <2>3
    <3> QED BY <3>1, <2>1, <2>3, <1>1 DEF LatestPassed
  <2>4. ASSUME NEW i \in 1..(n + 1), q.ledger[i] = [todo |-> u, passed |-> TRUE],
               \A j \in 1..(n + 1) : q.ledger[j].todo = u => j <= i
        PROVE  LatestPassed(r, u)
    <3>1. q.ledger[i].todo = u
      BY <2>4, [todo |-> u, passed |-> TRUE].todo = u, Zenon
    <3>2. i \in 1..n /\ r.ledger[i] = [todo |-> u, passed |-> TRUE]
      BY <3>1, <2>1, <2>4, <1>1
    <3> QED BY <3>2, <2>2, <2>4, <1>1 DEF LatestPassed
  <2> QED BY <2>3, <2>4, <1>1 DEF LatestPassed
<1>3. ASSUME ~passed
      PROVE  ~LatestPassed(q, t)
  <2>1. q.ledger[n + 1].todo = t /\ n + 1 \in DOMAIN q.ledger
    BY <1>1
  <2>2. SUFFICES ASSUME NEW i \in DOMAIN q.ledger, q.ledger[i] = [todo |-> t, passed |-> TRUE], n + 1 <= i
                 PROVE  FALSE
    BY <2>1 DEF LatestPassed
  <2>3. i = n + 1
    BY <1>1, <2>2
  <2>4. q.ledger[i].passed = TRUE /\ q.ledger[i].passed = passed
    BY <1>1, <2>2, <2>3
  <2> QED BY <2>4, <1>3
<1> QED BY <1>2, <1>3

LEMMA ReopenedRecord ==
  ASSUME NEW r \in Run
  PROVE  LET o == Reopened(r) IN
         /\ o \in Run /\ o.status = "active" /\ o.score = "none"
         /\ o.criteria = r.criteria /\ o.todo = r.todo /\ o.todoScore = r.todoScore
         /\ o.links = r.links /\ o.ledger = r.ledger /\ o.fanIns = r.fanIns
<1> DEFINE o == Reopened(r)
<1>1. o = [r EXCEPT !.status = "active", !.score = "none"]
  BY DEF Reopened
<1> HIDE DEF o
<1>2. /\ o \in Run /\ o.status = "active" /\ o.score = "none"
      /\ o.criteria = r.criteria /\ o.todo = r.todo /\ o.todoScore = r.todoScore
      /\ o.links = r.links /\ o.ledger = r.ledger /\ o.fanIns = r.fanIns
  BY <1>1 DEF Run, Status, Score
<1> QED BY <1>2 DEF o

LEMMA AttemptedRecord ==
  ASSUME NEW r \in Run, Scored(r), NEW t \in Known(r), NEW passed \in BOOLEAN
  PROVE  LET q == Attempted(r, t, passed) IN
         /\ q \in Run /\ Scored(q) /\ Known(q) = Known(r) /\ q.links = r.links
         /\ q.ledger = Append(r.ledger, [todo |-> t, passed |-> passed])
         /\ q.criteria = r.criteria /\ q.fanIns = r.fanIns
         /\ \A u \in Todos \ {t} : q.todo[u] = r.todo[u] /\ q.todoScore[u] = r.todoScore[u]
         /\ r.todo[t] = "replaced" /\ (passed \/ r.status = "active") => q.todo[t] = "replaced"
         /\ r.todo[t] # "replaced" => q.todo[t] # "replaced"
         /\ ~passed => q.status = "active" /\ q.todo[t] # "completed"
         /\ q.status = "completed" => r.status = "completed"
<1> DEFINE q == Attempted(r, t, passed)
<1> DEFINE kept == [r EXCEPT !.ledger = Append(@, [todo |-> t, passed |-> passed])]
<1>1. t \in Todos /\ r.todo[t] # "unknown"
  BY DEF Known
<1>2. Append(r.ledger, [todo |-> t, passed |-> passed]) \in Seq(Attempt)
  BY <1>1 DEF Run, Attempt
<1>3. /\ kept \in Run /\ kept.ledger = Append(r.ledger, [todo |-> t, passed |-> passed])
      /\ kept.status = r.status /\ kept.score = r.score /\ kept.todo = r.todo
      /\ kept.todoScore = r.todoScore /\ kept.links = r.links /\ kept.criteria = r.criteria
      /\ kept.fanIns = r.fanIns
  BY <1>2 DEF Run
<1> HIDE DEF kept
<1> DEFINE again == ~passed /\ (r.todo[t] = "completed" \/ r.status = "completed")
<1>4. CASE again
  <2>1. q = ReopenedTodo(kept, t)
    BY <1>4 DEF Attempted, kept
  <2>2. /\ q \in Run /\ q.status = "active" /\ q.score = "none" /\ q.ledger = kept.ledger
        /\ q.links = kept.links /\ q.criteria = kept.criteria /\ q.fanIns = kept.fanIns
        /\ q.todo = [kept.todo EXCEPT ![t] = "in_progress"]
        /\ q.todoScore = [kept.todoScore EXCEPT ![t] = "none"]
    <3> DEFINE o == Reopened(kept)
    <3>1. /\ o \in Run /\ o.status = "active" /\ o.score = "none" /\ o.ledger = kept.ledger
          /\ o.links = kept.links /\ o.criteria = kept.criteria /\ o.fanIns = kept.fanIns
          /\ o.todo = kept.todo /\ o.todoScore = kept.todoScore
      BY <1>3, ReopenedRecord
    <3>2. q = [o EXCEPT !.todo[t] = "in_progress", !.todoScore[t] = "none"]
      BY <2>1 DEF ReopenedTodo
    <3> HIDE DEF o, q
    <3> QED BY <3>1, <3>2, <1>1 DEF Run, TodoStatus, Open, Score
  <2> HIDE DEF q
  <2> QED BY <2>2, <1>3, <1>1, <1>4 DEF Scored, Known, Run, q
<1>5. CASE ~again
  <2>1. q = [kept EXCEPT !.todo[t] = IF @ = "pending" THEN "in_progress" ELSE @]
    BY <1>5 DEF Attempted, kept
  <2>2. /\ q \in Run /\ q.status = kept.status /\ q.score = kept.score /\ q.ledger = kept.ledger
        /\ q.links = kept.links /\ q.criteria = kept.criteria /\ q.fanIns = kept.fanIns
        /\ q.todo = [kept.todo EXCEPT ![t] = IF @ = "pending" THEN "in_progress" ELSE @]
        /\ q.todoScore = kept.todoScore
    <3> DEFINE todo == [kept.todo EXCEPT ![t] = IF @ = "pending" THEN "in_progress" ELSE @]
    <3>1. q = [kept EXCEPT !.todo = todo]
      BY <2>1, <1>3 DEF Run
    <3>2. todo \in [Todos -> TodoStatus \cup {"unknown"}]
      BY <1>1, <1>3 DEF Run, TodoStatus, Open
    <3> HIDE DEF todo, q
    <3>3. /\ q \in Run /\ q.status = kept.status /\ q.score = kept.score /\ q.ledger = kept.ledger
          /\ q.links = kept.links /\ q.criteria = kept.criteria /\ q.fanIns = kept.fanIns
          /\ q.todo = todo /\ q.todoScore = kept.todoScore
      BY <3>1, <3>2, <1>3 DEF Run
    <3> QED BY <3>3 DEF todo
  <2> HIDE DEF q
  <2> QED BY <2>2, <1>3, <1>1, <1>5 DEF Scored, Known, Run, Status, q
<1> QED BY <1>4, <1>5

\* What a command makes of the copy c: new todos are known, links and attempts are kept.
Follows(r, c, todos) ==
  /\ r \in Run /\ Scored(r)
  /\ r.criteria = c.criteria
  /\ Known(r) = Known(c) \cup todos
  /\ \A t \in Todos : c.links[t] \in {{}, r.links[t]}
Reports(r, c, fails) ==
  \/ r.ledger = c.ledger /\ fails = failing
  \/ \E t \in Known(c), passed \in BOOLEAN :
       /\ r.ledger = Append(c.ledger, [todo |-> t, passed |-> passed])
       /\ fails = IF passed THEN failing \ {t} ELSE failing \cup {t}

Rewrites(p) ==
  \E r, fails : \E todos \in SUBSET Todos :
    Follows(r, copy[p], todos) /\ Reports(r, copy[p], fails) /\ Finish(p, r, todos, fails)

LEMMA AttemptRewrites ==
  ASSUME NEW p \in Procs, RecordsInv, RecordAttempt(p)
  PROVE  Rewrites(p)
<1> DEFINE c == copy[p]
<1>1. c \in Run /\ Scored(c)
  BY DEF RecordAttempt, RecordsInv, Formed
<1>2. PICK t \in Known(c), passed \in BOOLEAN :
        Finish(p, Attempted(c, t, passed), {}, IF passed THEN failing \ {t} ELSE failing \cup {t})
  BY DEF RecordAttempt
<1> DEFINE r == Attempted(c, t, passed)
<1> DEFINE fails == IF passed THEN failing \ {t} ELSE failing \cup {t}
<1>3. /\ r \in Run /\ Scored(r) /\ Known(r) = Known(c) /\ r.links = c.links /\ r.criteria = c.criteria
      /\ r.ledger = Append(c.ledger, [todo |-> t, passed |-> passed])
  BY <1>1, AttemptedRecord
<1>4. Finish(p, r, {}, fails)
  BY <1>2
<1>5. Reports(r, c, fails)
  BY <1>3 DEF Reports
<1>6. Follows(r, c, {})
  BY <1>3 DEF Follows
<1> HIDE DEF r, fails
<1> QED BY <1>4, <1>5, <1>6 DEF Rewrites

LEMMA AddRewrites ==
  ASSUME NEW p \in Procs, RecordsInv, AddTodo(p)
  PROVE  Rewrites(p)
<1> DEFINE c == copy[p]
<1>1. c \in Run /\ Scored(c)
  BY DEF AddTodo, RecordsInv, Formed
<1>2. PICK t \in Todos \ Known(c) : Finish(p, [Reopened(c) EXCEPT !.todo[t] = "pending"], {t}, failing)
  BY DEF AddTodo
<1> DEFINE o == Reopened(c)
<1> DEFINE r == [o EXCEPT !.todo[t] = "pending"]
<1>3. /\ o \in Run /\ o.status = "active" /\ o.score = "none" /\ o.criteria = c.criteria
      /\ o.todo = c.todo /\ o.todoScore = c.todoScore /\ o.links = c.links /\ o.ledger = c.ledger
  BY <1>1, ReopenedRecord
<1>4. Finish(p, r, {t}, failing)
  BY <1>2
<1> HIDE DEF o
<1>5. /\ r \in Run /\ r.status = "active" /\ r.score = "none" /\ r.criteria = c.criteria
      /\ r.todo = [c.todo EXCEPT ![t] = "pending"] /\ r.todoScore = c.todoScore
      /\ r.links = c.links /\ r.ledger = c.ledger
  BY <1>3 DEF Run, TodoStatus, Open
<1> HIDE DEF r
<1>6. c.todo \in [Todos -> TodoStatus \cup {"unknown"}] /\ c.todo[t] = "unknown"
  BY <1>1 DEF Run, Known
<1>7. Known(r) = Known(c) \cup {t} /\ Scored(r)
  BY <1>1, <1>5, <1>6 DEF Known, Scored
<1>8. Follows(r, c, {t}) /\ Reports(r, c, failing)
  BY <1>5, <1>7 DEF Follows, Reports
<1> QED BY <1>4, <1>8, {t} \in SUBSET Todos DEF Rewrites

LEMMA ReplaceRewrites ==
  ASSUME NEW p \in Procs, RecordsInv, ReplaceTodo(p)
  PROVE  Rewrites(p)
<1> DEFINE c == copy[p]
<1>1. c \in Run /\ Scored(c) /\ Rules(c)
  BY DEF ReplaceTodo, RecordsInv, Formed
<1> DEFINE o == Reopened(c)
<1>2. PICK t \in Known(c), new \in SUBSET (Todos \ Known(c)) :
        /\ c.todo[t] # "replaced"
        /\ Finish(p, [o EXCEPT !.todo = [u \in Todos |-> IF u = t THEN "replaced"
                                                        ELSE IF u \in new THEN "pending" ELSE o.todo[u]],
                               !.todoScore[t] = "none", !.links[t] = new], new, failing)
  BY DEF ReplaceTodo
<1> DEFINE todo == [u \in Todos |-> IF u = t THEN "replaced" ELSE IF u \in new THEN "pending" ELSE o.todo[u]]
<1> DEFINE r == [o EXCEPT !.todo = todo, !.todoScore[t] = "none", !.links[t] = new]
<1>3. /\ o \in Run /\ o.status = "active" /\ o.score = "none" /\ o.criteria = c.criteria
      /\ o.todo = c.todo /\ o.todoScore = c.todoScore /\ o.links = c.links /\ o.ledger = c.ledger
  BY <1>1, ReopenedRecord
<1>4. Finish(p, r, new, failing)
  BY <1>2
<1>5. c.links[t] = {} /\ t \in Todos /\ c.todo[t] # "unknown"
  BY <1>1, <1>2 DEF Rules, ValidTodo, Known
<1>6. c.todo \in [Todos -> TodoStatus \cup {"unknown"}]
  BY <1>1 DEF Run
<1> HIDE DEF o
<1>7. /\ todo \in [Todos -> TodoStatus \cup {"unknown"}]
      /\ \A u \in Todos : todo[u] = IF u = t THEN "replaced" ELSE IF u \in new THEN "pending" ELSE c.todo[u]
  BY <1>3, <1>6 DEF TodoStatus, Open
<1> HIDE DEF todo
<1>8. /\ r \in Run /\ r.status = "active" /\ r.score = "none" /\ r.criteria = c.criteria
      /\ r.todo = todo /\ r.todoScore = [c.todoScore EXCEPT ![t] = "none"]
      /\ r.links = [c.links EXCEPT ![t] = new] /\ r.ledger = c.ledger
  BY <1>3, <1>5, <1>7 DEF Run, Score
<1> HIDE DEF r
<1>9. c.links \in [Todos -> SUBSET Todos] /\ c.todoScore \in [Todos -> Score]
  BY <1>1 DEF Run
<1>10. Known(r) = Known(c) \cup new
  BY <1>2, <1>5, <1>7, <1>8 DEF Known
<1>11. Scored(r)
  BY <1>1, <1>2, <1>5, <1>7, <1>8, <1>9 DEF Scored, Known
<1>12. Follows(r, c, new) /\ Reports(r, c, failing)
  BY <1>5, <1>8, <1>9, <1>10, <1>11 DEF Follows, Reports
<1> QED BY <1>4, <1>12 DEF Rewrites

LEMMA CompleteTodoRewrites ==
  ASSUME NEW p \in Procs, RecordsInv, CompleteTodo(p)
  PROVE  Rewrites(p)
<1> DEFINE c == copy[p]
<1>1. c \in Run /\ Scored(c)
  BY DEF CompleteTodo, RecordsInv, Formed
<1>2. PICK t \in Known(c), s \in {"low", "high"} :
        Finish(p, [c EXCEPT !.todo[t] = "completed", !.todoScore[t] = s], {}, failing)
  BY DEF CompleteTodo
<1> DEFINE r == [c EXCEPT !.todo[t] = "completed", !.todoScore[t] = s]
<1>3. Finish(p, r, {}, failing)
  BY <1>2
<1>4. t \in Todos /\ c.todo[t] # "unknown"
  BY DEF Known
<1>5. /\ r \in Run /\ r.status = c.status /\ r.score = c.score /\ r.criteria = c.criteria
      /\ r.todo = [c.todo EXCEPT ![t] = "completed"] /\ r.todoScore = [c.todoScore EXCEPT ![t] = s]
      /\ r.links = c.links /\ r.ledger = c.ledger
  BY <1>1, <1>4 DEF Run, TodoStatus, Score
<1> HIDE DEF r
<1>6. c.todo \in [Todos -> TodoStatus \cup {"unknown"}] /\ c.todoScore \in [Todos -> Score]
  BY <1>1 DEF Run
<1>7. Known(r) = Known(c) /\ Scored(r)
  BY <1>1, <1>4, <1>5, <1>6 DEF Known, Scored
<1>8. Follows(r, c, {}) /\ Reports(r, c, failing)
  BY <1>5, <1>7 DEF Follows, Reports
<1> QED BY <1>3, <1>8 DEF Rewrites

LEMMA CompleteRewrites ==
  ASSUME NEW p \in Procs, RecordsInv, Complete(p)
  PROVE  Rewrites(p)
<1> DEFINE c == copy[p]
<1>1. c \in Run /\ Scored(c)
  BY DEF Complete, RecordsInv, Formed
<1>2. PICK s \in {"low", "high"} :
        Finish(p, [c EXCEPT !.status = "completed", !.score = s, !.evidence = TRUE], {}, failing)
  BY DEF Complete
<1> DEFINE r == [c EXCEPT !.status = "completed", !.score = s, !.evidence = TRUE]
<1>3. Finish(p, r, {}, failing)
  BY <1>2
<1>4. /\ r \in Run /\ r.status = "completed" /\ r.criteria = c.criteria /\ r.todo = c.todo
      /\ r.todoScore = c.todoScore /\ r.links = c.links /\ r.ledger = c.ledger
  BY <1>1 DEF Run, Status, Score
<1> HIDE DEF r
<1>5. Known(r) = Known(c) /\ Scored(r)
  BY <1>1, <1>4 DEF Known, Scored
<1>6. Follows(r, c, {}) /\ Reports(r, c, failing)
  BY <1>4, <1>5 DEF Follows, Reports
<1> QED BY <1>3, <1>6 DEF Rewrites

LEMMA FanInRewrites ==
  ASSUME NEW p \in Procs, RecordsInv, AddFanIn(p)
  PROVE  Rewrites(p)
<1> DEFINE c == copy[p]
<1>1. c \in Run /\ Scored(c) /\ sound \subseteq Receipts
  BY DEF AddFanIn, RecordsInv, Formed
<1>2. PICK f \in sound \ c.fanIns : Finish(p, [c EXCEPT !.fanIns = @ \cup {f}], {}, failing)
  BY DEF AddFanIn
<1> DEFINE r == [c EXCEPT !.fanIns = @ \cup {f}]
<1>3. Finish(p, r, {}, failing)
  BY <1>2
<1>4. /\ r \in Run /\ r.status = c.status /\ r.score = c.score /\ r.criteria = c.criteria
      /\ r.todo = c.todo /\ r.todoScore = c.todoScore /\ r.links = c.links /\ r.ledger = c.ledger
  BY <1>1 DEF Run
<1> HIDE DEF r
<1>5. Known(r) = Known(c) /\ Scored(r)
  BY <1>1, <1>4 DEF Known, Scored
<1>6. Follows(r, c, {}) /\ Reports(r, c, failing)
  BY <1>4, <1>5 DEF Follows, Reports
<1> QED BY <1>3, <1>6 DEF Rewrites

\* What a finished command leaves in the file.
LEMMA Rewritten ==
  ASSUME NEW p \in Procs, RecordsInv, copy[p] # Absent, NEW r, NEW todos, NEW fails,
         Follows(r, copy[p], todos), Finish(p, r, todos, fails)
  PROVE  \/ UNCHANGED <<run, declared, failing>>
         \/ /\ run' # Absent /\ Formed(run') /\ Known(run') = Known(copy[p]) \cup todos
            /\ run'.criteria = copy[p].criteria /\ run'.ledger = r.ledger /\ run'.links = r.links
            /\ declared' = declared \cup todos /\ failing' = fails
<1>1. CASE ~Valid(r)
  BY <1>1 DEF Finish
<1>2. CASE Valid(r)
  <2>1. PICK second \in Seconds : run' = [r EXCEPT !.updated = second]
    BY <1>2 DEF Finish
  <2>2. r \in Run /\ Scored(r) /\ Rules(r) /\ (run # Absent => run \in Run)
    BY <1>2, ValidIsRules DEF Follows, RecordsInv, Formed
  <2>3. Formed(run')
    BY <2>1, <2>2, StampIsFree
  <2>4. run'.todo = r.todo /\ run'.ledger = r.ledger /\ run'.links = r.links /\ run'.criteria = r.criteria
    BY <2>1, <2>2 DEF Run
  <2>5. Known(run') = Known(r)
    BY <2>4 DEF Known
  <2>6. run' # Absent
    BY <2>3, AbsentIsNoRun DEF Formed
  <2> QED BY <2>3, <2>4, <2>5, <2>6, <1>2 DEF Finish, Follows
<1> QED BY <1>1, <1>2

LEMMA FreshIsFormed ==
  ASSUME NEW c \in Criteria, NEW todos \in SUBSET Todos, NEW second \in 0..MaxNow
  PROVE  LET f == Fresh(c, todos, second) IN
         Formed(f) /\ Known(f) = todos /\ f.criteria = c
<1> DEFINE f == Fresh(c, todos, second)
<1>1. /\ f \in Run /\ f.status = "active" /\ f.score = "none" /\ f.criteria = c
      /\ \A t \in Todos : /\ f.todo[t] = IF t \in todos THEN "pending" ELSE "unknown"
                          /\ f.todoScore[t] = "none" /\ f.links[t] = {}
      /\ f.ledger = <<>>
  BY DEF Fresh, Run, Status, Score, TodoStatus, Open
<1> HIDE DEF f
<1>2. Known(f) = todos
  BY <1>1 DEF Known
<1>3. \A t \in Known(f) : ValidTodo(f, t)
  BY <1>1, <1>2 DEF ValidTodo
<1>4. ValidLinks(f)
  BY <1>1, <1>2 DEF ValidLinks
<1>5. Rules(f) /\ Scored(f)
  BY <1>1, <1>3, <1>4 DEF Rules, Scored
<1> QED BY <1>1, <1>2, <1>5 DEF Formed, f

\* The executor's own edits break no rule: they are made to open todos of an active run.
LEMMA EditIsFormed ==
  ASSUME RecordsInv, EditFile
  PROVE  /\ Formed(run') /\ Known(run') = Known(run) /\ run'.criteria = run.criteria
         /\ run'.ledger = run.ledger /\ run'.links = run.links
<1>1. run \in Run /\ Rules(run) /\ Scored(run) /\ run.status = "active"
  BY DEF EditFile, RecordsInv, Formed
<1>2. CASE \E t \in OpenTodos(run), s \in Halted : run' = [run EXCEPT !.todo[t] = s]
  <2>1. PICK t \in OpenTodos(run), s \in Halted : run' = [run EXCEPT !.todo[t] = s]
    BY <1>2
  <2>2. t \in Todos /\ run.todo[t] \in Open /\ s \in {"blocked", "invalidated"}
    BY <2>1, ConstantsAssumption DEF OpenTodos
  <2>3. /\ run' \in Run /\ run'.status = "active" /\ run'.score = run.score
        /\ run'.criteria = run.criteria /\ run'.todoScore = run.todoScore
        /\ run'.ledger = run.ledger /\ run'.links = run.links
        /\ run'.todo = [run.todo EXCEPT ![t] = s]
    BY <1>1, <2>1, <2>2 DEF Run, TodoStatus
  <2> DEFINE q == run'
  <2>4. run.todo \in [Todos -> TodoStatus \cup {"unknown"}]
    BY <1>1 DEF Run
  <2>5. Known(run') = Known(run)
    BY <2>2, <2>3, <2>4 DEF Known, Open
  <2>6. \A u \in Todos : LatestPassed(run, u) => LatestPassed(run', u)
    BY <2>3 DEF LatestPassed
  <2>7. ASSUME NEW u \in Known(run')
        PROVE  ValidTodo(run', u)
    <3>1. u \in Todos /\ ValidTodo(run, u)
      BY <1>1, <2>5 DEF Rules, Known
    <3>2. CASE u # t
      <4>1. run'.todo[u] = run.todo[u]
        BY <2>3, <2>4, <3>1, <3>2
      <4> QED BY <3>1, <4>1, <2>3, <2>6 DEF ValidTodo
    <3>3. CASE u = t
      <4>1. run'.todo[u] = s /\ run.todo[u] # "replaced"
        BY <2>2, <2>3, <2>4, <3>3 DEF Open
      <4> QED BY <3>1, <4>1, <2>2, <2>3 DEF ValidTodo
    <3> QED BY <3>2, <3>3
  <2>8. ValidLinks(run') /\ \A i \in DOMAIN run'.ledger : run'.ledger[i].todo \in Known(run')
    BY <1>1, <2>3, <2>5 DEF Rules, ValidLinks
  <2>9. Rules(run')
    BY <2>3, <2>7, <2>8 DEF Rules
  <2>10. Scored(run')
    BY <1>1, <2>2, <2>3, <2>4 DEF Scored, Open
  <2> QED BY <2>3, <2>5, <2>9, <2>10 DEF Formed
<1>3. CASE run' = [run EXCEPT !.blockers = ~@]
  <2>1. /\ run' \in Run /\ run'.status = "active" /\ run'.score = run.score
        /\ run'.criteria = run.criteria /\ run'.todoScore = run.todoScore
        /\ run'.ledger = run.ledger /\ run'.links = run.links /\ run'.todo = run.todo
    BY <1>1, <1>3 DEF Run
  <2>2. Known(run') = Known(run)
    BY <2>1 DEF Known
  <2>3. \A u \in Todos : LatestPassed(run, u) => LatestPassed(run', u)
    BY <2>1 DEF LatestPassed
  <2>4. \A u \in Known(run') : ValidTodo(run', u)
    BY <1>1, <2>1, <2>2, <2>3 DEF ValidTodo, Rules, Known
  <2>5. Rules(run') /\ Scored(run')
    BY <1>1, <2>1, <2>2, <2>4 DEF Rules, ValidLinks, Scored
  <2> QED BY <2>1, <2>2, <2>5 DEF Formed
<1> QED BY <1>2, <1>3 DEF EditFile

LEMMA CommandCases ==
  ASSUME NEW p \in Procs, RecordsInv, Command(p)
  PROVE  Start(p) \/ Load(p) \/ (copy[p] # Absent /\ Rewrites(p)) \/ Checkpoint(p) \/ GiveUp(p)
BY AttemptRewrites, AddRewrites, ReplaceRewrites, CompleteTodoRewrites, CompleteRewrites, FanInRewrites
   DEF Command, RecordAttempt, AddTodo, ReplaceTodo, CompleteTodo, Complete, AddFanIn

LEMMA StartedRecord ==
  ASSUME NEW p \in Procs, RecordsInv, Start(p)
  PROVE  /\ run' # Absent /\ Formed(run') /\ Known(run') = declared' /\ declared' \subseteq Todos
         /\ starts' = starts + 1 /\ starts' \in 0..MaxStarts /\ failing' = {}
<1>1. PICK c \in Criteria, todos \in SUBSET Todos, second \in Seconds :
        run' = Fresh(c, todos, second) /\ declared' = todos
  BY DEF Start
<1>2. second \in 0..MaxNow
  BY ConstantsAssumption DEF Seconds, Run, RecordsInv, Formed
<1>3. run' \in Run /\ Formed(run') /\ Known(run') = todos
  BY <1>1, <1>2, FreshIsFormed DEF Formed
<1> QED BY <1>1, <1>3, AbsentIsNoRun, ConstantsAssumption DEF Start, RecordsInv

LEMMA RecordsStep ==
  ASSUME RecordsInv, [Next]_vars
  PROVE  RecordsInv'
<1>1. CASE UNCHANGED vars
  BY <1>1 DEF RecordsInv, vars
<1>2. ASSUME NEW p \in Procs, Command(p)
      PROVE  RecordsInv'
  <2>1. CASE Start(p)
    BY <2>1, StartedRecord DEF RecordsInv, Start
  <2>2. CASE Load(p)
    BY <2>2 DEF RecordsInv, Load, Formed
  <2>3. CASE copy[p] # Absent /\ Rewrites(p)
    <3>1. PICK r, fails : \E todos \in SUBSET Todos :
            Follows(r, copy[p], todos) /\ Finish(p, r, todos, fails)
      BY <2>3 DEF Rewrites
    <3>2. run' = run \/ Formed(run')
      BY <2>3, <3>1, Rewritten
    <3>3. copy' = [copy EXCEPT ![p] = Absent] /\ UNCHANGED <<checkpoint, sound, starts>>
      BY <3>1 DEF Finish
    <3> QED BY <3>2, <3>3 DEF RecordsInv
  <2>4. CASE Checkpoint(p)
    BY <2>4 DEF RecordsInv, Checkpoint
  <2>5. CASE GiveUp(p)
    BY <2>5 DEF RecordsInv, GiveUp
  <2> QED BY <1>2, <2>1, <2>2, <2>3, <2>4, <2>5, CommandCases
<1>3. CASE EditFile
  BY <1>3, EditIsFormed DEF RecordsInv, EditFile
<1>4. CASE ChangeLedgers
  BY <1>4 DEF RecordsInv, ChangeLedgers
<1> QED BY <1>1, <1>2, <1>3, <1>4 DEF Next

LEMMA RecordsInit == Init => RecordsInv
BY ConstantsAssumption DEF Init, RecordsInv

--------------------------------------------------------------------------------
(* One process at a time                                                    *)

\* Nothing locks the run: of two commands that have loaded it, the later one drops what the
\* earlier one has written (seungjeongwon_run.py:993).
OneCaller == \A p, q \in Procs : p = q

\* A loaded copy has everything that has been reported, whatever was edited meanwhile.
CopyIsComplete(p) ==
  copy[p] # Absent =>
    /\ run # Absent /\ copy[p].ledger = run.ledger
    /\ Known(copy[p]) = Known(run) /\ copy[p].links = run.links

HistoryInv ==
  /\ RecordsInv
  /\ \A p \in Procs : CopyIsComplete(p)
  /\ declared \subseteq Todos /\ failing \subseteq declared
  /\ run # Absent =>
       /\ declared = Known(run)
       /\ \A t \in failing : ~LatestPassed(run, t)

LEMMA HistoryInit == Init => HistoryInv
BY RecordsInit DEF Init, HistoryInv, CopyIsComplete

\* What one finished command has added to the run: nothing is dropped.
Grown(todos) ==
  /\ Known(run') = Known(run) \cup todos
  /\ \A t \in Todos : run.links[t] \in {{}, run'.links[t]}
  /\ \/ run'.ledger = run.ledger /\ failing' = failing
     \/ \E t \in Known(run), passed \in BOOLEAN :
          /\ run'.ledger = Append(run.ledger, [todo |-> t, passed |-> passed])
          /\ failing' = IF passed THEN failing \ {t} ELSE failing \cup {t}

LEMMA RewriteGrows ==
  ASSUME HistoryInv, NEW p \in Procs, copy[p] # Absent, Rewrites(p)
  PROVE  \/ UNCHANGED <<run, declared, failing>>
         \/ \E todos \in SUBSET Todos :
              /\ run' # Absent /\ Formed(run') /\ declared' = declared \cup todos /\ Grown(todos)
<1>1. PICK r, fails : \E todos \in SUBSET Todos :
        Follows(r, copy[p], todos) /\ Reports(r, copy[p], fails) /\ Finish(p, r, todos, fails)
  BY DEF Rewrites
<1>2. PICK todos \in SUBSET Todos :
        Follows(r, copy[p], todos) /\ Reports(r, copy[p], fails) /\ Finish(p, r, todos, fails)
  BY <1>1
<1>3. CASE UNCHANGED <<run, declared, failing>>
  BY <1>3
<1>4. CASE /\ run' # Absent /\ Formed(run') /\ Known(run') = Known(copy[p]) \cup todos
           /\ run'.ledger = r.ledger /\ run'.links = r.links
           /\ declared' = declared \cup todos /\ failing' = fails
  <2>1. copy[p].ledger = run.ledger /\ Known(copy[p]) = Known(run) /\ copy[p].links = run.links
    BY DEF HistoryInv, CopyIsComplete
  <2>2. Grown(todos)
    BY <1>2, <1>4, <2>1 DEF Grown, Follows, Reports
  <2> QED BY <1>4, <2>2
<1> QED BY <1>2, <1>3, <1>4, Rewritten DEF HistoryInv

LEMMA GrownStaysFailing ==
  ASSUME HistoryInv, run # Absent, NEW todos \in SUBSET Todos, Grown(todos)
  PROVE  failing' \subseteq declared \cup todos /\ \A t \in failing' : ~LatestPassed(run', t)
<1>1. /\ run.ledger \in Seq(Attempt) /\ failing \subseteq declared /\ declared = Known(run)
      /\ declared \subseteq Todos /\ \A t \in failing : ~LatestPassed(run, t)
  BY DEF HistoryInv, RecordsInv, Formed, Run
<1>2. CASE run'.ledger = run.ledger /\ failing' = failing
  BY <1>1, <1>2 DEF LatestPassed
<1>3. ASSUME NEW t \in Known(run), NEW passed \in BOOLEAN,
             run'.ledger = Append(run.ledger, [todo |-> t, passed |-> passed]),
             failing' = IF passed THEN failing \ {t} ELSE failing \cup {t}
      PROVE  failing' \subseteq declared /\ \A u \in failing' : ~LatestPassed(run', u)
  <2>1. /\ \A u \in Todos \ {t} : LatestPassed(run', u) <=> LatestPassed(run, u)
        /\ ~passed => ~LatestPassed(run', t)
    BY <1>1, <1>3, LatestAfter
  <2> QED BY <1>1, <1>3, <2>1
<1> QED BY <1>1, <1>2, <1>3 DEF Grown

LEMMA HistoryStep ==
  ASSUME OneCaller, HistoryInv, [Next]_vars
  PROVE  HistoryInv'
<1>1. RecordsInv'
  BY RecordsStep DEF HistoryInv
<1>2. CASE UNCHANGED vars
  BY <1>1, <1>2 DEF HistoryInv, CopyIsComplete, Known, LatestPassed, vars
<1>3. ASSUME NEW p \in Procs, Command(p)
      PROVE  HistoryInv'
  <2> DEFINE Rest == declared' \subseteq Todos /\ failing' \subseteq declared'
                     /\ (run' # Absent => /\ declared' = Known(run')
                                          /\ \A t \in failing' : ~LatestPassed(run', t))
  <2>1. \A q \in Procs : q = p
    BY DEF OneCaller
  <2>2. CASE Start(p)
    <3>1. copy' = copy /\ copy[p] = Absent
      BY <2>2 DEF Start
    <3>2. Rest
      BY <2>2, StartedRecord DEF HistoryInv
    <3> QED BY <1>1, <2>1, <3>1, <3>2 DEF HistoryInv, CopyIsComplete
  <2>3. CASE Load(p)
    <3>1. copy'[p] = run /\ UNCHANGED <<run, declared, failing>> /\ run # Absent
      BY <2>3 DEF Load, HistoryInv, RecordsInv
    <3> QED BY <1>1, <2>1, <3>1 DEF HistoryInv, CopyIsComplete, Known, LatestPassed
  <2>4. CASE copy[p] # Absent /\ Rewrites(p)
    <3>1. copy'[p] = Absent
      BY <2>4 DEF Rewrites, Finish, HistoryInv, RecordsInv
    <3>2. run # Absent /\ declared = Known(run) /\ declared \subseteq Todos
      BY <2>4 DEF HistoryInv, CopyIsComplete
    <3>3. Rest
      <4>1. CASE UNCHANGED <<run, declared, failing>>
        BY <4>1 DEF HistoryInv, Known, LatestPassed
      <4>2. ASSUME NEW todos \in SUBSET Todos, declared' = declared \cup todos, Grown(todos)
            PROVE  Rest
        BY <3>2, <4>2, GrownStaysFailing DEF Grown
      <4> QED BY <2>4, <4>1, <4>2, RewriteGrows
    <3> QED BY <1>1, <2>1, <3>1, <3>3 DEF HistoryInv, CopyIsComplete
  <2>5. CASE Checkpoint(p) \/ GiveUp(p)
    <3>1. copy'[p] = Absent /\ UNCHANGED <<run, declared, failing>>
      BY <2>5 DEF Checkpoint, GiveUp, HistoryInv, RecordsInv
    <3> QED BY <1>1, <2>1, <3>1 DEF HistoryInv, CopyIsComplete, Known, LatestPassed
  <2> QED BY <1>3, <2>2, <2>3, <2>4, <2>5, CommandCases DEF HistoryInv
<1>4. CASE EditFile
  <2>1. /\ Known(run') = Known(run) /\ run'.ledger = run.ledger /\ run'.links = run.links
        /\ run # Absent /\ run' # Absent /\ UNCHANGED <<copy, declared, failing>>
    BY <1>4, EditIsFormed, AbsentIsNoRun DEF HistoryInv, EditFile, Formed
  <2>2. \A t : LatestPassed(run', t) <=> LatestPassed(run, t)
    BY <2>1 DEF LatestPassed
  <2> QED BY <1>1, <2>1, <2>2 DEF HistoryInv, CopyIsComplete
<1>5. CASE ChangeLedgers
  BY <1>1, <1>5 DEF ChangeLedgers, HistoryInv, CopyIsComplete, Known, LatestPassed
<1> QED BY <1>2, <1>3, <1>4, <1>5 DEF Next

--------------------------------------------------------------------------------
(* What the execution run promises                                          *)

LEMMA TypesFollow == ASSUME HistoryInv PROVE TypeOK
BY DEF HistoryInv, RecordsInv, Formed, TypeOK

LEMMA CompletionFollows == ASSUME HistoryInv PROVE CompletionEarned
<1> SUFFICES ASSUME run # Absent, run.status = "completed"
             PROVE  /\ declared = Known(run)
                    /\ \A t \in declared : run.todo[t] \in {"completed", "replaced"}
                    /\ \A t \in failing : run.todo[t] = "replaced"
  BY DEF CompletionEarned
<1>1. /\ run \in Run /\ Rules(run) /\ declared = Known(run) /\ failing \subseteq declared
      /\ \A t \in failing : ~LatestPassed(run, t)
  BY DEF HistoryInv, RecordsInv, Formed
<1>2. ASSUME NEW t \in declared
      PROVE  run.todo[t] \in {"completed", "replaced"}
  <2>1. run.todo[t] \in TodoStatus /\ t \in Known(run) /\ t \in Todos
    BY <1>1 DEF Run, Known
  <2>2. run.todo[t] \notin Open /\ run.todo[t] \notin {"blocked", "invalidated"}
    BY <1>1, <2>1 DEF Rules, ValidCompletion, OpenTodos
  <2> QED BY <2>1, <2>2 DEF TodoStatus
<1>3. \A t \in failing : run.todo[t] # "completed"
  BY <1>1 DEF Rules, ValidTodo
<1> QED BY <1>1, <1>2, <1>3

LEMMA FailureFollows == ASSUME HistoryInv PROVE FailureIsAccepted
<1> SUFFICES ASSUME run # Absent, run.fanIns \subseteq sound, NEW t \in Known(run), run.todo[t] # "replaced"
             PROVE  LET r == Attempted(run, t, FALSE) IN
                    Valid(r) /\ r.status = "active" /\ r.todo[t] # "completed"
  BY DEF FailureIsAccepted
<1> SUFFICES ASSUME NEW failed \in BOOLEAN, failed = FALSE
             PROVE  LET r == Attempted(run, t, failed) IN
                    Valid(r) /\ r.status = "active" /\ r.todo[t] # "completed"
  BY FALSE \in BOOLEAN, Zenon
<1> DEFINE r == Attempted(run, t, failed)
<1>1. run \in Run /\ Rules(run) /\ Scored(run)
  BY DEF HistoryInv, RecordsInv, Formed
<1>2. /\ Known(r) = Known(run) /\ r.links = run.links /\ r.fanIns = run.fanIns
      /\ r.ledger = Append(run.ledger, [todo |-> t, passed |-> failed])
      /\ \A u \in Todos \ {t} : r.todo[u] = run.todo[u] /\ r.todoScore[u] = run.todoScore[u]
      /\ r.todo[t] # "replaced" /\ r.todo[t] # "completed" /\ r.status = "active"
  BY <1>1, AttemptedRecord
<1> HIDE DEF r
<1>3. t \in Todos /\ run.ledger \in Seq(Attempt) /\ Known(run) \subseteq Todos
  BY <1>1 DEF Known, Run
<1>4. \A u \in Todos \ {t} : LatestPassed(r, u) <=> LatestPassed(run, u)
  BY <1>2, <1>3, LatestAfter
<1>5. ASSUME NEW u \in Known(r)
      PROVE  ValidTodo(r, u)
  <2>1. ValidTodo(run, u) /\ u \in Todos
    BY <1>1, <1>2, <1>3 DEF Rules
  <2>2. CASE u = t
    BY <2>1, <2>2, <1>2 DEF ValidTodo
  <2>3. CASE u # t
    BY <2>1, <2>3, <1>2, <1>4 DEF ValidTodo
  <2> QED BY <2>2, <2>3
<1>6. ValidLinks(r)
  BY <1>1, <1>2 DEF Rules, ValidLinks
<1>7. \A i \in DOMAIN r.ledger : r.ledger[i].todo \in Known(r)
  <2>1. DOMAIN r.ledger = 1..(Len(run.ledger) + 1) /\ DOMAIN run.ledger = 1..Len(run.ledger)
    BY <1>2, <1>3
  <2>2. \A i \in 1..Len(run.ledger) : r.ledger[i] = run.ledger[i]
    BY <1>2, <1>3
  <2>3. r.ledger[Len(run.ledger) + 1] = [todo |-> t, passed |-> failed]
    BY <1>2, <1>3
  <2>4. Len(run.ledger) \in Nat
    BY <1>3
  <2> QED BY <2>1, <2>2, <2>3, <2>4, <1>1, <1>2 DEF Rules
<1>8. Valid(r)
  BY <1>2, <1>5, <1>6, <1>7 DEF Valid
<1> QED BY <1>2, <1>8 DEF r

LEMMA HistoryKept ==
  ASSUME OneCaller, HistoryInv, [Next]_vars
  PROVE  KeepsHistory
<1> SUFFICES ASSUME run # Absent, starts' = starts
             PROVE  /\ IsPrefix(run.ledger, run'.ledger) /\ Known(run) \subseteq Known(run')
                    /\ \A t \in Todos : run.links[t] \in {{}, run'.links[t]}
  BY DEF KeepsHistory
<1>1. run.ledger \in Seq(Attempt) /\ starts \in Nat
  BY ConstantsAssumption DEF HistoryInv, RecordsInv, Formed, Run
<1>2. IsPrefix(run.ledger, run.ledger) /\ \A x \in Attempt : IsPrefix(run.ledger, Append(run.ledger, x))
  BY <1>1 DEF IsPrefix
<1>3. CASE run' = run
  BY <1>2, <1>3 DEF Known
<1>4. ASSUME NEW todos \in SUBSET Todos, Grown(todos)
      PROVE  /\ IsPrefix(run.ledger, run'.ledger) /\ Known(run) \subseteq Known(run')
             /\ \A t \in Todos : run.links[t] \in {{}, run'.links[t]}
  BY <1>2, <1>4 DEF Grown, Attempt, Known
<1>5. CASE EditFile
  BY <1>2, <1>5, EditIsFormed DEF HistoryInv
<1>6. ASSUME NEW p \in Procs, Command(p)
      PROVE  run' = run \/ \E todos \in SUBSET Todos : Grown(todos)
  <2>1. ~Start(p)
    BY <1>1 DEF Start
  <2> QED BY <1>6, <2>1, CommandCases, RewriteGrows DEF HistoryInv, Load, Checkpoint, GiveUp
<1> QED BY <1>3, <1>4, <1>5, <1>6 DEF Next, ChangeLedgers, vars

\* Whatever the number of processes and of restarts, an accepted checkpoint is the run but
\* for its criteria: the fields that replay does not compare follow from those it does.
ReplayAgrees ==
  run # Absent /\ checkpoint # Absent /\ Accepts(checkpoint) =>
    checkpoint = [run EXCEPT !.criteria = checkpoint.criteria]

LEMMA ReplayFollows == ASSUME RecordsInv PROVE ReplayAgrees
<1> SUFFICES ASSUME run # Absent, checkpoint # Absent, Accepts(checkpoint)
             PROVE  checkpoint = [run EXCEPT !.criteria = checkpoint.criteria]
  BY DEF ReplayAgrees
<1> DEFINE c == checkpoint
<1>1. Formed(run) /\ Formed(c)
  BY DEF RecordsInv
<1>2. /\ c.updated = run.updated /\ c.todo = run.todo /\ c.links = run.links /\ c.ledger = run.ledger
      /\ c.evidence = run.evidence /\ c.fanIns = run.fanIns /\ c.score = run.score
      /\ c.blockers = run.blockers
  BY DEF Accepts
<1>3. c.status = run.status
  BY <1>1, <1>2 DEF Formed, Scored, Rules, ValidCompletion, Run, Status
<1>4. \A t \in Todos : c.todoScore[t] = run.todoScore[t]
  <2> TAKE t \in Todos
  <2>1. CASE run.todo[t] = "completed"
    <3>1. t \in Known(run) /\ t \in Known(c)
      BY <1>2, <2>1 DEF Known
    <3> QED BY <1>1, <1>2, <2>1, <3>1 DEF Formed, Rules, ValidTodo
  <2>2. CASE run.todo[t] # "completed"
    BY <1>1, <1>2, <2>2 DEF Formed, Scored
  <2> QED BY <2>1, <2>2
<1>5. c.todoScore = run.todoScore
  BY <1>1, <1>4 DEF Formed, Run
<1>6. c \in Run /\ run \in Run
  BY <1>1 DEF Formed
<1> HIDE DEF c
<1>7. c = [run EXCEPT !.criteria = c.criteria]
  BY <1>2, <1>3, <1>5, <1>6 DEF Run
<1> QED BY <1>7 DEF c

\* A run that is started anew with other criteria within the second of its checkpoint is
\* taken for it (seungjeongwon_run.py:899), so one of the two must not happen.
SameCriteria == MaxStarts <= 1 \/ \A c, d \in Criteria : c = d

CriteriaInv ==
  /\ RecordsInv
  /\ starts = 0 => run = Absent
  /\ \A p \in Procs : copy[p] # Absent => run # Absent /\ copy[p].criteria = run.criteria
  /\ checkpoint # Absent => run # Absent /\ checkpoint.criteria = run.criteria

LEMMA CriteriaStep ==
  ASSUME SameCriteria, CriteriaInv, [Next]_vars
  PROVE  CriteriaInv'
<1>1. RecordsInv'
  BY RecordsStep DEF CriteriaInv
<1>2. CASE UNCHANGED vars
  BY <1>1, <1>2 DEF CriteriaInv, vars
<1>3. ASSUME NEW p \in Procs, Command(p)
      PROVE  CriteriaInv'
  <2>1. CASE Start(p)
    <3>1. /\ run' # Absent /\ run' \in Run /\ starts' = starts + 1 /\ starts < MaxStarts
          /\ starts \in Nat /\ UNCHANGED <<copy, checkpoint>>
      BY <2>1, StartedRecord, ConstantsAssumption DEF CriteriaInv, RecordsInv, Start, Formed
    <3>2. CASE MaxStarts <= 1
      BY <1>1, <3>1, <3>2, ConstantsAssumption DEF CriteriaInv
    <3>3. CASE \A c, d \in Criteria : c = d
      BY <1>1, <3>1, <3>3 DEF CriteriaInv, RecordsInv, Formed, Run
    <3> QED BY <3>2, <3>3 DEF SameCriteria
  <2>2. CASE Load(p)
    BY <1>1, <2>2 DEF Load, CriteriaInv, RecordsInv
  <2>3. CASE copy[p] # Absent /\ Rewrites(p)
    <3>1. PICK r, fails : \E todos \in SUBSET Todos :
            Follows(r, copy[p], todos) /\ Finish(p, r, todos, fails)
      BY <2>3 DEF Rewrites
    <3>2. copy' = [copy EXCEPT ![p] = Absent] /\ UNCHANGED <<checkpoint, starts>>
      BY <3>1 DEF Finish
    <3>3. run' # Absent /\ run'.criteria = run.criteria
      BY <2>3, <3>1, Rewritten DEF CriteriaInv
    <3>4. starts # 0
      BY <2>3 DEF CriteriaInv
    <3> QED BY <1>1, <3>2, <3>3, <3>4 DEF CriteriaInv, RecordsInv
  <2>4. CASE Checkpoint(p)
    BY <1>1, <2>4 DEF Checkpoint, CriteriaInv, RecordsInv
  <2>5. CASE GiveUp(p)
    BY <1>1, <2>5 DEF GiveUp, CriteriaInv, RecordsInv
  <2> QED BY <1>3, <2>1, <2>2, <2>3, <2>4, <2>5, CommandCases DEF CriteriaInv
<1>4. CASE EditFile
  <2>1. run # Absent /\ run' # Absent /\ run'.criteria = run.criteria /\ UNCHANGED <<copy, checkpoint, starts>>
    BY <1>4, EditIsFormed, AbsentIsNoRun DEF CriteriaInv, EditFile, Formed
  <2> QED BY <1>1, <2>1 DEF CriteriaInv
<1>5. CASE ChangeLedgers
  BY <1>1, <1>5 DEF CriteriaInv, ChangeLedgers
<1> QED BY <1>2, <1>3, <1>4, <1>5 DEF Next

LEMMA CriteriaInit == Init => CriteriaInv
BY RecordsInit DEF Init, CriteriaInv

LEMMA CriteriaFollows == ASSUME CriteriaInv PROVE ReplayIsCurrent
<1> SUFFICES ASSUME run # Absent, checkpoint # Absent, Accepts(checkpoint)
             PROVE  checkpoint = run
  BY DEF ReplayIsCurrent
<1>1. checkpoint = [run EXCEPT !.criteria = checkpoint.criteria]
  BY ReplayFollows DEF CriteriaInv, ReplayAgrees
<1>2. checkpoint.criteria = run.criteria /\ run \in Run
  BY DEF CriteriaInv, RecordsInv, Formed
<1> QED BY <1>1, <1>2 DEF Run

--------------------------------------------------------------------------------
(* Workflow runs                                                            *)

FlowInv ==
  /\ artifact \in Flow!Artifact \cup {Nil, Torn}
  /\ writing \in Flow!Artifact \cup {Nil}
  /\ forced \in BOOLEAN
  /\ artifact \in Flow!Artifact => Flow!Valid(artifact) /\ IsFiniteSet(artifact.workers)
  /\ writing \in Flow!Artifact => Flow!Valid(writing) /\ IsFiniteSet(writing.workers)
  /\ writing \in Flow!Artifact /\ ~forced /\ artifact \in Flow!Artifact /\ artifact.status = "completed" =>
       writing.status = "completed" /\ writing.final = artifact.final

LEMMA NoArtifact == Nil \notin Flow!Artifact /\ Torn \notin Flow!Artifact
BY FlowAssumption DEF Flow!ConstantsAssumption

\* A command other than start: what it writes is as completed as what it has loaded.
LEMMA SavesInv ==
  ASSUME FlowInv, Flow!Loaded, NEW r \in Flow!Artifact, IsFiniteSet(r.workers), Flow!Save(r),
         artifact.status = "completed" => r.status = "completed" /\ r.final = artifact.final
  PROVE  FlowInv'
BY NoArtifact DEF FlowInv, Flow!Loaded, Flow!Save

LEMMA FlowCount == ASSUME NEW S PROVE Flow!Cardinality(S) = Cardinality(S)
BY DEF Cardinality, Flow!Cardinality, IsFiniteSet, Flow!IsFiniteSet

LEMMA LoadedArtifact ==
  ASSUME FlowInv, Flow!Loaded
  PROVE  artifact \in Flow!Artifact /\ Flow!Valid(artifact) /\ IsFiniteSet(artifact.workers)
BY DEF FlowInv, Flow!Loaded

LEMMA FlowStep ==
  ASSUME FlowInv, [Flow!Next]_(Flow!vars)
  PROVE  FlowInv'
<1> USE NoArtifact
<1>1. CASE UNCHANGED Flow!vars
  BY <1>1 DEF FlowInv, Flow!vars
<1>2. ASSUME NEW a \in FlowStarts, NEW force \in BOOLEAN, Flow!Start(a, force)
      PROVE  FlowInv'
  <2> DEFINE r == Flow!Fresh(a)
  <2>1. a.kind \in STRING /\ a.backend \in STRING /\ a.mode \in STRING /\ a.described \in BOOLEAN
    BY FlowAssumption DEF Flow!ConstantsAssumption
  <2>2. r \in Flow!Artifact /\ r.workers = {}
    BY <2>1 DEF Flow!Fresh, Flow!Artifact, Flow!Recommendations
  <2>3. IsFiniteSet(r.workers)
    BY <2>2, FS_EmptySet
  <2>4. Flow!Valid(r) /\ writing' = r /\ forced' = TRUE /\ artifact' = artifact
    BY <1>2 DEF Flow!Start
  <2> HIDE DEF r
  <2> QED BY <2>2, <2>3, <2>4 DEF FlowInv
<1>3. ASSUME NEW id \in WorkerIds, NEW ss \in SUBSET Scopes, NEW c \in BOOLEAN, Flow!AddWorker(id, ss, c)
      PROVE  FlowInv'
  <2> DEFINE ws == artifact.workers \cup {[id |-> id, scopes |-> ss, claims |-> c]}
  <2> DEFINE n == Flow!Cardinality(artifact.workers) + 1
  <2> DEFINE r == [artifact EXCEPT !.workers = ws, !.metrics.workers = n,
                                   !.metrics.concurrent = IF @ > n THEN @ ELSE n]
  <2>1. Flow!Loaded /\ Flow!Save(r)
    BY <1>3 DEF Flow!AddWorker
  <2>2. artifact \in Flow!Artifact /\ IsFiniteSet(artifact.workers)
    BY <2>1, LoadedArtifact
  <2>3. n \in Nat
    BY <2>2, FS_CardinalityType, FlowCount
  <2>4. ws \in SUBSET [id : WorkerIds, scopes : SUBSET Scopes, claims : BOOLEAN]
    BY <2>2 DEF Flow!Artifact
  <2>5. IsFiniteSet(ws)
    BY <2>2, FS_AddElement
  <2> HIDE DEF ws, n
  <2>6. /\ r \in Flow!Artifact /\ r.workers = ws
        /\ r.status = artifact.status /\ r.final = artifact.final
    BY <2>2, <2>3, <2>4 DEF Flow!Artifact
  <2> HIDE DEF r
  <2> QED BY <2>1, <2>5, <2>6, SavesInv
<1>4. ASSUME NEW id \in EvidenceIds, NEW e \in Evidence, Flow!AddEvidence(id, e.kind, e.status)
      PROVE  FlowInv'
  <2> DEFINE r == [artifact EXCEPT !.evidence = @ \cup {[id |-> id, kind |-> e.kind, status |-> e.status]}]
  <2>1. Flow!Loaded /\ Flow!Save(r)
    BY <1>4 DEF Flow!AddEvidence
  <2>2. artifact \in Flow!Artifact /\ IsFiniteSet(artifact.workers)
    BY <2>1, LoadedArtifact
  <2>3. e.kind \in STRING /\ e.status \in STRING
    BY FlowAssumption DEF Flow!ConstantsAssumption
  <2>4. /\ r \in Flow!Artifact /\ r.workers = artifact.workers
        /\ r.status = artifact.status /\ r.final = artifact.final
    BY <2>2, <2>3 DEF Flow!Artifact
  <2> HIDE DEF r
  <2> QED BY <2>1, <2>2, <2>4, SavesInv
<1>5. ASSUME NEW rec \in Flow!Recommendations, NEW d \in {0, 10}, NEW ok \in BOOLEAN,
             Flow!RecordComparison(rec, d, ok)
      PROVE  FlowInv'
  <2> DEFINE r == [artifact EXCEPT !.comparison = [rec |-> rec, delta |-> d, reviewable |-> ok]]
  <2>1. Flow!Loaded /\ Flow!Save(r)
    BY <1>5 DEF Flow!RecordComparison
  <2>2. artifact \in Flow!Artifact /\ IsFiniteSet(artifact.workers)
    BY <2>1, LoadedArtifact
  <2>3. /\ r \in Flow!Artifact /\ r.workers = artifact.workers
        /\ r.status = artifact.status /\ r.final = artifact.final
    BY <2>2 DEF Flow!Artifact
  <2> HIDE DEF r
  <2> QED BY <2>1, <2>2, <2>3, SavesInv
<1>6. ASSUME NEW w \in Nat, NEW c \in Nat, NEW u \in {0, 1}, Flow!RecordMetrics(w, c, u)
      PROVE  FlowInv'
  <2> DEFINE r == [artifact EXCEPT !.metrics = [workers |-> w, concurrent |-> c, unsupported |-> u]]
  <2>1. Flow!Loaded /\ Flow!Save(r)
    BY <1>6 DEF Flow!RecordMetrics
  <2>2. artifact \in Flow!Artifact /\ IsFiniteSet(artifact.workers)
    BY <2>1, LoadedArtifact
  <2>3. /\ r \in Flow!Artifact /\ r.workers = artifact.workers
        /\ r.status = artifact.status /\ r.final = artifact.final
    BY <2>2 DEF Flow!Artifact
  <2> HIDE DEF r
  <2> QED BY <2>1, <2>2, <2>3, SavesInv
<1>7. ASSUME NEW ok \in BOOLEAN, Flow!RecordApproval(ok)
      PROVE  FlowInv'
  <2> DEFINE r == [artifact EXCEPT !.approval = [approved |-> TRUE, reviewable |-> ok]]
  <2>1. Flow!Loaded /\ Flow!Save(r)
    BY <1>7 DEF Flow!RecordApproval
  <2>2. artifact \in Flow!Artifact /\ IsFiniteSet(artifact.workers)
    BY <2>1, LoadedArtifact
  <2>3. /\ r \in Flow!Artifact /\ r.workers = artifact.workers
        /\ r.status = artifact.status /\ r.final = artifact.final
    BY <2>2 DEF Flow!Artifact
  <2> HIDE DEF r
  <2> QED BY <2>1, <2>2, <2>3, SavesInv
<1>8. CASE Flow!AddViolation
  <2> DEFINE r == [artifact EXCEPT !.violations = @ + 1]
  <2>1. Flow!Loaded /\ Flow!Save(r)
    BY <1>8 DEF Flow!AddViolation
  <2>2. artifact \in Flow!Artifact /\ IsFiniteSet(artifact.workers)
    BY <2>1, LoadedArtifact
  <2>3. /\ r \in Flow!Artifact /\ r.workers = artifact.workers
        /\ r.status = artifact.status /\ r.final = artifact.final
    BY <2>2 DEF Flow!Artifact
  <2> HIDE DEF r
  <2> QED BY <2>1, <2>2, <2>3, SavesInv
<1>9. ASSUME NEW f \in Flow!Recommendations, Flow!Complete(f)
      PROVE  FlowInv'
  <2> DEFINE r == [artifact EXCEPT !.status = "completed", !.verified = TRUE, !.final = f]
  <2>1. Flow!Loaded /\ Flow!Save(r) /\ Flow!Valid(r)
    BY <1>9 DEF Flow!Complete, Flow!Save
  <2>2. artifact \in Flow!Artifact /\ IsFiniteSet(artifact.workers) /\ Flow!Valid(artifact)
    BY <2>1, LoadedArtifact
  <2>3. /\ r \in Flow!Artifact /\ r.workers = artifact.workers /\ r.comparison = artifact.comparison
        /\ r.status = "completed" /\ r.final = f
    BY <2>2 DEF Flow!Artifact
  <2> HIDE DEF r
  <2>4. artifact.status = "completed" => r.final = artifact.final
    BY <2>1, <2>2, <2>3 DEF Flow!Valid, Flow!CompletionValid
  <2> QED BY <2>1, <2>2, <2>3, <2>4, SavesInv
<1>10. CASE Flow!WriteOut
  BY <1>10 DEF FlowInv, Flow!WriteOut
<1>11. CASE Flow!CommandDies
  BY <1>11 DEF FlowInv, Flow!CommandDies
<1>12. \A w \in 0 .. Flow!Cardinality(WorkerIds) : w \in Nat
  OBVIOUS
<1> QED BY <1>1, <1>2, <1>3, <1>4, <1>5, <1>6, <1>7, <1>8, <1>9, <1>10, <1>11, <1>12 DEF Flow!Next

LEMMA VerdictKept ==
  ASSUME FlowInv, FlowInv', [Flow!Next]_(Flow!vars)
  PROVE  Flow!KeepsVerdict
<1> USE NoArtifact
<1>1. artifact' \in Flow!Artifact /\ artifact'.final = "promote" => artifact'.violations = 0
  BY DEF FlowInv, Flow!Valid, Flow!PromotionValid
<1>2. ASSUME artifact \in Flow!Artifact, artifact.status = "completed", artifact' \in Flow!Artifact, ~forced
      PROVE  artifact'.status = "completed" /\ artifact'.final = artifact.final
  <2>1. CASE artifact' = artifact
    BY <2>1, <1>2
  <2>2. CASE Flow!WriteOut
    BY <2>2, <1>2 DEF FlowInv, Flow!WriteOut
  <2>3. CASE Flow!CommandDies
    BY <2>3, <1>2 DEF Flow!CommandDies
  <2> QED BY <2>1, <2>2, <2>3
       DEF Flow!Next, Flow!vars, Flow!Start, Flow!AddWorker, Flow!AddEvidence, Flow!RecordComparison,
           Flow!RecordMetrics, Flow!RecordApproval, Flow!AddViolation, Flow!Complete, Flow!Save
<1> QED BY <1>1, <1>2 DEF FlowInv, Flow!KeepsVerdict

--------------------------------------------------------------------------------
(* The choice of a route                                                    *)

\* Among five scores there is a best one, once ties are broken.
LEMMA BestRoute ==
  ASSUME NEW s \in [Route!Routes -> Int]
  PROVE  \E r \in Route!Routes : \A q \in Route!Routes \ {r} :
           s[r] > s[q] \/ (s[r] = s[q] /\ Route!TieBreak[r] > Route!TieBreak[q])
<1> DEFINE w == [r \in Route!Routes |-> 10 * s[r] + Route!TieBreak[r]]
<1>1. /\ Route!Routes = {"direct_execution", "bounded_subagents", "team_executor", "research_fanout",
                         "no_write_dry_run"}
      /\ Route!TieBreak["direct_execution"] = 4 /\ Route!TieBreak["bounded_subagents"] = 3
      /\ Route!TieBreak["team_executor"] = 1 /\ Route!TieBreak["research_fanout"] = 2
      /\ Route!TieBreak["no_write_dry_run"] = 5
  BY DEF Route!Routes, Route!TieBreak
<1>2. \A r \in Route!Routes : Route!TieBreak[r] \in 1..5 /\ s[r] \in Int
  BY <1>1
<1>3. \A r, q \in Route!Routes : r # q => Route!TieBreak[r] # Route!TieBreak[q]
  BY <1>1
<1>4. \E r \in Route!Routes : \A q \in Route!Routes \ {r} :
        10 * s[r] + Route!TieBreak[r] >= 10 * s[q] + Route!TieBreak[q]
  BY <1>1, <1>2
<1>5. PICK r \in Route!Routes : \A q \in Route!Routes \ {r} :
        10 * s[r] + Route!TieBreak[r] >= 10 * s[q] + Route!TieBreak[q]
  BY <1>4
<1>6. ASSUME NEW q \in Route!Routes \ {r}
      PROVE  s[r] > s[q] \/ (s[r] = s[q] /\ Route!TieBreak[r] > Route!TieBreak[q])
  BY <1>2, <1>3, <1>5
<1> QED BY <1>6

LEMMA RawScores ==
  ASSUME NEW c
  PROVE  /\ Route!RouteScores(c) \in [Route!Routes -> Int]
         /\ Route!RouteScores(c)["no_write_dry_run"] >= 0
<1> DEFINE raw == Route!RouteScores(c)
<1>1. raw["direct_execution"] \in Nat
  BY DEF Route!RouteScores, Route!Routes, Route!Given
<1>2. raw["bounded_subagents"] \in Nat
  BY DEF Route!RouteScores, Route!Routes, Route!Given
<1>3. raw["team_executor"] \in Nat
  BY DEF Route!RouteScores, Route!Routes, Route!Given
<1>4. raw["research_fanout"] \in Nat
  BY DEF Route!RouteScores, Route!Routes, Route!Given
<1>5. raw["no_write_dry_run"] \in Nat
  BY DEF Route!RouteScores, Route!Routes, Route!Given
<1>6. raw = [r \in Route!Routes |-> raw[r]]
  BY DEF Route!RouteScores
<1> HIDE DEF raw
<1>7. raw \in [Route!Routes -> Nat]
  BY <1>1, <1>2, <1>3, <1>4, <1>5, <1>6 DEF Route!Routes
<1> QED BY <1>5, <1>7 DEF raw

LEMMA CappedScores ==
  ASSUME NEW c, NEW s \in [Route!Routes -> Int]
  PROVE  LET k == Route!Capped(c, s) IN
         /\ k \in [Route!Routes -> Int] /\ k["no_write_dry_run"] = s["no_write_dry_run"]
         /\ c.scopes \in {"overlapping", "unknown"} => k["team_executor"] = -1
<1> DEFINE k == Route!Capped(c, s)
<1>1. \A a, b \in Int : Route!Least(a, b) \in Int /\ (a = -1 /\ b = 0 => Route!Least(a, b) = -1)
  BY DEF Route!Least
<1>2. {"direct_execution", "bounded_subagents", "team_executor", "research_fanout", "no_write_dry_run"}
        = Route!Routes
  BY DEF Route!Routes
<1> DEFINE team == IF c.roi = "low"
                   THEN Route!Least(IF c.scopes \in {"overlapping", "unknown"} THEN -1 ELSE s["team_executor"], 0)
                   ELSE IF c.scopes \in {"overlapping", "unknown"} THEN -1 ELSE s["team_executor"]
<1> DEFINE lowered(n) == IF c.roi = "low" THEN Route!Least(n, 2) ELSE n
<1> DEFINE bounded == lowered(IF c.scopes = "overlapping" THEN Route!Least(s["bounded_subagents"], 1)
                             ELSE s["bounded_subagents"])
<1> DEFINE research == IF c.breadth = "narrow" /\ c.class \notin {"research", "architecture"}
                       THEN Route!Least(lowered(s["research_fanout"]), 1) ELSE lowered(s["research_fanout"])
<1>3. k = [s EXCEPT !["team_executor"] = team, !["bounded_subagents"] = bounded,
                    !["research_fanout"] = research]
  BY DEF Route!Capped
<1> DEFINE shared == IF c.scopes \in {"overlapping", "unknown"} THEN -1 ELSE s["team_executor"]
<1> DEFINE apart == IF c.scopes = "overlapping" THEN Route!Least(s["bounded_subagents"], 1)
                    ELSE s["bounded_subagents"]
<1>4. team \in Int /\ bounded \in Int /\ research \in Int
  <2>1. s["team_executor"] \in Int /\ s["bounded_subagents"] \in Int /\ s["research_fanout"] \in Int
    BY <1>2
  <2>2. shared \in Int /\ apart \in Int
    <3>1. Route!Least(s["bounded_subagents"], 1) \in Int
      BY <2>1 DEF Route!Least
    <3>2. -1 \in Int
      OBVIOUS
    <3> QED BY <2>1, <3>1, <3>2, Zenon
  <2>3. \A n \in Int : lowered(n) \in Int
    BY <1>1
  <2>4. team \in Int
    <3>1. team = IF c.roi = "low" THEN Route!Least(shared, 0) ELSE shared
      OBVIOUS
    <3> HIDE DEF shared, team
    <3> QED BY <1>1, <2>2, <3>1
  <2>5. bounded \in Int
    <3>1. bounded = lowered(apart)
      OBVIOUS
    <3> HIDE DEF apart, lowered, bounded
    <3> QED BY <2>2, <2>3, <3>1
  <2>6. research \in Int
    <3> DEFINE n == lowered(s["research_fanout"])
    <3>1. n \in Int
      BY <2>1, <2>3
    <3>2. research = IF c.breadth = "narrow" /\ c.class \notin {"research", "architecture"}
                     THEN Route!Least(n, 1) ELSE n
      OBVIOUS
    <3> HIDE DEF n, research
    <3> QED BY <1>1, <3>1, <3>2
  <2> QED BY <2>4, <2>5, <2>6
<1>5. c.scopes \in {"overlapping", "unknown"} => team = -1
  BY <1>1
<1> HIDE DEF k, team, bounded, research
<1>6. /\ k \in [Route!Routes -> Int] /\ k["no_write_dry_run"] = s["no_write_dry_run"]
      /\ k["team_executor"] = team
  BY <1>2, <1>3, <1>4
<1> QED BY <1>5, <1>6 DEF k

\* What the host cannot do is ruled out, and a backend that is needed outbids the dry run.
LEMMA BackedScores ==
  ASSUME NEW c, NEW s \in [Route!Routes -> Int], s["no_write_dry_run"] >= 0,
         c.scopes \in {"overlapping", "unknown"} => s["team_executor"] = -1
  PROVE  LET b == Route!Backed(c, s)
             needs == Route!NeedsBackend(c)
             lacks == Route!FallbackReasons(c) # {} IN
         /\ b \in [Route!Routes -> Int] /\ b["no_write_dry_run"] >= 0
         /\ lacks => b["bounded_subagents"] = -1 /\ b["research_fanout"] = -1
         /\ c.scopes \in {"overlapping", "unknown"} /\ ~(needs /\ lacks) => b["team_executor"] = -1
         /\ needs => b["direct_execution"] = -1
         /\ needs /\ ~lacks => \/ b["bounded_subagents"] > b["no_write_dry_run"]
                               \/ b["research_fanout"] > b["no_write_dry_run"]
         /\ needs /\ lacks => b["team_executor"] > b["no_write_dry_run"]
<1> DEFINE b == Route!Backed(c, s)
<1> DEFINE needs == Route!NeedsBackend(c)
<1> DEFINE lacks == Route!FallbackReasons(c) # {}
<1> DEFINE dry == s["no_write_dry_run"] + 1
<1>1. Route!Routes = {"direct_execution", "bounded_subagents", "team_executor", "research_fanout",
                      "no_write_dry_run"}
  BY DEF Route!Routes
<1>2. \A m, n \in Int : Route!Most(m, n) \in Int /\ Route!Most(m, n) >= n
  BY DEF Route!Most
<1>3. dry \in Int /\ dry = s["no_write_dry_run"] + 1 /\ \A r \in Route!Routes : s[r] \in Int
  BY <1>1
<1> HIDE DEF dry
<1>8. \A r \in Route!Routes : Route!Most(s[r], dry) \in Int /\ Route!Most(s[r], dry) >= dry
  BY <1>2, <1>3
<1>4. CASE needs /\ lacks
  <2>1. b = [r \in Route!Routes |-> IF r = "team_executor" THEN Route!Most(s[r], dry)
                                    ELSE IF r = "no_write_dry_run" THEN s[r] ELSE -1]
    BY <1>4 DEF Route!Backed, dry
  <2> HIDE DEF b
  <2>2. \A r \in Route!Routes : b[r] \in Int
    BY <1>3, <1>8, <2>1
  <2>3. b \in [Route!Routes -> Int]
    BY <2>1, <2>2
  <2>4. /\ b["team_executor"] >= dry /\ b["no_write_dry_run"] = s["no_write_dry_run"]
        /\ b["bounded_subagents"] = -1 /\ b["research_fanout"] = -1 /\ b["direct_execution"] = -1
    BY <1>1, <1>3, <1>8, <2>1
  <2> QED BY <1>1, <1>3, <1>4, <2>2, <2>3, <2>4 DEF b
<1>5. CASE needs /\ ~lacks
  <2> DEFINE best == IF s["bounded_subagents"] >= s["research_fanout"] THEN "bounded_subagents"
                     ELSE "research_fanout"
  <2>1. b = [r \in Route!Routes |-> IF r \in {"direct_execution", "team_executor"} THEN -1
                                    ELSE IF r = best THEN Route!Most(s[r], dry) ELSE s[r]]
    BY <1>5 DEF Route!Backed, dry
  <2>2. best \in {"bounded_subagents", "research_fanout"}
    OBVIOUS
  <2> HIDE DEF b, best
  <2>3. \A r \in Route!Routes : b[r] \in Int
    BY <1>3, <1>8, <2>1
  <2>4. b \in [Route!Routes -> Int]
    BY <2>1, <2>3
  <2>5. /\ b[best] >= dry /\ b["no_write_dry_run"] = s["no_write_dry_run"]
        /\ b["team_executor"] = -1 /\ b["direct_execution"] = -1
    BY <1>1, <1>3, <1>8, <2>1, <2>2
  <2> QED BY <1>1, <1>3, <1>5, <2>2, <2>3, <2>4, <2>5 DEF b
<1>6. CASE ~needs /\ lacks
  <2>1. b = [r \in Route!Routes |-> IF r \in Route!Native THEN -1 ELSE s[r]]
    BY <1>6 DEF Route!Backed
  <2> HIDE DEF b
  <2>2. \A r \in Route!Routes : b[r] \in Int
    BY <1>3, <2>1
  <2>3. b \in [Route!Routes -> Int]
    BY <2>1, <2>2
  <2>4. /\ b["no_write_dry_run"] = s["no_write_dry_run"] /\ b["team_executor"] = s["team_executor"]
        /\ b["bounded_subagents"] = -1 /\ b["research_fanout"] = -1
    BY <1>1, <2>1 DEF Route!Native
  <2> QED BY <1>6, <2>3, <2>4 DEF b
<1>7. CASE ~needs /\ ~lacks
  <2>1. b = [r \in Route!Routes |-> IF r = "team_executor" THEN -1 ELSE s[r]]
    BY <1>7 DEF Route!Backed
  <2> HIDE DEF b
  <2>2. \A r \in Route!Routes : b[r] \in Int
    BY <1>3, <2>1
  <2>3. b \in [Route!Routes -> Int]
    BY <2>1, <2>2
  <2>4. b["no_write_dry_run"] = s["no_write_dry_run"] /\ b["team_executor"] = -1
    BY <1>1, <2>1
  <2> QED BY <1>7, <2>3, <2>4 DEF b
<1> QED BY <1>4, <1>5, <1>6, <1>7

LEMMA SelectsSupported ==
  ASSUME NEW c, c.scopes \in {"none", "disjoint", "overlapping", "unknown"}, c.healthy \in BOOLEAN
  PROVE  LET r == Route!SelectRoute(c)
             needs == Route!NeedsBackend(c)
             lacks == Route!FallbackReasons(c) # {}
             failed == Route!HardGateFailures(c) # {} IN
         /\ failed => r = "no_write_dry_run"
         /\ r \in Route!Native => ~lacks
         /\ r = "team_executor" => c.healthy /\ c.scopes \in {"none", "disjoint"}
         /\ needs => r # "direct_execution"
         /\ needs /\ ~failed /\ (~lacks \/ c.healthy) => r # "no_write_dry_run"
<1> DEFINE r == Route!SelectRoute(c)
<1> DEFINE needs == Route!NeedsBackend(c)
<1> DEFINE lacks == Route!FallbackReasons(c) # {}
<1> DEFINE failed == Route!HardGateFailures(c) # {}
<1>1. CASE failed
  <2>1. r = "no_write_dry_run"
    BY <1>1 DEF Route!SelectRoute
  <2> QED BY <1>1, <2>1 DEF Route!Native
<1>2. CASE ~failed
  <2> DEFINE s == Route!AdjustedScores(c)
  <2> DEFINE raw == Route!RouteScores(c)
  <2> DEFINE capped == Route!Capped(c, raw)
  <2> DEFINE b == Route!Backed(c, capped)
  <2>1. ~(c.scopes \in {"overlapping", "unknown"} /\ needs)
    BY <1>2 DEF Route!HardGateFailures
  <2>2. raw \in [Route!Routes -> Int] /\ raw["no_write_dry_run"] >= 0
    BY RawScores
  <2>3. /\ capped \in [Route!Routes -> Int] /\ capped["no_write_dry_run"] >= 0
        /\ c.scopes \in {"overlapping", "unknown"} => capped["team_executor"] = -1
    BY <2>2, CappedScores
  <2>4. /\ b \in [Route!Routes -> Int] /\ b["no_write_dry_run"] >= 0
        /\ lacks => b["bounded_subagents"] = -1 /\ b["research_fanout"] = -1
        /\ c.scopes \in {"overlapping", "unknown"} => b["team_executor"] = -1
        /\ needs => b["direct_execution"] = -1
        /\ needs /\ ~lacks => \/ b["bounded_subagents"] > b["no_write_dry_run"]
                              \/ b["research_fanout"] > b["no_write_dry_run"]
        /\ needs /\ lacks => b["team_executor"] > b["no_write_dry_run"]
    <3> HIDE DEF capped, needs, lacks
    <3> QED BY <2>1, <2>3, BackedScores DEF needs, lacks
  <2>5. s = IF c.healthy THEN b ELSE [b EXCEPT !["team_executor"] = -1]
    BY DEF Route!AdjustedScores
  <2>6. Route!Routes = {"direct_execution", "bounded_subagents", "team_executor", "research_fanout",
                        "no_write_dry_run"}
    BY DEF Route!Routes
  <2> HIDE DEF s, b, capped, raw, needs, lacks, failed
  <2>7. /\ s \in [Route!Routes -> Int] /\ s["no_write_dry_run"] = b["no_write_dry_run"]
        /\ s["bounded_subagents"] = b["bounded_subagents"] /\ s["research_fanout"] = b["research_fanout"]
        /\ s["direct_execution"] = b["direct_execution"]
        /\ s["team_executor"] = IF c.healthy THEN b["team_executor"] ELSE -1
    BY <2>4, <2>5, <2>6
  <2>8. r = CHOOSE x \in Route!Routes : \A q \in Route!Routes \ {x} :
              s[x] > s[q] \/ (s[x] = s[q] /\ Route!TieBreak[x] > Route!TieBreak[q])
    BY <1>2 DEF Route!SelectRoute, failed, s
  <2>9. /\ r \in Route!Routes
        /\ \A q \in Route!Routes \ {r} :
              s[r] > s[q] \/ (s[r] = s[q] /\ Route!TieBreak[r] > Route!TieBreak[q])
    <3> HIDE DEF r
    <3> QED BY <2>7, <2>8, BestRoute
  <2> HIDE DEF r
  <2>10. \A q \in Route!Routes : s[r] >= s[q]
    BY <2>6, <2>7, <2>9
  <2>11. s["no_write_dry_run"] >= 0 /\ s[r] >= 0
    BY <2>4, <2>6, <2>7, <2>9, <2>10
  <2>12. r \in Route!Native => ~lacks
    BY <2>4, <2>7, <2>11 DEF Route!Native
  <2>13. r = "team_executor" => c.healthy /\ c.scopes \in {"none", "disjoint"}
    BY <2>4, <2>7, <2>11
  <2>14. needs => r # "direct_execution"
    BY <2>4, <2>7, <2>11
  <2>15. needs /\ (~lacks \/ c.healthy) => r # "no_write_dry_run"
    BY <2>4, <2>6, <2>7, <2>10
  <2> QED BY <1>2, <2>12, <2>13, <2>14, <2>15 DEF r, needs, lacks, failed
<1> QED BY <1>1, <1>2

RouteInv ==
  /\ case.scopes \in {"none", "disjoint", "overlapping", "unknown"} /\ case.healthy \in BOOLEAN
  /\ chosen # Nil => chosen.route = Route!SelectRoute(case)

LEMMA RouteInit == Route!Init => RouteInv
BY RouteAssumption DEF Route!Init, Route!Input, Route!ConstantsAssumption, RouteInv

LEMMA RouteStep == ASSUME RouteInv, [Route!Next]_(Route!vars) PROVE RouteInv'
BY DEF RouteInv, Route!Next, Route!Evaluate, Route!vars

LEMMA RouteFollows == ASSUME RouteInv PROVE Route!RouteIsSupported
BY SelectsSupported DEF RouteInv, Route!RouteIsSupported

--------------------------------------------------------------------------------
(* Planning sessions                                                        *)

LEMMA PlanCount == ASSUME NEW S PROVE Live!Cardinality(S) = Cardinality(S)
BY DEF Cardinality, Live!Cardinality, IsFiniteSet, Live!IsFiniteSet

LEMMA EightAreFinite ==
  ASSUME NEW x1, NEW x2, NEW x3, NEW x4, NEW x5, NEW x6, NEW x7, NEW x8
  PROVE  IsFiniteSet({x1, x2, x3, x4, x5, x6, x7, x8})
<1>1. IsFiniteSet({x1}) /\ IsFiniteSet({x2}) /\ IsFiniteSet({x3}) /\ IsFiniteSet({x4})
      /\ IsFiniteSet({x5}) /\ IsFiniteSet({x6}) /\ IsFiniteSet({x7}) /\ IsFiniteSet({x8})
  BY FS_Singleton
<1>2. /\ IsFiniteSet({x1} \cup {x2}) /\ IsFiniteSet({x3} \cup {x4})
      /\ IsFiniteSet({x5} \cup {x6}) /\ IsFiniteSet({x7} \cup {x8})
  BY <1>1, FS_Union
<1>3. IsFiniteSet(({x1} \cup {x2}) \cup ({x3} \cup {x4})) /\ IsFiniteSet(({x5} \cup {x6}) \cup ({x7} \cup {x8}))
  BY <1>2, FS_Union
<1>4. IsFiniteSet((({x1} \cup {x2}) \cup ({x3} \cup {x4})) \cup (({x5} \cup {x6}) \cup ({x7} \cup {x8})))
  BY <1>3, FS_Union
<1>5. {x1, x2, x3, x4, x5, x6, x7, x8}
        = (({x1} \cup {x2}) \cup ({x3} \cup {x4})) \cup (({x5} \cup {x6}) \cup ({x7} \cup {x8}))
  OBVIOUS
<1> QED BY <1>4, <1>5

LEMMA SomeAreCounted ==
  ASSUME NEW S, IsFiniteSet(S)
  PROVE  Live!Cardinality(S) \in Nat /\ (S # {} => Live!Cardinality(S) > 0)
BY PlanCount, FS_CardinalityType, FS_EmptySet

\* Every score is a percentage, and only what is missing scores nothing.
LEMMA Percentages ==
  /\ \A t \in 0..3 : Live!TextScore(t) \in 0..100 /\ (Live!TextScore(t) = 0 => t = 0)
  /\ \A n \in Nat : /\ Live!ListScore(n, 2, 55) \in 0..100 /\ Live!ListScore(n, 1, 40) \in 0..100
                    /\ Live!ListScore(n, 2, 55) = 0 => n = 0
                    /\ Live!OpenScore(n) \in 0..100 /\ (Live!OpenScore(n) < 85 => n > 0)
  /\ \A l \in Live!Records : /\ Live!OneComplete(l) \in 0..100 /\ Live!AcceptanceScore(l) \in 0..100
                             /\ Live!AcceptanceScore(l) = 0 => l.complete = 0
  /\ \A a \in [title : 0..3, summary : 0..3] :
       Live!ApproachScore(a) \in 0..100 /\ (a = [title |-> 0, summary |-> 0] => Live!ApproachScore(a) = 0)
BY DEF Live!TextScore, Live!ListScore, Live!OpenScore, Live!OneComplete, Live!AcceptanceScore,
       Live!ApproachScore, Live!Records

\* The weights add up to a hundred, so dimensions that are all strong make a strong whole.
LEMMA StrongIntent ==
  ASSUME NEW r,
         r.goal \in 0..100 /\ r.why \in 0..100 /\ r.scope \in 0..100 /\ r.nonGoals \in 0..100,
         r.boundaries \in 0..100 /\ r.constraints \in 0..100 /\ r.acceptance \in 0..100 /\ r.questions \in 0..100
  PROVE  /\ Live!IntentReadiness(r) \in Int
         /\ r.goal >= 85 /\ r.why >= 85 /\ r.scope >= 85 /\ r.nonGoals >= 85
              /\ r.boundaries >= 85 /\ r.constraints >= 85 /\ r.acceptance >= 85 /\ r.questions >= 85
                => Live!IntentReadiness(r) >= 7600
<1>1. PICK a \in 0..100, b \in 0..100, c \in 0..100, d \in 0..100 :
        a = r.goal /\ b = r.why /\ c = r.scope /\ d = r.nonGoals
  OBVIOUS
<1>2. PICK e \in 0..100, f \in 0..100, g \in 0..100, h \in 0..100 :
        e = r.boundaries /\ f = r.constraints /\ g = r.acceptance /\ h = r.questions
  OBVIOUS
<1>3. Live!IntentReadiness(r) = 20 * a + 10 * b + 15 * c + 15 * d + 15 * e + 10 * f + 10 * g + 5 * h
  BY <1>1, <1>2 DEF Live!IntentReadiness
<1> DEFINE sum == 20 * a + 10 * b + 15 * c + 15 * d + 15 * e + 10 * f + 10 * g + 5 * h
<1>4. sum \in Int
  OBVIOUS
<1>5. ASSUME a >= 85, b >= 85, c >= 85, d >= 85, e >= 85, f >= 85, g >= 85, h >= 85
      PROVE  sum >= 7600
  BY <1>5
<1> HIDE DEF sum
<1>6. Live!IntentReadiness(r) = sum
  BY <1>3 DEF sum
<1> QED BY <1>1, <1>2, <1>4, <1>5, <1>6

LEMMA StrongDesign ==
  ASSUME NEW r,
         r.frame \in 0..100 /\ r.approach \in 0..100 /\ r.alternatives \in 0..100 /\ r.tradeoffs \in 0..100,
         r.decisions \in 0..100 /\ r.assumptions \in 0..100 /\ r.risks \in 0..100 /\ r.validation \in 0..100
  PROVE  /\ Live!DesignReadiness(r) \in Int
         /\ r.frame >= 85 /\ r.approach >= 85 /\ r.alternatives >= 85 /\ r.tradeoffs >= 85
              /\ r.decisions >= 85 /\ r.assumptions >= 85 /\ r.risks >= 85 /\ r.validation >= 85
                => Live!DesignReadiness(r) >= 7600
<1>1. PICK a \in 0..100, b \in 0..100, c \in 0..100, d \in 0..100 :
        a = r.frame /\ b = r.approach /\ c = r.alternatives /\ d = r.tradeoffs
  OBVIOUS
<1>2. PICK e \in 0..100, f \in 0..100, g \in 0..100, h \in 0..100 :
        e = r.decisions /\ f = r.assumptions /\ g = r.risks /\ h = r.validation
  OBVIOUS
<1>3. Live!DesignReadiness(r) = 14 * a + 20 * b + 16 * c + 16 * d + 12 * e + 8 * f + 8 * g + 6 * h
  BY <1>1, <1>2 DEF Live!DesignReadiness
<1> DEFINE sum == 14 * a + 20 * b + 16 * c + 16 * d + 12 * e + 8 * f + 8 * g + 6 * h
<1>4. sum \in Int
  OBVIOUS
<1>5. ASSUME a >= 85, b >= 85, c >= 85, d >= 85, e >= 85, f >= 85, g >= 85, h >= 85
      PROVE  sum >= 7600
  BY <1>5
<1> HIDE DEF sum
<1>6. Live!DesignReadiness(r) = sum
  BY <1>3 DEF sum
<1> QED BY <1>1, <1>2, <1>4, <1>5, <1>6

\* Whatever the answers, a score below the threshold has a dimension weak enough to ask about.
LEMMA IntentIsAskable ==
  ASSUME intent \in Live!Intent, Live!IntentUnclear
  PROVE  Live!IntentQuestions > 0 /\ Live!IntentQuestions \in Int
<1> DEFINE dims == Live!IntentDimensions(intent)
<1> DEFINE weak == Live!Weak(dims)
<1>1. /\ DOMAIN dims = {"goal", "why", "scope", "nonGoals", "boundaries", "constraints", "acceptance",
                        "questions"}
      /\ dims.goal \in 0..100 /\ dims.why \in 0..100 /\ dims.scope \in 0..100 /\ dims.nonGoals \in 0..100
      /\ dims.boundaries \in 0..100 /\ dims.constraints \in 0..100 /\ dims.acceptance \in 0..100
      /\ dims.questions \in 0..100 /\ dims.questions = Live!OpenScore(intent.questions)
      /\ intent.questions \in Nat
  BY Percentages DEF Live!IntentDimensions, Live!Intent
<1>strong. /\ Live!IntentReadiness(dims) \in Int
           /\ dims.goal >= 85 /\ dims.why >= 85 /\ dims.scope >= 85 /\ dims.nonGoals >= 85
                /\ dims.boundaries >= 85 /\ dims.constraints >= 85 /\ dims.acceptance >= 85 /\ dims.questions >= 85
                  => Live!IntentReadiness(dims) >= 7600
  <2> HIDE DEF dims
  <2> QED BY <1>1, StrongIntent
<1>2. \/ Live!IntentReadiness(dims) < 7200
      \/ Live!Gaps(dims, Live!IntentRequired) # {}
  <2>1. Live!IntentThreshold \in {6800, 7200}
    BY DEF Live!IntentThreshold
  <2> HIDE DEF dims
  <2>2. Live!IntentReadiness(dims) \in Int
    BY <1>strong
  <2>3. Live!IntentReadiness(dims) < Live!IntentThreshold \/ Live!Gaps(dims, Live!IntentRequired) # {}
    BY DEF Live!IntentUnclear, dims
  <2> QED BY <2>1, <2>2, <2>3
<1> HIDE DEF dims
<1>3. weak # {}
  <2>1. CASE Live!Gaps(dims, Live!IntentRequired) # {}
    BY <1>1, <2>1 DEF Live!Gaps, Live!IntentRequired, Live!Weak
  <2>2. CASE Live!IntentReadiness(dims) < 7200
    <3>1. SUFFICES ASSUME weak = {} PROVE FALSE
      OBVIOUS
    <3>2. /\ dims.goal >= 85 /\ dims.why >= 85 /\ dims.scope >= 85 /\ dims.nonGoals >= 85
          /\ dims.boundaries >= 85 /\ dims.constraints >= 85 /\ dims.acceptance >= 85
          /\ dims.questions >= 85
      BY <1>1, <3>1 DEF Live!Weak
    <3> QED BY <1>strong, <2>2, <3>2
  <2> QED BY <1>2, <2>1, <2>2
<1>4. IsFiniteSet(weak \ {"questions"})
  <2> HIDE DEF dims
  <2> DEFINE all == {"goal", "why", "scope", "nonGoals", "boundaries", "constraints",
                     "acceptance", "questions"}
  <2>1. IsFiniteSet(all)
    BY EightAreFinite, Zenon
  <2>2. DOMAIN dims = all
    BY <1>1
  <2> HIDE DEF all
  <2> QED BY <2>1, <2>2, FS_Subset DEF Live!Weak
<1> DEFINE n == Live!Cardinality(weak \ {"questions"})
<1> DEFINE own == IF "questions" \in weak THEN intent.questions ELSE 0
<1>5. n \in Nat /\ (weak \ {"questions"} # {} => n > 0)
  BY <1>4, SomeAreCounted
<1>6. own \in Nat /\ ("questions" \in weak => own > 0)
  BY <1>1, Percentages DEF Live!Weak
<1>7. Live!IntentQuestions = Live!AtMostSix(n + own)
  BY DEF Live!IntentQuestions, dims
<1>8. n + own > 0 /\ n + own \in Nat
  <2> HIDE DEF n, own, weak
  <2> QED BY <1>3, <1>5, <1>6
<1> HIDE DEF n, own
<1> QED BY <1>7, <1>8 DEF Live!AtMostSix

LEMMA DesignIsAskable ==
  ASSUME design \in Live!Design, Live!DesignUnclear
  PROVE  Live!DesignQuestions > 0 /\ Live!DesignQuestions \in Int
<1> DEFINE dims == Live!DesignDimensions(design)
<1> DEFINE weak == Live!Weak(dims)
<1>1. /\ DOMAIN dims = {"frame", "approach", "alternatives", "tradeoffs", "decisions", "assumptions",
                        "risks", "validation"}
      /\ dims.frame \in 0..100 /\ dims.approach \in 0..100 /\ dims.alternatives \in 0..100
      /\ dims.tradeoffs \in 0..100 /\ dims.decisions \in 0..100 /\ dims.assumptions \in 0..100
      /\ dims.risks \in 0..100 /\ dims.validation \in 0..100
  BY Percentages DEF Live!DesignDimensions, Live!Design
<1>strong. /\ Live!DesignReadiness(dims) \in Int
           /\ dims.frame >= 85 /\ dims.approach >= 85 /\ dims.alternatives >= 85 /\ dims.tradeoffs >= 85
                /\ dims.decisions >= 85 /\ dims.assumptions >= 85 /\ dims.risks >= 85 /\ dims.validation >= 85
                  => Live!DesignReadiness(dims) >= 7600
  <2> HIDE DEF dims
  <2> QED BY <1>1, StrongDesign
<1>2. \/ Live!DesignReadiness(dims) < 7600
      \/ Live!Gaps(dims, Live!DesignRequired) # {}
  <2>1. Live!DesignThreshold \in {7000, 7600}
    BY DEF Live!DesignThreshold
  <2> HIDE DEF dims
  <2>2. Live!DesignReadiness(dims) \in Int
    BY <1>strong
  <2>3. Live!DesignReadiness(dims) < Live!DesignThreshold \/ Live!Gaps(dims, Live!DesignRequired) # {}
    BY DEF Live!DesignUnclear, dims
  <2> QED BY <2>1, <2>2, <2>3
<1> HIDE DEF dims
<1>3. weak # {}
  <2>1. CASE Live!Gaps(dims, Live!DesignRequired) # {}
    BY <1>1, <2>1 DEF Live!Gaps, Live!DesignRequired, Live!Weak
  <2>2. CASE Live!DesignReadiness(dims) < 7600
    <3>1. SUFFICES ASSUME weak = {} PROVE FALSE
      OBVIOUS
    <3>2. /\ dims.frame >= 85 /\ dims.approach >= 85 /\ dims.alternatives >= 85 /\ dims.tradeoffs >= 85
          /\ dims.decisions >= 85 /\ dims.assumptions >= 85 /\ dims.risks >= 85 /\ dims.validation >= 85
      BY <1>1, <3>1 DEF Live!Weak
    <3> QED BY <1>strong, <2>2, <3>2
  <2> QED BY <1>2, <2>1, <2>2
<1>4. IsFiniteSet(weak)
  <2> HIDE DEF dims
  <2> DEFINE all == {"frame", "approach", "alternatives", "tradeoffs", "decisions", "assumptions",
                     "risks", "validation"}
  <2>1. IsFiniteSet(all)
    BY EightAreFinite, Zenon
  <2>2. DOMAIN dims = all
    BY <1>1
  <2> HIDE DEF all
  <2> QED BY <2>1, <2>2, FS_Subset DEF Live!Weak
<1>5. Live!Cardinality(weak) \in Nat /\ Live!Cardinality(weak) > 0
  BY <1>3, <1>4, SomeAreCounted
<1>6. Live!DesignQuestions = Live!AtMostSix(Live!Cardinality(weak))
  BY DEF Live!DesignQuestions, dims
<1> HIDE DEF weak
<1> QED BY <1>5, <1>6 DEF Live!AtMostSix

PlanInv ==
  /\ mode \in Modes /\ live \in BOOLEAN
  /\ intent \in Live!Intent /\ design \in Live!Design
  /\ Live!GatesAreAsked

LEMMA PlanInit == Live!Init => PlanInv
BY PlanningAssumption DEF Live!Init, Live!ConstantsAssumption, PlanInv, Live!GatesAreAsked

\* What asks a number of questions writes as many into the register.
LEMMA AskingStep ==
  ASSUME PlanInv, NEW type, NEW stage, NEW n \in Int, n > 0, type # "ready_for_decomposition",
         Live!Result(type, stage, n)
  PROVE  PlanInv'
<1>1. /\ action' = [type |-> type, stage |-> stage, questions |-> n]
      /\ asked' = [stage |-> stage, blocking |-> n]
      /\ UNCHANGED <<mode, profile, live, intent, design>>
  BY DEF Live!Result
<1>2. Live!GatesAreAsked'
  BY <1>1 DEF Live!GatesAreAsked
<1> QED BY <1>1, <1>2 DEF PlanInv

LEMMA ReadyStep ==
  ASSUME PlanInv, Live!Ready
  PROVE  PlanInv'
<1>1. /\ action'.type = "ready_for_decomposition"
      /\ UNCHANGED <<mode, profile, live, intent, design>>
  BY DEF Live!Ready, Live!Result
<1>2. /\ intent \in Live!Intent /\ design \in Live!Design
      /\ mode \in {"full", "design-to-plan", "decompose-only"}
  BY PlanningAssumption DEF PlanInv, Live!ConstantsAssumption
<1>3. Live!Approved(design) /\ ~Live!DesignUnclear /\ ~Live!AsksIntent
  BY DEF Live!Ready
<1>4. \/ intent.status = "approved" \/ (intent.status = "waived" /\ (live => intent.explicit))
      \/ mode = "decompose-only" \/ (mode = "design-to-plan" /\ intent.status = Nil)
  BY <1>2, <1>3 DEF Live!AsksIntent, Live!IntentToApprove, Live!Approved
<1>5. design.status = "approved" \/ (design.status = "waived" /\ (live => design.explicit))
  BY <1>3 DEF Live!Approved
<1>6. design.approach # [title |-> 0, summary |-> 0]
  <2> DEFINE dims == Live!DesignDimensions(design)
  <2>1. dims["approach"] # 0
    BY <1>3 DEF Live!DesignUnclear, Live!Gaps, Live!DesignRequired
  <2>2. dims["approach"] = Live!ApproachScore(design.approach)
    BY DEF Live!DesignDimensions
  <2>3. design.approach \in [title : 0..3, summary : 0..3]
    BY <1>2 DEF Live!Design
  <2> QED BY <2>1, <2>2, <2>3, Percentages
<1>7. ASSUME mode # "decompose-only"
      PROVE  intent.goal > 0 /\ intent.acceptance.complete > 0
  <2> DEFINE dims == Live!IntentDimensions(intent)
  <2>1. dims["goal"] # 0 /\ dims["acceptance"] # 0
    BY <1>3, <1>7 DEF Live!AsksIntent, Live!IntentUnclear, Live!Gaps, Live!IntentRequired
  <2>2. /\ dims["goal"] = Live!TextScore(intent.goal)
        /\ dims["acceptance"] = Live!AcceptanceScore(intent.acceptance)
    BY DEF Live!IntentDimensions
  <2>3. intent.goal \in 0..3 /\ intent.acceptance.complete \in Nat
    BY <1>2 DEF Live!Intent, Live!Records
  <2>4. intent.goal # 0 /\ intent.acceptance.complete # 0
    BY <2>1, <2>2, <2>3 DEF Live!TextScore, Live!AcceptanceScore, Live!ListScore
  <2> QED BY <2>3, <2>4
<1>8. Live!GatesAreAsked'
  BY <1>1, <1>4, <1>5, <1>6, <1>7 DEF Live!GatesAreAsked
<1> QED BY <1>1, <1>8 DEF PlanInv

LEMMA PlanStep ==
  ASSUME PlanInv, [Live!Next]_(Live!vars)
  PROVE  PlanInv'
<1>1. CASE UNCHANGED Live!vars
  BY <1>1 DEF PlanInv, Live!vars, Live!GatesAreAsked
<1>2. CASE Live!AskIntent
  <2>1. Live!IntentQuestions > 0 /\ Live!IntentQuestions \in Int
    BY <1>2, IntentIsAskable DEF PlanInv, Live!AskIntent
  <2> DEFINE type == IF mode = "full" THEN "ask_questions" ELSE "reenter_deep_interview"
  <2>2. Live!Result(type, "intent_clarification", Live!IntentQuestions)
    BY <1>2 DEF Live!AskIntent
  <2>3. type # "ready_for_decomposition"
    OBVIOUS
  <2> HIDE DEF type
  <2> QED BY <2>1, <2>2, <2>3, AskingStep
<1>3. CASE Live!ApproveIntent
  BY <1>3, AskingStep DEF Live!ApproveIntent
<1>4. CASE Live!AskDesign
  <2>1. Live!DesignQuestions > 0 /\ Live!DesignQuestions \in Int
    BY <1>4, DesignIsAskable DEF PlanInv, Live!AskDesign
  <2> DEFINE type == IF mode = "decompose-only" THEN "reenter_brainstorming" ELSE "ask_questions"
  <2>2. Live!Result(type, "design_clarification", Live!DesignQuestions)
    BY <1>4 DEF Live!AskDesign
  <2>3. type # "ready_for_decomposition"
    OBVIOUS
  <2> HIDE DEF type
  <2> QED BY <2>1, <2>2, <2>3, AskingStep
<1>5. CASE Live!ApproveDesign
  BY <1>5, AskingStep DEF Live!ApproveDesign
<1>6. CASE Live!Ready
  BY <1>6, ReadyStep
<1>7. ASSUME NEW i \in Intents, Live!AnswerIntent(i)
      PROVE  PlanInv'
  BY <1>7, PlanningAssumption DEF PlanInv, Live!AnswerIntent, Live!ConstantsAssumption, Live!GatesAreAsked
<1>8. ASSUME NEW d \in Designs, Live!AnswerDesign(d)
      PROVE  PlanInv'
  BY <1>8, PlanningAssumption DEF PlanInv, Live!AnswerDesign, Live!ConstantsAssumption, Live!GatesAreAsked
<1> QED BY <1>1, <1>2, <1>3, <1>4, <1>5, <1>6, <1>7, <1>8 DEF Live!Next

--------------------------------------------------------------------------------
(* Lists without repetition                                                 *)

\* One step of UniqueAppend, and one of Without.
AddOne(p, r, x) == IF x \in Range(r) THEN r ELSE Append(r, x)
KeepOne(p, r, x) == IF x \in p THEN r ELSE Append(r, x)
Adding == INSTANCE FoldFacts WITH Step <- AddOne
Keeping == INSTANCE FoldFacts WITH Step <- KeepOne

LEMMA GatesLists ==
  ASSUME NEW s, NEW t
  PROVE  /\ Gates!UniqueAppend(s, t) = Adding!Folded({}, s, t)
         /\ Gates!Without(s, t) = Keeping!Folded(t, <<>>, s)
<1>1. Gates!UniqueAppend(s, t) = Adding!Folded({}, s, t)
  BY Zenon DEF Gates!UniqueAppend, Gates!FoldLeft, Gates!MapThenFoldSet, Gates!Max, Gates!Range, AddOne, Range,
     Adding!Folded, Adding!FoldLeft, Adding!MapThenFoldSet, Adding!Max
<1>2. Gates!Without(s, t) = Keeping!Folded(t, <<>>, s)
  BY Zenon DEF Gates!Without, Gates!FoldLeft, Gates!MapThenFoldSet, Gates!Max, KeepOne,
     Keeping!Folded, Keeping!FoldLeft, Keeping!MapThenFoldSet, Keeping!Max
<1> QED BY <1>1, <1>2

LEMMA CapsuleLists ==
  ASSUME NEW s, NEW t
  PROVE  /\ Capsule!UniqueAppend(s, t) = Adding!Folded({}, s, t)
         /\ Capsule!Without(s, t) = Keeping!Folded(t, <<>>, s)
<1>1. Capsule!UniqueAppend(s, t) = Adding!Folded({}, s, t)
  BY Zenon DEF Capsule!UniqueAppend, Capsule!FoldLeft, Capsule!MapThenFoldSet, Capsule!Max, Capsule!Range, AddOne, Range,
     Adding!Folded, Adding!FoldLeft, Adding!MapThenFoldSet, Adding!Max
<1>2. Capsule!Without(s, t) = Keeping!Folded(t, <<>>, s)
  BY Zenon DEF Capsule!Without, Capsule!FoldLeft, Capsule!MapThenFoldSet, Capsule!Max, KeepOne,
     Keeping!Folded, Keeping!FoldLeft, Keeping!MapThenFoldSet, Keeping!Max
<1> QED BY <1>1, <1>2

LEMMA OneMoreMember ==
  ASSUME NEW S, NEW s \in Seq(S), NEW x \in S
  PROVE  Append(s, x) \in Seq(S) /\ Range(Append(s, x)) = Range(s) \cup {x}
<1>1. /\ Append(s, x) \in Seq(S) /\ Len(Append(s, x)) = Len(s) + 1 /\ Len(s) \in Nat
      /\ DOMAIN s = 1..Len(s) /\ DOMAIN Append(s, x) = 1..(Len(s) + 1)
      /\ \A i \in 1..Len(s) : Append(s, x)[i] = s[i]
      /\ Append(s, x)[Len(s) + 1] = x
  BY AppendProperties, LenProperties
<1> QED BY <1>1 DEF Range

\* What is added to a list joins it.
LEMMA MembersAdded ==
  ASSUME NEW S, NEW s \in Seq(S), NEW t \in Seq(S)
  PROVE  /\ Adding!Folded({}, s, t) \in Seq(S)
         /\ Range(Adding!Folded({}, s, t)) = Range(s) \cup Range(t)
<1> DEFINE T == {u \in Seq(S) : /\ Adding!Folded({}, s, u) \in Seq(S)
                                /\ Range(Adding!Folded({}, s, u)) = Range(s) \cup Range(u)}
<1>1. <<>> \in T
  <2>1. <<>> \in Seq(S) /\ Range(<<>>) = {}
    BY EmptySeq DEF Range
  <2> QED BY <2>1, Adding!FoldOfEmpty
<1>2. ASSUME NEW u \in Seq(S), NEW x \in S, u \in T
      PROVE  Append(u, x) \in T
  <2> DEFINE r == Adding!Folded({}, s, u)
  <2>1. r \in Seq(S) /\ Range(r) = Range(s) \cup Range(u)
    BY <1>2
  <2>2. Adding!Folded({}, s, Append(u, x)) = AddOne({}, r, x)
    BY Adding!FoldOfAppend
  <2> HIDE DEF r
  <2>3. Append(u, x) \in Seq(S) /\ Range(Append(u, x)) = Range(u) \cup {x}
    BY OneMoreMember
  <2>4. AddOne({}, r, x) \in Seq(S) /\ Range(AddOne({}, r, x)) = Range(r) \cup {x}
    BY <2>1, OneMoreMember DEF AddOne
  <2> QED BY <2>1, <2>2, <2>3, <2>4
<1>3. \A u \in Seq(S) : u \in T
  <2> HIDE DEF T
  <2> QED BY <1>1, <1>2, Adding!ListInduction
<1> QED BY <1>3

\* What is taken from a list leaves it, and nothing else does.
LEMMA MembersKept ==
  ASSUME NEW S, NEW s \in Seq(S), NEW D
  PROVE  /\ Keeping!Folded(D, <<>>, s) \in Seq(S)
         /\ Range(Keeping!Folded(D, <<>>, s)) = Range(s) \ D
<1> DEFINE T == {u \in Seq(S) : /\ Keeping!Folded(D, <<>>, u) \in Seq(S)
                                /\ Range(Keeping!Folded(D, <<>>, u)) = Range(u) \ D}
<1>1. <<>> \in T
  <2>1. <<>> \in Seq(S) /\ Range(<<>>) = {}
    BY EmptySeq DEF Range
  <2> QED BY <2>1, Keeping!FoldOfEmpty
<1>2. ASSUME NEW u \in Seq(S), NEW x \in S, u \in T
      PROVE  Append(u, x) \in T
  <2> DEFINE r == Keeping!Folded(D, <<>>, u)
  <2>1. r \in Seq(S) /\ Range(r) = Range(u) \ D
    BY <1>2
  <2>2. Keeping!Folded(D, <<>>, Append(u, x)) = KeepOne(D, r, x)
    BY Keeping!FoldOfAppend
  <2> HIDE DEF r
  <2>3. Append(u, x) \in Seq(S) /\ Range(Append(u, x)) = Range(u) \cup {x}
    BY OneMoreMember
  <2>4. KeepOne(D, r, x) \in Seq(S) /\ Range(KeepOne(D, r, x)) = Range(r) \cup ({x} \ D)
    BY <2>1, OneMoreMember DEF KeepOne
  <2> QED BY <2>1, <2>2, <2>3, <2>4
<1>3. \A u \in Seq(S) : u \in T
  <2> HIDE DEF T
  <2> QED BY <1>1, <1>2, Keeping!ListInduction
<1> QED BY <1>3

--------------------------------------------------------------------------------
(* The hooks                                                                *)

LEMMA GatesRange == ASSUME NEW s PROVE Gates!Range(s) = Range(s)
BY DEF Gates!Range, Range

LEMMA Joined ==
  ASSUME NEW S, NEW s \in Seq(S), NEW t \in Seq(S)
  PROVE  s \o t \in Seq(S) /\ Range(s \o t) = Range(s) \cup Range(t)
BY ConcatProperties, RangeConcatenation

\* What goes before another joins the list, whether the other is in it or not.
LEMMA MemberBefore ==
  ASSUME NEW S, NEW s \in Seq(S), NEW x \in S, NEW y
  PROVE  Gates!Before(s, x, y) \in Seq(S) /\ Range(Gates!Before(s, x, y)) = Range(s) \cup {x}
<1> DEFINE I == {j \in 1..Len(s) : s[j] = y}
           i == Gates!SelectInSeq(s, LAMBDA z : z = y)
<1>1. i = IF I # {} THEN Gates!Min(I) ELSE 0
  BY Zenon DEF Gates!SelectInSeq
<1>2. Gates!Before(s, x, y) = IF i = 0 THEN Append(s, x) ELSE Gates!InsertAt(s, i, x)
  BY Zenon DEF Gates!Before
<1>3. ASSUME I # {}
      PROVE  i \in 1..Len(s)
  <2>1. I \in SUBSET Nat
    BY LenProperties
  <2>2. \E n \in I : \A m \in I : n <= m
    <3> HIDE DEF I
    <3> QED BY <1>3, <2>1, Adding!LeastNumber
  <2>3. Gates!Min(I) \in I
    <3> HIDE DEF I
    <3> QED BY <2>2 DEF Gates!Min
  <2> QED BY <1>1, <1>3, <2>3
<1>4. i = 0 \/ i \in 1..Len(s)
  BY <1>1, <1>3
<1> HIDE DEF i, I
<1>5. CASE i = 0
  BY <1>2, <1>5, OneMoreMember
<1>6. CASE i \in 1..Len(s)
  <2> DEFINE a == SubSeq(s, 1, i - 1)
             b == SubSeq(s, i, Len(s))
  <2>1. Gates!Before(s, x, y) = a \o <<x>> \o b
    BY <1>2, <1>6 DEF Gates!InsertAt
  <2>2. /\ a \in Seq(S) /\ b \in Seq(S) /\ a \o b = s
    <3>1. Len(s) \in Nat /\ i \in Int /\ 1 <= i /\ i <= Len(s)
      BY <1>6, LenProperties
    <3>2. \A j \in 1..Len(s) : s[j] \in S
      BY ElementOfSeq
    <3>3. a \in Seq(S) /\ b \in Seq(S)
      BY <3>1, <3>2, SubSeqProperties
    <3>4. SubSeq(s, 1, i - 1) \o SubSeq(s, (i - 1) + 1, Len(s)) = SubSeq(s, 1, Len(s))
      <4>1. 1 \in 1..Len(s) + 1 /\ i - 1 \in (1 - 1)..Len(s) /\ Len(s) \in (i - 1)..Len(s)
        BY <3>1
      <4> QED BY <4>1, ConcatAdjacentSubSeq
    <3>5. SubSeq(s, 1, Len(s)) = s
      BY SubSeqFull
    <3>6. (i - 1) + 1 = i
      BY <3>1
    <3> QED BY <3>3, <3>4, <3>5, <3>6
  <2> HIDE DEF a, b
  <2> DEFINE w == <<x>>
             c == a \o w
  <2>3. w \in Seq(S) /\ Range(w) = {x}
    BY DEF Range
  <2> HIDE DEF w
  <2>4. c \in Seq(S) /\ Range(c) = Range(a) \cup {x}
    BY <2>2, <2>3, Joined
  <2> HIDE DEF c
  <2>5. c \o b \in Seq(S) /\ Range(c \o b) = Range(a) \cup {x} \cup Range(b)
    BY <2>2, <2>4, Joined
  <2>6. Range(s) = Range(a) \cup Range(b)
    BY <2>2, Joined
  <2>7. Gates!Before(s, x, y) = c \o b
    BY <2>1 DEF c, w
  <2> QED BY <2>5, <2>6, <2>7
<1> QED BY <1>4, <1>5, <1>6

GateNames == STRING \cup {Gates!UigweGate, Gates!ReceiptGate}

LEMMA NamedGates == \A a \in HookStarts \cup HookUpdates : a.gates \in Seq(GateNames)
<1>1. Seq(STRING) \subseteq Seq(GateNames)
  BY SeqMonotonic, Zenon DEF GateNames
<1> QED BY <1>1, HooksAssumption DEF Gates!ConstantsAssumption

\* The gates of a Context after one of its commands.
LEMMA GatesSynced ==
  ASSUME NEW g \in Seq(GateNames), NEW now \in BOOLEAN, NEW entered \in BOOLEAN
  PROVE  /\ Gates!SyncGate(g, now, entered) \in Seq(GateNames)
         /\ ~entered /\ (now \/ Gates!UigweGate \in Range(g)) =>
              Gates!UigweGate \in Range(Gates!SyncGate(g, now, entered))
<1>1. Gates!UigweGate \in GateNames
  BY DEF GateNames
<1>2. Gates!Without(g, {Gates!UigweGate}) \in Seq(GateNames)
  BY GatesLists, MembersKept
<1>3. /\ Gates!Before(g, Gates!UigweGate, Gates!ReceiptGate) \in Seq(GateNames)
      /\ Gates!UigweGate \in Range(Gates!Before(g, Gates!UigweGate, Gates!ReceiptGate))
  BY <1>1, MemberBefore
<1> QED BY <1>2, <1>3, GatesRange DEF Gates!SyncGate

LEMMA GatesMerged ==
  ASSUME NEW s \in Seq(GateNames), NEW t \in Seq(GateNames)
  PROVE  /\ Gates!UniqueAppend(s, t) \in Seq(GateNames)
         /\ Range(Gates!UniqueAppend(s, t)) = Range(s) \cup Range(t)
BY GatesLists, MembersAdded

LEMMA GatesDropped ==
  ASSUME NEW s \in Seq(GateNames), NEW D
  PROVE  /\ Gates!Without(s, D) \in Seq(GateNames)
         /\ Range(Gates!Without(s, D)) = Range(s) \ D
BY GatesLists, MembersKept

LEMMA StartedGates ==
  ASSUME NEW a \in HookStarts
  PROVE  Gates!Started(a).gates \in Seq(GateNames)
<1> DEFINE wanted == Gates!AddRequired(<<>>, a.required)
           route == IF a.routes = <<>> THEN <<a.surface>> ELSE a.routes
           required == IF a.goal THEN Gates!UniqueAppend(wanted, <<Gates!Seungjeongwon>>) ELSE wanted
           gates == IF a.goal THEN Gates!UniqueAppend(a.gates, <<Gates!ReceiptGate>>) ELSE a.gates
<1>1. a.gates \in Seq(GateNames) /\ <<Gates!ReceiptGate>> \in Seq(GateNames)
  BY NamedGates DEF GateNames
<1>2. gates \in Seq(GateNames)
  BY <1>1, GatesMerged
<1>3. Gates!Started(a).gates =
        Gates!SyncGate(gates, Gates!Uigwe \in Gates!Range(required), Gates!Uigwe \in Gates!Range(route))
  BY DEF Gates!Started
<1>4. (Gates!Uigwe \in Gates!Range(required)) \in BOOLEAN /\ (Gates!Uigwe \in Gates!Range(route)) \in BOOLEAN
  OBVIOUS
<1> HIDE DEF gates, required, route
<1> QED BY <1>2, <1>3, <1>4, GatesSynced

\* An update that leaves a boundary owed leaves its gate.
LEMMA UpdatedGates ==
  ASSUME NEW a \in HookUpdates, context.gates \in Seq(GateNames)
  PROVE  /\ Gates!Updated(a).gates \in Seq(GateNames)
         /\ /\ Gates!UigweGate \notin a.clear
            /\ \/ Gates!UigweGate \in Range(a.gates)
               \/ /\ ~Gates!Enters(a)
                  /\ Gates!UigweGate \in Range(context.gates) \/ Gates!Uigwe \in Range(a.required)
            => Gates!UigweGate \in Range(Gates!Updated(a).gates)
<1> DEFINE requires == Gates!Uigwe \in Gates!Range(a.required)
           synced == IF requires \/ Gates!Enters(a)
                     THEN Gates!SyncGate(context.gates, requires, Gates!Enters(a)) ELSE context.gates
           receipt == IF a.receipt THEN <<Gates!ReceiptGate>> ELSE <<>>
           wanted == Gates!UniqueAppend(synced, a.gates)
           gates == Gates!UniqueAppend(wanted, receipt)
<1>1. a.gates \in Seq(GateNames) /\ receipt \in Seq(GateNames)
  <2>1. <<Gates!ReceiptGate>> \in Seq(GateNames) /\ <<>> \in Seq(GateNames)
    BY EmptySeq DEF GateNames
  <2> QED BY <2>1, NamedGates
<1>2. requires \in BOOLEAN /\ Gates!Enters(a) \in BOOLEAN
  BY DEF Gates!Enters
<1>3. /\ synced \in Seq(GateNames)
      /\ ~Gates!Enters(a) /\ (Gates!UigweGate \in Range(context.gates) \/ requires) => Gates!UigweGate \in Range(synced)
  BY <1>2, GatesSynced
<1>4. Gates!Updated(a).gates = Gates!Without(gates, a.clear)
  BY DEF Gates!Updated
<1>5. requires = (Gates!Uigwe \in Range(a.required))
  BY GatesRange
<1> HIDE DEF synced, receipt, requires
<1>6. wanted \in Seq(GateNames) /\ Range(wanted) = Range(synced) \cup Range(a.gates)
  BY <1>1, <1>3, GatesMerged
<1> HIDE DEF wanted
<1>7. gates \in Seq(GateNames) /\ Range(gates) = Range(wanted) \cup Range(receipt)
  BY <1>1, <1>6, GatesMerged
<1> HIDE DEF gates
<1>8. /\ Gates!Without(gates, a.clear) \in Seq(GateNames)
      /\ Range(Gates!Without(gates, a.clear)) = Range(gates) \ a.clear
  BY <1>7, GatesDropped
<1> QED BY <1>3, <1>4, <1>5, <1>6, <1>7, <1>8

HooksInv ==
  /\ context.gates \in Seq(GateNames)
  /\ execRun \in {"none", "active", "done", "broken", "invalid"}
  /\ register.is \in {"none", "broken", "register"} /\ register.open \in BOOLEAN /\ register.pending \in BOOLEAN
  /\ Gates!BoundaryBlocksWrites /\ Gates!EndsSettled

LEMMA HooksStart == Gates!Init => HooksInv
<1> SUFFICES ASSUME Gates!Init PROVE HooksInv
  OBVIOUS
<1>1. PICK a \in HookStarts : context = Gates!Started(a) /\ owed = Gates!Pending(Gates!UigweGate)
  BY DEF Gates!Init
<1>2. context.gates \in Seq(GateNames)
  BY <1>1, StartedGates
<1>3. /\ execRun = "none" /\ register.is = "none" /\ register \in HookRegisters /\ event = Nil
  BY DEF Gates!Init
<1>4. register.open \in BOOLEAN /\ register.pending \in BOOLEAN
  BY <1>3, HooksAssumption DEF Gates!ConstantsAssumption
<1> QED BY <1>1, <1>2, <1>3, <1>4 DEF HooksInv, Gates!BoundaryBlocksWrites, Gates!EndsSettled, Gates!Happened

\* A command of the Context, whatever it sets, clears and requires.
LEMMA HooksUpdate == ASSUME HooksInv, NEW a \in HookUpdates, Gates!Update(a) PROVE HooksInv'
<1>1. /\ context' = Gates!Updated(a) /\ event' = Nil /\ execRun' = execRun /\ register' = register
      /\ owed' = IF Gates!SaysEntered(a) /\ Gates!UigweGate \notin Gates!Range(a.gates) THEN FALSE
                 ELSE IF Gates!UigweGate \in a.clear THEN FALSE
                 ELSE owed \/ Gates!Uigwe \in Gates!Range(a.required) \/ Gates!UigweGate \in Gates!Range(a.gates)
  BY DEF Gates!Update, Gates!artifacts
<1>2. context'.gates \in Seq(GateNames)
  BY <1>1, UpdatedGates DEF HooksInv
<1>3. Gates!Enters(a) => Gates!SaysEntered(a)
  <2> SUFFICES ASSUME Gates!Enters(a) PROVE Gates!SaysEntered(a)
    OBVIOUS
  <2>0. \A x : Gates!Range(<<x>>) = {x}
    BY DEF Gates!Range
  <2>1. CASE a.surface = Gates!Uigwe
    BY <2>0, <2>1 DEF Gates!SaysEntered
  <2>2. CASE Gates!Uigwe \in Gates!Range(a.append)
    BY <2>2 DEF Gates!SaysEntered
  <2>3. CASE a.set # <<>> /\ Gates!Last(a.set) = Gates!Uigwe
    BY <2>0, <2>3 DEF Gates!SaysEntered
  <2> QED BY <2>1, <2>2, <2>3 DEF Gates!Enters
<1>4. owed' => Gates!UigweGate \in Range(context'.gates)
  <2> SUFFICES ASSUME owed' PROVE Gates!UigweGate \in Range(context'.gates)
    OBVIOUS
  <2>1. /\ Gates!UigweGate \notin a.clear
        /\ ~Gates!SaysEntered(a) \/ Gates!UigweGate \in Range(a.gates)
        /\ owed \/ Gates!Uigwe \in Range(a.required) \/ Gates!UigweGate \in Range(a.gates)
    BY <1>1, GatesRange
  <2>2. owed => Gates!UigweGate \in Range(context.gates)
    BY GatesRange DEF HooksInv, Gates!BoundaryBlocksWrites, Gates!Pending
  <2>3. Gates!UigweGate \in Range(Gates!Updated(a).gates)
    BY <1>3, <2>1, <2>2, UpdatedGates DEF HooksInv
  <2> QED BY <1>1, <2>3
<1>5. (owed => Gates!Pending(Gates!UigweGate))'
  BY <1>4, GatesRange DEF Gates!Pending
<1> QED BY <1>1, <1>2, <1>5 DEF HooksInv, Gates!BoundaryBlocksWrites, Gates!EndsSettled, Gates!Happened

LEMMA HooksStep == ASSUME HooksInv, [Gates!Next]_(Gates!vars) PROVE HooksInv'
<1>1. ASSUME NEW a \in HookUpdates, Gates!Update(a)
      PROVE  HooksInv'
  BY <1>1, HooksUpdate
<1> USE DEF HooksInv, Gates!BoundaryBlocksWrites, Gates!EndsSettled, Gates!Happened, Gates!Pending
<1>2. CASE UNCHANGED Gates!vars
  BY <1>2 DEF Gates!vars, Gates!artifacts, Gates!StageIncomplete, Gates!IsRegister
<1>3. CASE Gates!Stop
  <2>1. /\ UNCHANGED <<load, context, owed, execRun, native, register, capsule>>
        /\ \/ event' = Nil
           \/ /\ event' = [kind |-> "stop", asked |-> ~refusedStop]
              /\ load = "applies" /\ ~refusedStop => ~Gates!Unfinished
    BY <1>3 DEF Gates!Stop, Gates!artifacts
  <2>2. CASE event' = Nil
    BY <2>1, <2>2
  <2>3. CASE /\ event' = [kind |-> "stop", asked |-> ~refusedStop]
             /\ load = "applies" /\ ~refusedStop => ~Gates!Unfinished
    <3>1. event'.kind = "stop" /\ event'.asked = ~refusedStop
      BY <2>3
    <3>2. Gates!BoundaryBlocksWrites'
      BY <2>1, <3>1
    <3>3. Gates!EndsSettled'
      <4> SUFFICES ASSUME load = "applies", ~refusedStop
                   PROVE  /\ ~owed /\ context.gates = <<>> /\ execRun \in {"none", "done"}
                          /\ register.is = "none" \/ (register.is = "register" /\ ~register.open /\ ~register.pending)
        BY <2>1, <3>1 DEF Gates!IsRegister
      <4>1. ~Gates!Unfinished
        BY <2>3
      <4>2. context.gates = <<>> /\ execRun \notin {"broken", "invalid", "active"} /\ register.is # "broken"
            /\ ~(register.is = "register" /\ (register.open \/ register.pending))
        BY <4>1 DEF Gates!Unfinished, Gates!IsRegister
      <4>3. Gates!Range(context.gates) = {}
        BY <4>2 DEF Gates!Range
      <4>4. ~owed
        BY <4>3
      <4> QED BY <4>2, <4>4
    <3> QED BY <2>1, <3>2, <3>3
  <2> QED BY <2>1, <2>2, <2>3
<1>4. CASE Gates!PreCompact
  <2>1. /\ UNCHANGED <<load, context, owed, execRun, native, register, capsule>>
        /\ event' = Nil \/ event' = [kind |-> "compact"]
        /\ load = "applies" /\ execRun = "active" => saved' = execRun
    BY <1>4 DEF Gates!PreCompact, Gates!artifacts
  <2>2. CASE event' = Nil
    BY <2>1, <2>2
  <2>3. CASE event' = [kind |-> "compact"]
    BY <2>1, <2>3
  <2> QED BY <2>1, <2>2, <2>3
<1>5. CASE Gates!ArtifactsChange
  BY <1>5, HooksAssumption DEF Gates!ArtifactsChange, Gates!ConstantsAssumption
<1>6. ASSUME NEW l \in HookLoads, Gates!LoadChanges(l)
      PROVE  HooksInv'
  BY <1>6 DEF Gates!LoadChanges, Gates!artifacts
<1>7. ASSUME NEW t \in Gates!ToolCalls, Gates!ToolCall(t)
      PROVE  HooksInv'
  BY <1>7 DEF Gates!ToolCall, Gates!ToolCalls, Gates!artifacts, Gates!Denies, Gates!ReceiptMissing, Gates!ReceiptValid,
     Gates!StageIncomplete, Gates!IsRegister
<1>8. ASSUME NEW m \in HookMessages, Gates!SubagentStop(m)
      PROVE  HooksInv'
  BY <1>8 DEF Gates!SubagentStop, Gates!artifacts
<1> QED BY <1>1, <1>2, <1>3, <1>4, <1>5, <1>6, <1>7, <1>8 DEF Gates!Next

--------------------------------------------------------------------------------
(* The routes a Context requires                                            *)

\* The first n places of s are found in t, in their order.
Embeds(s, n, t) ==
  \E f \in [1..n -> 1..Len(t)] :
    /\ \A i, j \in 1..n : i < j => f[i] < f[j]
    /\ \A i \in 1..n : t[f[i]] = s[i]

\* One turn of its loop: how many places have been found so far.
Match(s, n, x) == IF n < Len(s) /\ x = s[n + 1] THEN n + 1 ELSE n
Matching == INSTANCE FoldFacts WITH Step <- Match

LEMMA MatchesAreFolds ==
  ASSUME NEW s, NEW t
  PROVE  Gates!IsSubsequence(s, t) <=> Matching!Folded(s, 0, t) = Len(s)
BY Zenon DEF Gates!IsSubsequence, Gates!FoldLeft, Gates!MapThenFoldSet, Gates!Max, Match,
   Matching!Folded, Matching!FoldLeft, Matching!MapThenFoldSet, Matching!Max

\* n is the number of places that can be found in t.
Greatest(s, n, t) ==
  n \in 0..Len(s) /\ Embeds(s, n, t) /\ \A m \in 0..Len(s) : Embeds(s, m, t) => m <= n

LEMMA MatchedOnce ==
  ASSUME NEW S, NEW s \in Seq(S), NEW t \in Seq(S), NEW x \in S, NEW n, Greatest(s, n, t)
  PROVE  Greatest(s, Match(s, n, x), Append(t, x))
<1> DEFINE u == Append(t, x)
           L == Len(t)
<1>1. /\ L \in Nat /\ Len(s) \in Nat /\ n \in 0..Len(s)
      /\ Len(u) = L + 1 /\ u[L + 1] = x /\ \A i \in 1..L : u[i] = t[i]
  BY LenProperties, AppendProperties DEF Greatest
<1> HIDE DEF u, L
<1>2. Match(s, n, x) \in 0..Len(s)
  BY <1>1 DEF Match
<1>3. PICK f \in [1..n -> 1..L] : (\A i, j \in 1..n : i < j => f[i] < f[j]) /\ \A i \in 1..n : t[f[i]] = s[i]
  BY DEF Greatest, Embeds, L
<1>4. Embeds(s, n, u)
  <2>1. \A i \in 1..n : f[i] \in 1..L /\ f[i] \in 1..Len(u) /\ u[f[i]] = s[i]
    <3> SUFFICES ASSUME NEW i \in 1..n
                 PROVE  f[i] \in 1..L /\ f[i] \in 1..Len(u) /\ u[f[i]] = s[i]
      OBVIOUS
    <3>1. f[i] \in 1..L /\ t[f[i]] = s[i]
      BY <1>3
    <3> QED BY <1>1, <3>1
  <2>2. f \in [1..n -> 1..Len(u)]
    BY <1>3, <2>1
  <2> QED BY <1>3, <2>1, <2>2 DEF Embeds
<1>5. ASSUME n < Len(s), x = s[n + 1]
      PROVE  Embeds(s, n + 1, u)
  <2> DEFINE g == [i \in 1..(n + 1) |-> IF i = n + 1 THEN L + 1 ELSE f[i]]
  <2>1. g \in [1..(n + 1) -> 1..Len(u)]
    BY <1>1, <1>3
  <2>2. \A i, j \in 1..(n + 1) : i < j => g[i] < g[j]
    <3> SUFFICES ASSUME NEW i \in 1..(n + 1), NEW j \in 1..(n + 1), i < j PROVE g[i] < g[j]
      OBVIOUS
    <3>1. i \in 1..n /\ g[i] = f[i] /\ f[i] \in 1..L
      BY <1>1, <1>3
    <3>2. CASE j = n + 1
      BY <1>1, <3>1, <3>2
    <3>3. CASE j # n + 1
      <4>1. j \in 1..n /\ g[j] = f[j]
        BY <1>1, <3>3
      <4> QED BY <1>3, <3>1, <4>1
    <3> QED BY <3>2, <3>3
  <2>3. \A i \in 1..(n + 1) : u[g[i]] = s[i]
    <3> SUFFICES ASSUME NEW i \in 1..(n + 1) PROVE u[g[i]] = s[i]
      OBVIOUS
    <3>1. CASE i = n + 1
      BY <1>1, <1>5, <3>1
    <3>2. CASE i # n + 1
      <4>1. i \in 1..n /\ g[i] = f[i]
        BY <1>1, <3>2
      <4>2. f[i] \in 1..L /\ t[f[i]] = s[i]
        BY <1>3, <4>1
      <4> QED BY <1>1, <4>1, <4>2
    <3> QED BY <3>1, <3>2
  <2> HIDE DEF g
  <2> QED BY <2>1, <2>2, <2>3 DEF Embeds
<1>6. ASSUME NEW m \in 0..Len(s), Embeds(s, m, u), n < m
      PROVE  m = n + 1 /\ x = s[n + 1]
  <2>1. PICK h \in [1..m -> 1..(L + 1)] :
          (\A i, j \in 1..m : i < j => h[i] < h[j]) /\ \A i \in 1..m : u[h[i]] = s[i]
    BY <1>1, <1>6 DEF Embeds
  <2>2. m \in 1..m /\ m \in Nat
    BY <1>1, <1>6
  <2>3. \A i \in 1..(m - 1) : h[i] \in 1..L
    <3> SUFFICES ASSUME NEW i \in 1..(m - 1) PROVE h[i] \in 1..L
      OBVIOUS
    <3>1. i \in 1..m /\ i < m
      BY <2>2
    <3>2. h[i] < h[m] /\ h[i] \in 1..(L + 1) /\ h[m] \in 1..(L + 1)
      BY <2>1, <2>2, <3>1
    <3> QED BY <1>1, <3>2
  <2>4. ASSUME NEW k \in 0..m, \A i \in 1..k : h[i] \in 1..L
        PROVE  k <= n
    <3> DEFINE g == [i \in 1..k |-> h[i]]
    <3>1. g \in [1..k -> 1..L]
      BY <2>4
    <3>2. \A i, j \in 1..k : i < j => g[i] < g[j]
      BY <2>1, <2>2
    <3>3. \A i \in 1..k : t[g[i]] = s[i]
      <4> SUFFICES ASSUME NEW i \in 1..k PROVE t[g[i]] = s[i]
        OBVIOUS
      <4>1. i \in 1..m /\ g[i] = h[i] /\ h[i] \in 1..L
        BY <2>2, <2>4
      <4> QED BY <1>1, <2>1, <4>1
    <3> HIDE DEF g
    <3>4. Embeds(s, k, t)
      BY <3>1, <3>2, <3>3 DEF Embeds, L
    <3>5. k \in 0..Len(s)
      BY <1>1, <2>2
    <3> QED BY <3>4, <3>5 DEF Greatest
  <2>5. m - 1 <= n
    <3>1. m - 1 \in 0..m
      BY <2>2
    <3> QED BY <2>3, <2>4, <3>1
  <2>6. h[m] \notin 1..L
    <3> SUFFICES ASSUME h[m] \in 1..L PROVE FALSE
      OBVIOUS
    <3>1. \A i \in 1..m : h[i] \in 1..L
      <4> SUFFICES ASSUME NEW i \in 1..m PROVE h[i] \in 1..L
        OBVIOUS
      <4>1. i = m \/ i \in 1..(m - 1)
        BY <2>2
      <4> QED BY <2>3, <4>1
    <3>2. m \in 0..m
      BY <2>2
    <3>3. m <= n
      BY <2>4, <3>1, <3>2
    <3> QED BY <1>1, <1>6, <2>2, <3>3
  <2>7. h[m] = L + 1
    <3>1. h[m] \in 1..(L + 1)
      BY <2>1, <2>2
    <3> QED BY <1>1, <2>6, <3>1
  <2>8. m = n + 1
    BY <1>1, <1>6, <2>2, <2>5
  <2>9. u[h[m]] = s[m]
    BY <2>1, <2>2
  <2> QED BY <1>1, <2>7, <2>8, <2>9
<1>7. Greatest(s, Match(s, n, x), u)
  <2>1. CASE n < Len(s) /\ x = s[n + 1]
    <3>1. Match(s, n, x) = n + 1
      BY <2>1 DEF Match
    <3>2. \A m \in 0..Len(s) : Embeds(s, m, u) => m <= n + 1
      <4> SUFFICES ASSUME NEW m \in 0..Len(s), Embeds(s, m, u) PROVE m <= n + 1
        OBVIOUS
      <4>1. CASE n < m
        BY <1>1, <1>6, <4>1
      <4>2. CASE ~(n < m)
        BY <1>1, <4>2
      <4> QED BY <4>1, <4>2
    <3> QED BY <1>2, <1>5, <2>1, <3>1, <3>2 DEF Greatest
  <2>2. CASE ~(n < Len(s) /\ x = s[n + 1])
    <3>1. Match(s, n, x) = n
      BY <2>2 DEF Match
    <3>2. \A m \in 0..Len(s) : Embeds(s, m, u) => m <= n
      <4> SUFFICES ASSUME NEW m \in 0..Len(s), Embeds(s, m, u), n < m PROVE FALSE
        BY <1>1
      <4>1. m = n + 1 /\ x = s[n + 1]
        BY <1>6
      <4> QED BY <1>1, <2>2, <4>1
    <3> QED BY <1>2, <1>4, <3>1, <3>2 DEF Greatest
  <2> QED BY <2>1, <2>2
<1> QED BY <1>7 DEF u

LEMMA MatchIsGreatest ==
  ASSUME NEW S, NEW s \in Seq(S), NEW t \in Seq(S)
  PROVE  Greatest(s, Matching!Folded(s, 0, t), t)
<1> DEFINE T == {u \in Seq(S) : Greatest(s, Matching!Folded(s, 0, u), u)}
<1>0. Len(s) \in Nat
  BY LenProperties
<1>1. <<>> \in T
  <2>1. <<>> \in Seq(S) /\ Len(<<>>) = 0
    BY EmptySeq
  <2>2. Embeds(s, 0, <<>>)
    <3>1. [i \in 1..0 |-> i] \in [1..0 -> 1..0]
      OBVIOUS
    <3>2. \A i \in 1..0 : FALSE
      OBVIOUS
    <3> DEFINE f == [i \in 1..0 |-> i]
    <3>3. f \in [1..0 -> 1..Len(<<>>)]
      BY <2>1, <3>1
    <3> HIDE DEF f
    <3> QED BY <3>2, <3>3 DEF Embeds
  <2>3. \A m \in 0..Len(s) : Embeds(s, m, <<>>) => m <= 0
    <3> SUFFICES ASSUME NEW m \in 0..Len(s), Embeds(s, m, <<>>), m > 0 PROVE FALSE
      BY <1>0
    <3>1. PICK f : f \in [1..m -> 1..0]
      BY <2>1 DEF Embeds
    <3>2. 1 \in 1..m
      BY <1>0
    <3> QED BY <3>1, <3>2
  <2>4. Greatest(s, 0, <<>>)
    BY <1>0, <2>2, <2>3 DEF Greatest
  <2> QED BY <2>1, <2>4, Matching!FoldOfEmpty
<1>2. ASSUME NEW u \in Seq(S), NEW x \in S, u \in T
      PROVE  Append(u, x) \in T
  <2>1. Matching!Folded(s, 0, Append(u, x)) = Match(s, Matching!Folded(s, 0, u), x)
    BY Matching!FoldOfAppend
  <2>2. Greatest(s, Match(s, Matching!Folded(s, 0, u), x), Append(u, x))
    BY <1>2, MatchedOnce
  <2> QED BY <2>1, <2>2, AppendProperties
<1>3. \A u \in Seq(S) : u \in T
  <2> HIDE DEF T
  <2> QED BY <1>1, <1>2, Matching!ListInduction
<1> QED BY <1>3

\* The loop that looks for the required routes in the history, one after the other, finds them
\* whenever they are there in their order, and only then (route_sequence_satisfied,
\* king_sejong_hooks.py:363-373).
THEOREM RouteMatchIsExact ==
  ASSUME NEW S, NEW s \in Seq(S), NEW t \in Seq(S)
  PROVE  Gates!IsSubsequence(s, t) <=> Embeds(s, Len(s), t)
<1>1. Greatest(s, Matching!Folded(s, 0, t), t) /\ Len(s) \in Nat
  BY MatchIsGreatest, LenProperties
<1> DEFINE n == Matching!Folded(s, 0, t)
<1>2. Gates!IsSubsequence(s, t) <=> n = Len(s)
  BY MatchesAreFolds
<1> HIDE DEF n
<1>3. n = Len(s) <=> Embeds(s, Len(s), t)
  BY <1>1 DEF Greatest, n
<1> QED BY <1>2, <1>3

\* The names of routes: strings, these two among them (which the provers have to be told).
RouteNames == STRING \cup {Gates!Uigwe, Gates!Seungjeongwon}

\* Uigwe never comes after Seungjeongwon.
Ordered(r) == \A i, j \in DOMAIN r : r[i] = Gates!Uigwe /\ r[j] = Gates!Seungjeongwon => i < j

LEMMA OrderedWithout ==
  ASSUME NEW r, Gates!Uigwe \notin Range(r) \/ Gates!Seungjeongwon \notin Range(r)
  PROVE  Ordered(r)
BY DEF Ordered, Range

LEMMA OrderedAppend ==
  ASSUME NEW r \in Seq(RouteNames), Ordered(r), NEW x \in RouteNames, x # Gates!Uigwe
  PROVE  Append(r, x) \in Seq(RouteNames) /\ Ordered(Append(r, x))
<1> DEFINE q == Append(r, x)
<1> HIDE DEF RouteNames
<1>1. /\ q \in Seq(RouteNames) /\ Len(r) \in Nat /\ DOMAIN r = 1..Len(r) /\ DOMAIN q = 1..(Len(r) + 1)
      /\ \A i \in 1..Len(r) : q[i] = r[i]
      /\ q[Len(r) + 1] = x
  BY AppendProperties, LenProperties
<1> HIDE DEF q
<1>2. ASSUME NEW i \in DOMAIN q, NEW j \in DOMAIN q, q[i] = Gates!Uigwe, q[j] = Gates!Seungjeongwon
      PROVE  i < j
  <2>1. i \in 1..Len(r) /\ r[i] = Gates!Uigwe
    BY <1>1, <1>2
  <2>2. CASE j = Len(r) + 1
    BY <1>1, <2>1, <2>2
  <2>3. CASE j # Len(r) + 1
    <3>1. j \in 1..Len(r) /\ r[j] = Gates!Seungjeongwon
      BY <1>1, <1>2, <2>3
    <3> QED BY <1>1, <2>1, <3>1 DEF Ordered
  <2> QED BY <2>2, <2>3
<1> QED BY <1>1, <1>2 DEF Ordered, q

\* Uigwe put before the first Seungjeongwon of a list that it is not in.
LEMMA OrderedBefore ==
  ASSUME NEW r \in Seq(RouteNames), Gates!Uigwe \notin Range(r)
  PROVE  LET q == Gates!Before(r, Gates!Uigwe, Gates!Seungjeongwon) IN q \in Seq(RouteNames) /\ Ordered(q)
<1> DEFINE q == Gates!Before(r, Gates!Uigwe, Gates!Seungjeongwon)
           I == {j \in 1..Len(r) : r[j] = Gates!Seungjeongwon}
           k == Gates!SelectInSeq(r, LAMBDA z : z = Gates!Seungjeongwon)
<1> SUFFICES q \in Seq(RouteNames) /\ Ordered(q)
  OBVIOUS
<1>0. Gates!Uigwe \in RouteNames /\ Gates!Uigwe # Gates!Seungjeongwon
  BY DEF RouteNames, Gates!Uigwe, Gates!Seungjeongwon
<1> HIDE DEF RouteNames
<1>1. /\ Len(r) \in Nat /\ DOMAIN r = 1..Len(r)
      /\ q \in Seq(RouteNames) /\ Range(q) = Range(r) \cup {Gates!Uigwe}
  BY <1>0, MemberBefore, LenProperties
<1>2. ASSUME NEW x \in Seq(RouteNames), NEW y \in Seq(RouteNames)
      PROVE  /\ x \o y \in Seq(RouteNames) /\ Len(x) \in Nat /\ Len(y) \in Nat
             /\ Len(x \o y) = Len(x) + Len(y)
             /\ \A i \in 1..Len(x) : (x \o y)[i] = x[i]
             /\ \A i \in (Len(x) + 1)..(Len(x) + Len(y)) : (x \o y)[i] = y[i - Len(x)]
  BY ConcatProperties, LenProperties
<1>3. CASE I = {}
  <2>1. Gates!Seungjeongwon \notin Range(r)
    BY <1>1, <1>3 DEF Range
  <2> QED BY <1>0, <1>1, <2>1, OrderedWithout
<1>4. CASE I # {}
  <2>1. k = Gates!Min(I)
    BY <1>4, Zenon DEF Gates!SelectInSeq
  <2>2. \E n \in I : \A m \in I : n <= m
    <3>1. I \in SUBSET Nat
      BY <1>1
    <3> HIDE DEF I
    <3> QED BY <1>4, <3>1, Adding!LeastNumber
  <2>3. Gates!Min(I) \in I /\ \A m \in I : Gates!Min(I) <= m
    <3> HIDE DEF I
    <3> QED BY <2>2 DEF Gates!Min
  <2>4. k \in 1..Len(r) /\ \A m \in I : k <= m
    BY <2>1, <2>3
  <2>5. q = IF k = 0 THEN Append(r, Gates!Uigwe) ELSE Gates!InsertAt(r, k, Gates!Uigwe)
    BY Zenon DEF Gates!Before
  <2> HIDE DEF k, q
  <2> DEFINE a == SubSeq(r, 1, k - 1)
             b == SubSeq(r, k, Len(r))
  <2>6. q = a \o <<Gates!Uigwe>> \o b
    BY <2>4, <2>5 DEF Gates!InsertAt
  <2>7. /\ a \in Seq(RouteNames) /\ Len(a) = k - 1 /\ (\A i \in 1..(k - 1) : a[i] = r[i])
        /\ b \in Seq(RouteNames) /\ (\A i \in 1..Len(b) : b[i] # Gates!Uigwe)
    <3>1. Len(r) \in Nat /\ k \in Int /\ 1 <= k /\ k <= Len(r)
      BY <1>1, <2>4
    <3>2. \A i \in 1..Len(r) : r[i] \in RouteNames
      BY ElementOfSeq
    <3>3. a \in Seq(RouteNames) /\ b \in Seq(RouteNames) /\ Len(a) = k - 1
      BY <3>1, <3>2, SubSeqProperties
    <3>4. k - 1 \in 0..Len(r)
      BY <3>1
    <3>5. \A i \in 1..(k - 1) : a[i] = r[i]
      <4>1. \A i \in 1..(k - 1) : r[i] \in RouteNames
        BY <3>1, <3>2
      <4>2. \A i \in 1..(k - 1) - 1 + 1 : a[i] = r[1 + i - 1]
        BY <3>1, <4>1, SubSeqProperties
      <4> QED BY <3>1, <4>2
    <3>6. \A i \in 1..Len(b) : b[i] # Gates!Uigwe
      <4>1. \A i \in k..Len(r) : r[i] \in RouteNames /\ r[i] # Gates!Uigwe
        BY <1>1, <3>1, <3>2 DEF Range
      <4>2. Len(b) = Len(r) - k + 1 /\ \A i \in 1..Len(r) - k + 1 : b[i] = r[k + i - 1]
        BY <3>1, <4>1, SubSeqProperties
      <4> HIDE DEF b
      <4> SUFFICES ASSUME NEW i \in 1..Len(b) PROVE b[i] # Gates!Uigwe
        OBVIOUS
      <4>3. b[i] = r[k + i - 1] /\ k + i - 1 \in k..Len(r)
        BY <3>1, <4>2
      <4> QED BY <4>1, <4>3
    <3> QED BY <3>3, <3>5, <3>6
  <2> HIDE DEF a, b
  <2> DEFINE c == a \o <<Gates!Uigwe>>
  <2>8. /\ c \in Seq(RouteNames) /\ Len(c) = k
        /\ \A i \in 1..(k - 1) : c[i] = r[i]
        /\ c[k] = Gates!Uigwe
    <3>1. <<Gates!Uigwe>> \in Seq(RouteNames) /\ Len(<<Gates!Uigwe>>) = 1 /\ <<Gates!Uigwe>>[1] = Gates!Uigwe
      BY <1>0
    <3> DEFINE one == <<Gates!Uigwe>>
    <3>2. one \in Seq(RouteNames) /\ Len(one) = 1 /\ one[1] = Gates!Uigwe
      BY <3>1
    <3> HIDE DEF one
    <3>3. /\ c \in Seq(RouteNames) /\ Len(a) \in Nat /\ Len(c) = Len(a) + Len(one)
          /\ \A i \in 1..Len(a) : c[i] = a[i]
          /\ \A i \in (Len(a) + 1)..(Len(a) + Len(one)) : c[i] = one[i - Len(a)]
      <4>1. c = a \o one
        BY DEF one
      <4> HIDE DEF c
      <4>2. a \in Seq(RouteNames) /\ one \in Seq(RouteNames)
        BY <2>7, <3>2
      <4>3. /\ a \o one \in Seq(RouteNames) /\ Len(a) \in Nat /\ Len(a \o one) = Len(a) + Len(one)
            /\ \A i \in 1..Len(a) : (a \o one)[i] = a[i]
            /\ \A i \in (Len(a) + 1)..(Len(a) + Len(one)) : (a \o one)[i] = one[i - Len(a)]
        BY <1>2, <4>2, Zenon
      <4> QED BY <4>1, <4>3
    <3> HIDE DEF c
    <3>4. Len(c) = k /\ Len(a) = k - 1 /\ k \in Nat
      BY <1>1, <2>4, <2>7, <3>2, <3>3
    <3>5. c[k] = one[k - (k - 1)]
      BY <3>2, <3>3, <3>4
    <3>6. k - (k - 1) = 1
      BY <3>4
    <3> QED BY <2>7, <3>2, <3>3, <3>4, <3>5, <3>6
  <2> HIDE DEF c
  <2>9. /\ Len(c \o b) = k + Len(b) /\ \A i \in 1..k : (c \o b)[i] = c[i]
        /\ \A i \in (k + 1)..(k + Len(b)) : (c \o b)[i] = b[i - k]
    <3>1. /\ Len(c \o b) = Len(c) + Len(b)
          /\ \A i \in 1..Len(c) : (c \o b)[i] = c[i]
          /\ \A i \in (Len(c) + 1)..(Len(c) + Len(b)) : (c \o b)[i] = b[i - Len(c)]
      BY <1>2, <2>7, <2>8, Zenon
    <3> QED BY <2>8, <3>1, Zenon
  <2>10. q = c \o b
    BY <2>6 DEF c
  <2>11. /\ Len(b) \in Nat /\ DOMAIN q = 1..(k + Len(b)) /\ \A i \in 1..(k - 1) : q[i] = r[i]
         /\ q[k] = Gates!Uigwe /\ \A i \in (k + 1)..(k + Len(b)) : q[i] = b[i - k]
    <3>1. Len(b) \in Nat
      BY <2>7, LenProperties
    <3>2. /\ Len(q) = k + Len(b) /\ \A i \in 1..k : q[i] = c[i]
          /\ \A i \in (k + 1)..(k + Len(b)) : q[i] = b[i - k]
      BY <2>9, <2>10
    <3>3. DOMAIN q = 1..Len(q)
      BY <1>1, LenProperties
    <3> QED BY <1>1, <2>4, <2>8, <3>1, <3>2, <3>3
  <2>12. \A j \in DOMAIN q : q[j] = Gates!Seungjeongwon => k < j
    <3> SUFFICES ASSUME NEW j \in DOMAIN q, q[j] = Gates!Seungjeongwon, ~(k < j) PROVE FALSE
      OBVIOUS
    <3>1. j # k
      BY <1>0, <2>11
    <3>2. j \in 1..(k - 1) /\ j \in 1..Len(r)
      BY <1>1, <2>4, <2>11, <3>1
    <3>3. j \in I
      BY <2>11, <3>2
    <3> QED BY <1>1, <2>4, <3>2, <3>3
  <2>13. \A i \in DOMAIN q : q[i] = Gates!Uigwe => i <= k
    <3> SUFFICES ASSUME NEW i \in DOMAIN q, q[i] = Gates!Uigwe, ~(i <= k) PROVE FALSE
      OBVIOUS
    <3>1. i \in (k + 1)..(k + Len(b)) /\ i - k \in 1..Len(b)
      BY <1>1, <2>4, <2>11
    <3> QED BY <2>7, <2>11, <3>1
  <2>14. Ordered(q)
    <3> SUFFICES ASSUME NEW i \in DOMAIN q, NEW j \in DOMAIN q,
                        q[i] = Gates!Uigwe, q[j] = Gates!Seungjeongwon
                 PROVE  i < j
      BY DEF Ordered
    <3>1. i <= k /\ k < j
      BY <2>12, <2>13
    <3> QED BY <1>1, <2>4, <2>11, <3>1
  <2> QED BY <1>1, <2>14
<1> QED BY <1>3, <1>4

\* One turn of add_required_routes' loop.
AddRoute(p, r, x) ==
  IF x = Gates!Uigwe THEN Gates!Before(Gates!Without(r, {Gates!Uigwe}), Gates!Uigwe, Gates!Seungjeongwon)
  ELSE Gates!UniqueAppend(r, <<x>>)
Routing == INSTANCE FoldFacts WITH Step <- AddRoute

LEMMA RequiredIsFold ==
  ASSUME NEW r, NEW t PROVE Gates!AddRequired(r, t) = Routing!Folded({}, r, t)
BY Zenon DEF Gates!AddRequired, Gates!FoldLeft, Gates!MapThenFoldSet, Gates!Max, AddRoute,
   Routing!Folded, Routing!FoldLeft, Routing!MapThenFoldSet, Routing!Max

RouteLists == {r \in Seq(RouteNames) : Ordered(r)}

LEMMA RouteJoins ==
  ASSUME NEW r \in RouteLists, NEW x \in RouteNames, x # Gates!Uigwe
  PROVE  Gates!UniqueAppend(r, <<x>>) \in RouteLists
<1>1. r \in Seq(RouteNames) /\ Ordered(r)
  BY DEF RouteLists
<1> HIDE DEF RouteNames
<1>2. Adding!Folded({}, r, <<x>>) = AddOne({}, r, x)
  <2>1. <<>> \in Seq(RouteNames) /\ Append(<<>>, x) = <<x>>
    BY EmptySeq
  <2>2. Adding!Folded({}, r, Append(<<>>, x)) = AddOne({}, Adding!Folded({}, r, <<>>), x)
    <3>1. ASSUME NEW u \in Seq(RouteNames)
          PROVE  Adding!Folded({}, r, Append(u, x)) = AddOne({}, Adding!Folded({}, r, u), x)
      BY Adding!FoldOfAppend
    <3> QED BY <2>1, <3>1, Zenon
  <2> QED BY <2>1, <2>2, Adding!FoldOfEmpty, Zenon
<1>3. AddOne({}, r, x) \in RouteLists
  BY <1>1, OrderedAppend DEF AddOne, RouteLists
<1> QED BY <1>2, <1>3, GatesLists

LEMMA UigweLeaves ==
  ASSUME NEW r \in RouteLists
  PROVE  /\ Gates!Without(r, {Gates!Uigwe}) \in RouteLists
         /\ Gates!Uigwe \notin Range(Gates!Without(r, {Gates!Uigwe}))
<1>1. r \in Seq(RouteNames)
  BY DEF RouteLists
<1> DEFINE q == Gates!Without(r, {Gates!Uigwe})
<1>2. q \in Seq(RouteNames) /\ Range(q) = Range(r) \ {Gates!Uigwe}
  BY <1>1, GatesLists, MembersKept
<1> HIDE DEF q
<1>3. q \in RouteLists /\ Gates!Uigwe \notin Range(q)
  BY <1>2, OrderedWithout DEF RouteLists
<1> QED BY <1>3 DEF q

\* Whatever routes are required, in any order, Uigwe is required before Seungjeongwon.
LEMMA RequiredOrdered ==
  ASSUME NEW r \in RouteLists, NEW t \in Seq(RouteNames)
  PROVE  Gates!AddRequired(r, t) \in RouteLists
<1>1. ASSUME NEW q \in RouteLists, NEW x \in RouteNames
      PROVE  AddRoute({}, q, x) \in RouteLists
  <2>1. CASE x = Gates!Uigwe
    <3> DEFINE w == Gates!Without(q, {Gates!Uigwe})
    <3>1. w \in Seq(RouteNames) /\ Gates!Uigwe \notin Range(w)
      BY UigweLeaves DEF RouteLists
    <3> HIDE DEF w
    <3>2. Gates!Before(w, Gates!Uigwe, Gates!Seungjeongwon) \in RouteLists
      BY <3>1, OrderedBefore DEF RouteLists
    <3> QED BY <2>1, <3>2 DEF AddRoute, w
  <2>2. CASE x # Gates!Uigwe
    BY <2>2, RouteJoins DEF AddRoute
  <2> QED BY <2>1, <2>2
<1> HIDE DEF RouteNames
<1> QED BY <1>1, RequiredIsFold, Routing!FoldKeeps

RequiredInv ==
  /\ context.required \in RouteLists
  /\ context.route \in Seq(RouteNames)

LEMMA NamedRoutes ==
  /\ \A a \in HookStarts : a.surface \in RouteNames /\ a.routes \in Seq(RouteNames) /\ a.required \in Seq(RouteNames)
  /\ \A a \in HookUpdates : {a.set, a.append, a.required} \subseteq Seq(RouteNames)
<1>1. Seq(STRING) \subseteq Seq(RouteNames) /\ STRING \subseteq RouteNames
  BY SeqMonotonic, Zenon DEF RouteNames
<1> QED BY <1>1, HooksAssumption DEF Gates!ConstantsAssumption

LEMMA SeungjeongwonJoins ==
  ASSUME NEW r \in RouteLists
  PROVE  /\ Gates!UniqueAppend(r, <<Gates!Seungjeongwon>>) \in RouteLists
         /\ Gates!UniqueAppend(r, <<>>) = r
<1>1. Gates!Seungjeongwon \in RouteNames /\ Gates!Seungjeongwon # Gates!Uigwe
  BY DEF RouteNames, Gates!Seungjeongwon, Gates!Uigwe
<1>2. Gates!UniqueAppend(r, <<>>) = r
  BY GatesLists, Adding!FoldOfEmpty
<1> QED BY <1>1, <1>2, RouteJoins

LEMMA RequiredInit == Gates!Init => RequiredInv
<1> SUFFICES ASSUME Gates!Init PROVE RequiredInv
  OBVIOUS
<1>1. PICK a \in HookStarts : context = Gates!Started(a)
  BY DEF Gates!Init
<1>2. <<>> \in RouteLists
  BY EmptySeq DEF RouteLists, Ordered
<1> DEFINE wanted == Gates!AddRequired(<<>>, a.required)
<1>3. wanted \in RouteLists
  BY <1>2, NamedRoutes, RequiredOrdered
<1> HIDE DEF wanted
<1>4. (IF a.goal THEN Gates!UniqueAppend(wanted, <<Gates!Seungjeongwon>>) ELSE wanted) \in RouteLists
  BY <1>3, SeungjeongwonJoins
<1>5. (IF a.routes = <<>> THEN <<a.surface>> ELSE a.routes) \in Seq(RouteNames)
  <2> HIDE DEF RouteNames
  <2> QED BY NamedRoutes
<1>6. /\ context.required = IF a.goal THEN Gates!UniqueAppend(wanted, <<Gates!Seungjeongwon>>) ELSE wanted
      /\ context.route = IF a.routes = <<>> THEN <<a.surface>> ELSE a.routes
  BY <1>1 DEF Gates!Started, wanted
<1> QED BY <1>4, <1>5, <1>6 DEF RequiredInv

LEMMA RequiredUpdate ==
  ASSUME RequiredInv, NEW a \in HookUpdates
  PROVE  Gates!Updated(a).required \in RouteLists /\ Gates!Updated(a).route \in Seq(RouteNames)
<1> DEFINE wanted == Gates!AddRequired(context.required, a.required)
           both == Gates!UniqueAppend(wanted, IF a.receipt THEN <<Gates!Seungjeongwon>> ELSE <<>>)
           walked == IF a.set # <<>> THEN a.set ELSE context.route
<1>1. wanted \in RouteLists
  BY NamedRoutes, RequiredOrdered DEF RequiredInv
<1>2. both \in RouteLists
  <2> HIDE DEF wanted
  <2> QED BY <1>1, SeungjeongwonJoins
<1>3. walked \in Seq(RouteNames) /\ a.append \in Seq(RouteNames)
  BY NamedRoutes DEF RequiredInv
<1>4. Gates!UniqueAppend(walked, a.append) \in Seq(RouteNames)
  <2> HIDE DEF walked, RouteNames
  <2> QED BY <1>3, GatesLists, MembersAdded
<1>5. Gates!Updated(a).route = Gates!UniqueAppend(walked, a.append)
  BY DEF Gates!Updated
<1>6. Gates!Updated(a).required \in {both, Gates!Without(both, {Gates!Uigwe})}
  BY DEF Gates!Updated
<1> HIDE DEF both
<1>7. Gates!Without(both, {Gates!Uigwe}) \in RouteLists
  BY <1>2, UigweLeaves
<1> QED BY <1>2, <1>4, <1>5, <1>6, <1>7

LEMMA RequiredStep == ASSUME RequiredInv, [Gates!Next]_(Gates!vars) PROVE RequiredInv'
<1>1. context' = context \/ \E a \in HookUpdates : context' = Gates!Updated(a)
  BY DEF Gates!Next, Gates!vars, Gates!Stop, Gates!PreCompact, Gates!ArtifactsChange, Gates!Update, Gates!LoadChanges,
         Gates!ToolCall, Gates!SubagentStop
<1>2. CASE context' = context
  BY <1>2 DEF RequiredInv
<1>3. ASSUME NEW a \in HookUpdates, context' = Gates!Updated(a)
      PROVE  RequiredInv'
  BY <1>3, RequiredUpdate DEF RequiredInv
<1> QED BY <1>1, <1>2, <1>3

\* Uigwe was entered, and Seungjeongwon after it.
PlannedFirst(r) ==
  \E i, j \in DOMAIN r : i < j /\ r[i] = Gates!Uigwe /\ r[j] = Gates!Seungjeongwon

\* No protected path is written under a Context that requires both before they were entered
\* in this order.
ProtectedIsPlanned ==
  [][part = "gates" /\ load = "applies" =>
       \A t \in Gates!ToolCalls :
         /\ Gates!ToolCall(t) /\ t.write /\ t.protected
         /\ {Gates!Uigwe, Gates!Seungjeongwon} \subseteq Range(context.required)
         => PlannedFirst(context.route)]_AllVars

LEMMA ProtectedFollows ==
  ASSUME RequiredInv, load = "applies", NEW t \in Gates!ToolCalls, Gates!ToolCall(t), t.write, t.protected,
         {Gates!Uigwe, Gates!Seungjeongwon} \subseteq Range(context.required)
  PROVE  PlannedFirst(context.route)
<1> DEFINE r == context.required
           o == context.route
<1>1. r \in Seq(RouteNames) /\ Ordered(r) /\ o \in Seq(RouteNames)
  BY DEF RequiredInv, RouteLists
<1>2. Gates!IsSubsequence(r, o)
  BY DEF Gates!ToolCall, Gates!Denies, Gates!RouteSatisfied
<1>3. Embeds(r, Len(r), o)
  <2> HIDE DEF RouteNames, r, o
  <2> QED BY <1>1, <1>2, RouteMatchIsExact
<1>4. DOMAIN r = 1..Len(r) /\ DOMAIN o = 1..Len(o)
  BY <1>1, LenProperties
<1>5. PICK i \in DOMAIN r, j \in DOMAIN r : r[i] = Gates!Uigwe /\ r[j] = Gates!Seungjeongwon
  BY DEF Range
<1>6. i < j
  BY <1>1, <1>5 DEF Ordered
<1> HIDE DEF r, o
<1>7. PICK f \in [1..Len(r) -> 1..Len(o)] :
        /\ \A m, n \in 1..Len(r) : m < n => f[m] < f[n]
        /\ \A m \in 1..Len(r) : o[f[m]] = r[m]
  BY <1>3 DEF Embeds
<1>8. f[i] \in DOMAIN o /\ f[j] \in DOMAIN o /\ f[i] < f[j] /\ o[f[i]] = Gates!Uigwe /\ o[f[j]] = Gates!Seungjeongwon
  BY <1>4, <1>5, <1>6, <1>7
<1> QED BY <1>8 DEF PlannedFirst, o

--------------------------------------------------------------------------------
(* The capsules                                                             *)

\* What a command b makes of the open gates o, the first decision f and the last texts t.
OpenThen(b, o) ==
  IF b.op = "start" THEN Range(b.add) ELSE IF b.op = "update" THEN (o \cup Range(b.add)) \ b.clear ELSE o
FirstThen(b, f) ==
  IF b.op = "start" /\ b.force THEN Nil ELSE IF b.op = "decide" /\ f = Nil THEN b.id ELSE f
LatestThen(b, t) ==
  IF b.op = "start" /\ b.force THEN <<>>
  ELSE IF b.op = "decide" THEN [i \in DOMAIN t \cup {b.id} |-> IF i = b.id THEN b.text ELSE t[i]]
  ELSE t

CapsuleForm(c) ==
  /\ DOMAIN c = {"run", "class", "gates", "decisions", "status"}
  /\ c.gates \in Seq(STRING) /\ c.decisions \in Seq(CapsuleDecisions)

\* A capsule that began with the decision f and has the last texts t.
Decided(c, f, t) ==
  /\ f = IF c.decisions = <<>> THEN Nil ELSE c.decisions[1].id
  /\ \A i \in DOMAIN c.decisions : c.decisions[i].id \in DOMAIN t /\ t[c.decisions[i].id] = c.decisions[i].text

\* The file holds what the ghosts do, as far as they are not doubtful.
FileAgrees ==
  /\ memory = Nil => first = Nil
  /\ memory \notin {Nil, Torn} =>
       /\ CapsuleForm(memory)
       /\ "gates" \notin doubtful => Range(memory.gates) = open
       /\ "decisions" \notin doubtful => Decided(memory, first, latest)

\* What the command c will write, if it has missed nothing, is what the ghosts will hold, which
\* are now o, f and t, and doubtful as to d.
CommandAgrees(c, o, f, t, d) ==
  /\ DOMAIN c = {"to", "by", "stage", "missed"}
  /\ c.to # Nil /\ CapsuleForm(c.to) /\ c.by.op \in {"start", "update", "decide", "reject"}
  /\ c.by.op = "start" => Range(c.to.gates) = Range(c.by.add) /\ c.to.decisions = <<>>
  /\ "gates" \notin d \cup c.missed => Range(c.to.gates) = OpenThen(c.by, o)
  /\ "decisions" \notin d \cup c.missed => Decided(c.to, FirstThen(c.by, f), LatestThen(c.by, t))

CommandsAgree ==
  /\ DOMAIN command = CapsuleProcs
  /\ \A p \in CapsuleProcs :
       command[p] # Nil => CommandAgrees(command[p], open, first, latest, doubtful)

HooksAgree ==
  /\ ref.named \in BOOLEAN /\ ref.resolves \in BOOLEAN
  /\ allowed \in BOOLEAN /\ judged \in BOOLEAN
  /\ allowed => Capsule!Look(ref.resolves) \in {"valid", "none"}
  /\ told \notin {Nil, <<>>} =>
       Capsule!Look(ref.resolves) = "valid" /\ told = <<Capsule!Projection(memory)>>
  /\ told = <<>> => Capsule!Look(ref.resolves) = "none"
  /\ judged => Capsule!Look(Capsule!JudgeFinds) = "valid"

CapsuleInv == FileAgrees /\ CommandsAgree /\ HooksAgree

LEMMA CapsuleRange == ASSUME NEW s PROVE Capsule!Range(s) = Range(s)
BY DEF Capsule!Range, Range

LEMMA CapsuleInit == Capsule!Init => CapsuleInv
<1> SUFFICES ASSUME Capsule!Init PROVE CapsuleInv
  OBVIOUS
<1>1. /\ ref \in CapsuleRefs /\ memory = Nil /\ command = [p \in CapsuleProcs |-> Nil] /\ first = Nil
      /\ allowed = FALSE /\ told = Nil /\ judged = FALSE
  BY DEF Capsule!Init
<1>2. Nil # <<>> /\ ref.named \in BOOLEAN /\ ref.resolves \in BOOLEAN
  BY <1>1, CapsuleAssumption DEF Capsule!ConstantsAssumption
<1> QED BY <1>1, <1>2 DEF CapsuleInv, FileAgrees, CommandsAgree, HooksAgree

\* A decision recorded again keeps its place, a new one goes to the end.
LEMMA Upserted ==
  ASSUME NEW s \in Seq(CapsuleDecisions), NEW d \in CapsuleDecisions
  PROVE  LET u == Capsule!Upsert(s, d) IN
         /\ u \in Seq(CapsuleDecisions) /\ u # <<>>
         /\ u[1].id = IF s = <<>> THEN d.id ELSE s[1].id
         /\ \A i \in DOMAIN u : u[i] = d \/ (u[i].id # d.id /\ i \in DOMAIN s /\ u[i] = s[i])
<1> DEFINE u == Capsule!Upsert(s, d)
<1>1. Len(s) \in Nat /\ DOMAIN s = 1..Len(s) /\ \A i \in 1..Len(s) : s[i] \in CapsuleDecisions
  BY LenProperties, ElementOfSeq
<1>2. CASE \E i \in DOMAIN s : s[i].id = d.id
  <2>1. u = [i \in DOMAIN s |-> IF s[i].id = d.id THEN d ELSE s[i]]
    BY <1>2 DEF Capsule!Upsert
  <2> DEFINE F == [i \in 1..Len(s) |-> IF s[i].id = d.id THEN d ELSE s[i]]
  <2>2. F \in Seq(CapsuleDecisions) /\ Len(F) = Len(s) /\ DOMAIN F = 1..Len(s)
    <3>1. \A i \in 1..Len(s) : (IF s[i].id = d.id THEN d ELSE s[i]) \in CapsuleDecisions
      BY <1>1
    <3>2. F \in [1..Len(s) -> CapsuleDecisions]
      BY <3>1
    <3>3. F \in Seq(CapsuleDecisions)
      <4> HIDE DEF F
      <4> QED BY <1>1, <3>2, IsASeq
    <3> QED BY <1>1, <3>2, <3>3, LenProperties
  <2>3. Len(s) >= 1 /\ s # <<>> /\ 1 \in 1..Len(s)
    BY <1>1, <1>2, EmptySeq
  <2>4. F # <<>>
    <3> HIDE DEF F
    <3> QED BY <2>2, <2>3, EmptySeq
  <2> QED BY <1>1, <2>1, <2>2, <2>3, <2>4
<1>3. CASE ~\E i \in DOMAIN s : s[i].id = d.id
  <2>1. u = Append(s, d)
    BY <1>3 DEF Capsule!Upsert
  <2> HIDE DEF u
  <2>2. /\ u \in Seq(CapsuleDecisions) /\ Len(u) = Len(s) + 1 /\ DOMAIN u = 1..(Len(s) + 1) /\ u # <<>>
        /\ \A i \in 1..Len(s) : u[i] = s[i]
        /\ u[Len(s) + 1] = d
    BY <1>1, <2>1, AppendProperties, LenProperties, EmptySeq
  <2>3. u[1].id = IF s = <<>> THEN d.id ELSE s[1].id
    <3>1. CASE s = <<>>
      BY <2>2, <3>1, EmptySeq
    <3>2. CASE s # <<>>
      BY <1>1, <2>2, <3>2, EmptySeq
    <3> QED BY <3>1, <3>2
  <2> USE DEF u
  <2> QED BY <1>1, <1>3, <2>2, <2>3
<1> QED BY <1>2, <1>3

\* What the hooks said stays right while the Context, its reference and the file stay.
LEMMA SameLook ==
  ASSUME UNCHANGED <<ctx, ref, memory>>
  PROVE  /\ Capsule!Look(ref.resolves)' = Capsule!Look(ref.resolves)
         /\ Capsule!Look(Capsule!JudgeFinds)' = Capsule!Look(Capsule!JudgeFinds)
         /\ Capsule!Projection(memory)' = Capsule!Projection(memory)
BY DEF Capsule!Look, Capsule!Matches, Capsule!Valid, Capsule!JudgeFinds, Capsule!Projection

LEMMA HooksKeep ==
  ASSUME HooksAgree, UNCHANGED <<ctx, ref, memory, allowed, told, judged>> PROVE HooksAgree'
BY SameLook DEF HooksAgree

\* Every other change takes back what they said.
LEMMA HooksTaken == ASSUME HooksAgree, Capsule!Disturbs, ref' = ref PROVE HooksAgree'
<1>1. Nil # <<>> /\ Nil \notin {<<>>}
  BY CapsuleAssumption DEF Capsule!ConstantsAssumption
<1> QED BY <1>1 DEF HooksAgree, Capsule!Disturbs

LEMMA FileKeeps ==
  ASSUME FileAgrees, UNCHANGED <<memory, open, first, latest, doubtful>> PROVE FileAgrees'
BY DEF FileAgrees, CapsuleForm, Decided

LEMMA CommandsKeep ==
  ASSUME CommandsAgree, UNCHANGED <<command, open, first, latest, doubtful>> PROVE CommandsAgree'
BY DEF CommandsAgree

LEMMA Idle == ASSUME NEW T PROVE Capsule!Overtaken(Nil, T) = Nil
BY Zenon DEF Capsule!Overtaken

\* A command whose text another's is mixed with still holds what it held.
LEMMA Overtook ==
  ASSUME NEW c, NEW T, NEW o, NEW f, NEW t, NEW d, c # Nil, CommandAgrees(c, o, f, t, d)
  PROVE  LET e == Capsule!Overtaken(c, T) IN
         /\ CommandAgrees(e, o, f, t, d)
         /\ e.to = c.to /\ e.by = c.by /\ e.missed = c.missed \cup T
<1> DEFINE e == Capsule!Overtaken(c, T)
<1>1. e = [c EXCEPT !.missed = @ \cup T, !.stage = IF @ = "truncated" THEN "mixed" ELSE @]
  BY DEF Capsule!Overtaken
<1>2. DOMAIN c = {"to", "by", "stage", "missed"}
  BY DEF CommandAgrees
<1>3. DOMAIN e = DOMAIN c /\ e.to = c.to /\ e.by = c.by /\ e.missed = c.missed \cup T
  BY <1>1, <1>2
<1> HIDE DEF e
<1>4. CommandAgrees(e, o, f, t, d)
  <2>1. /\ DOMAIN e = {"to", "by", "stage", "missed"}
        /\ c.to # Nil /\ CapsuleForm(c.to) /\ c.by.op \in {"start", "update", "decide", "reject"}
        /\ c.by.op = "start" => Range(c.to.gates) = Range(c.by.add) /\ c.to.decisions = <<>>
    BY <1>2, <1>3 DEF CommandAgrees
  <2>2. "gates" \notin d \cup e.missed => Range(c.to.gates) = OpenThen(c.by, o)
    BY <1>3 DEF CommandAgrees
  <2>3. "decisions" \notin d \cup e.missed => Decided(c.to, FirstThen(c.by, f), LatestThen(c.by, t))
    BY <1>3 DEF CommandAgrees
  <2> QED BY <1>3, <2>1, <2>2, <2>3 DEF CommandAgrees
<1> QED BY <1>3, <1>4 DEF e

LEMMA LoadsKeep ==
  ASSUME CapsuleInv, NEW p \in CapsuleProcs, NEW c, NEW b, Capsule!Loads(p, c, b), CapsuleForm(c),
         b.op \in {"start", "update", "decide", "reject"},
         b.op = "start" => Range(c.gates) = Range(b.add) /\ c.decisions = <<>>,
         "gates" \notin doubtful => Range(c.gates) = OpenThen(b, open),
         "decisions" \notin doubtful => Decided(c, FirstThen(b, first), LatestThen(b, latest))
  PROVE  CapsuleInv'
<1> DEFINE x == [to |-> c, by |-> b, stage |-> "loaded", missed |-> {}]
<1>1. /\ command' = [command EXCEPT ![p] = x]
      /\ UNCHANGED <<ctx, ref, memory, allowed, told, judged, open, first, latest, doubtful>>
      /\ c # Nil
  BY DEF Capsule!Loads, Capsule!Valid
<1>2. DOMAIN x = {"to", "by", "stage", "missed"} /\ x.to = c /\ x.by = b /\ x.missed = {}
  OBVIOUS
<1> HIDE DEF x
<1>3. CommandAgrees(x, open, first, latest, doubtful)
  BY <1>1, <1>2 DEF CommandAgrees
<1>4. CommandsAgree'
  BY <1>1, <1>3 DEF CommandsAgree, CapsuleInv
<1> QED BY <1>1, <1>4, HooksKeep, FileKeeps DEF CapsuleInv

LEMMA CapsuleStart ==
  ASSUME CapsuleInv, NEW p \in CapsuleProcs, NEW a \in CapsuleStarts, NEW force \in BOOLEAN,
         Capsule!Start(p, a, force)
  PROVE  CapsuleInv'
<1> DEFINE c == [run |-> a.run, class |-> a.class, gates |-> a.gates, decisions |-> <<>>, status |-> "unverified"]
           b == [op |-> "start", add |-> a.gates, force |-> force]
<1>1. a.gates \in Seq(STRING)
  BY CapsuleAssumption DEF Capsule!ConstantsAssumption
<1>2. <<>> \in Seq(CapsuleDecisions) /\ DOMAIN <<>> = {}
  BY EmptySeq
<1>3. CapsuleForm(c) /\ Range(c.gates) = Range(b.add) /\ c.decisions = <<>> /\ b.op = "start"
  BY <1>1, <1>2 DEF CapsuleForm
<1>4. Range(c.gates) = OpenThen(b, open)
  BY <1>3 DEF OpenThen
<1>5. Decided(c, FirstThen(b, first), LatestThen(b, latest))
  <2>1. force \/ first = Nil
    BY DEF Capsule!Start, CapsuleInv, FileAgrees
  <2>2. FirstThen(b, first) = Nil
    BY <2>1 DEF FirstThen
  <2> QED BY <1>2, <2>2 DEF Decided
<1>6. Capsule!Loads(p, c, b)
  BY DEF Capsule!Start
<1> HIDE DEF c, b
<1> QED BY <1>3, <1>4, <1>5, <1>6, LoadsKeep

LEMMA CapsuleUpdate ==
  ASSUME CapsuleInv, NEW p \in CapsuleProcs, NEW a \in CapsuleUpdates, Capsule!Update(p, a)
  PROVE  CapsuleInv'
<1> DEFINE joined == Capsule!UniqueAppend(memory.gates, a.add)
           kept == Capsule!Without(joined, a.clear)
           c == [memory EXCEPT !.gates = kept, !.status = IF a.status = Nil THEN @ ELSE a.status]
           b == [op |-> "update", add |-> a.add, clear |-> a.clear]
<1>1. a.add \in Seq(STRING)
  BY CapsuleAssumption DEF Capsule!ConstantsAssumption
<1>2. /\ CapsuleForm(memory)
      /\ "gates" \notin doubtful => Range(memory.gates) = open
      /\ "decisions" \notin doubtful => Decided(memory, first, latest)
  BY DEF Capsule!Update, CapsuleInv, FileAgrees
<1>3. joined \in Seq(STRING) /\ Range(joined) = Range(memory.gates) \cup Range(a.add)
  BY <1>1, <1>2, CapsuleLists, MembersAdded DEF CapsuleForm
<1>4. kept \in Seq(STRING) /\ Range(kept) = (Range(memory.gates) \cup Range(a.add)) \ a.clear
  <2> HIDE DEF joined
  <2> QED BY <1>3, CapsuleLists, MembersKept
<1>5. Capsule!Loads(p, c, b)
  BY DEF Capsule!Update
<1> HIDE DEF kept
<1>6. c.gates = kept /\ c.decisions = memory.decisions /\ DOMAIN c = DOMAIN memory
  BY <1>2 DEF CapsuleForm
<1>7. /\ b.op = "update"
      /\ OpenThen(b, open) = (open \cup Range(a.add)) \ a.clear
      /\ FirstThen(b, first) = first /\ LatestThen(b, latest) = latest
  BY DEF OpenThen, FirstThen, LatestThen
<1> HIDE DEF c, b
<1>8. CapsuleForm(c)
  BY <1>2, <1>4, <1>6 DEF CapsuleForm
<1>9. "gates" \notin doubtful => Range(c.gates) = OpenThen(b, open)
  BY <1>2, <1>4, <1>6, <1>7
<1>10. "decisions" \notin doubtful => Decided(c, FirstThen(b, first), LatestThen(b, latest))
  BY <1>2, <1>6, <1>7 DEF Decided
<1> QED BY <1>5, <1>7, <1>8, <1>9, <1>10, LoadsKeep

LEMMA CapsuleDecide ==
  ASSUME CapsuleInv, NEW p \in CapsuleProcs, NEW d \in CapsuleDecisions, Capsule!RecordDecision(p, d)
  PROVE  CapsuleInv'
<1> DEFINE s == memory.decisions
           u == Capsule!Upsert(s, d)
           c == [memory EXCEPT !.decisions = u]
           b == [op |-> "decide", id |-> d.id, text |-> d.text]
<1>1. /\ CapsuleForm(memory)
      /\ "gates" \notin doubtful => Range(memory.gates) = open
      /\ "decisions" \notin doubtful => Decided(memory, first, latest)
  BY DEF Capsule!RecordDecision, CapsuleInv, FileAgrees
<1>2. /\ u \in Seq(CapsuleDecisions) /\ u # <<>>
      /\ u[1].id = IF s = <<>> THEN d.id ELSE s[1].id
      /\ \A i \in DOMAIN u : u[i] = d \/ (u[i].id # d.id /\ i \in DOMAIN s /\ u[i] = s[i])
  BY <1>1, Upserted DEF CapsuleForm
<1>3. Capsule!Loads(p, c, b)
  BY DEF Capsule!RecordDecision
<1> HIDE DEF u
<1>4. c.gates = memory.gates /\ c.decisions = u /\ DOMAIN c = DOMAIN memory
  BY <1>1 DEF CapsuleForm
<1>5. \A e \in CapsuleDecisions : e.id # Nil
  BY CapsuleAssumption DEF Capsule!ConstantsAssumption
<1>6. /\ b.op = "decide" /\ OpenThen(b, open) = open
      /\ FirstThen(b, first) = IF first = Nil THEN d.id ELSE first
      /\ LatestThen(b, latest) = [i \in DOMAIN latest \cup {d.id} |-> IF i = d.id THEN d.text ELSE latest[i]]
  BY DEF OpenThen, FirstThen, LatestThen
<1>7. ASSUME "decisions" \notin doubtful PROVE Decided(c, FirstThen(b, first), LatestThen(b, latest))
  <2>1. Decided(memory, first, latest)
    BY <1>1, <1>7
  <2>2. FirstThen(b, first) = u[1].id
    <3>1. CASE s = <<>>
      BY <1>2, <1>6, <2>1, <3>1 DEF Decided
    <3>2. CASE s # <<>>
      <4>1. s[1].id # Nil
        BY <1>1, <1>5, <3>2, EmptySeq, LenProperties, ElementOfSeq DEF CapsuleForm
      <4> QED BY <1>2, <1>6, <2>1, <3>2, <4>1 DEF Decided
    <3> QED BY <3>1, <3>2
  <2>3. ASSUME NEW i \in DOMAIN u
        PROVE  u[i].id \in DOMAIN LatestThen(b, latest) /\ LatestThen(b, latest)[u[i].id] = u[i].text
    BY <1>2, <1>6, <2>1 DEF Decided
  <2> HIDE DEF c, b
  <2> QED BY <1>2, <1>4, <2>2, <2>3 DEF Decided
<1> HIDE DEF c, b
<1>8. CapsuleForm(c)
  BY <1>1, <1>2, <1>4 DEF CapsuleForm
<1>9. "gates" \notin doubtful => Range(c.gates) = OpenThen(b, open)
  BY <1>1, <1>4, <1>6
<1> QED BY <1>3, <1>6, <1>7, <1>8, <1>9, LoadsKeep

LEMMA CapsuleReject ==
  ASSUME CapsuleInv, NEW p \in CapsuleProcs, Capsule!RecordRejection(p) PROVE CapsuleInv'
<1> DEFINE b == [op |-> "reject"]
<1>1. Capsule!Loads(p, memory, b) /\ b.op = "reject" /\ memory \notin {Nil, Torn}
  BY DEF Capsule!RecordRejection
<1>2. OpenThen(b, open) = open /\ FirstThen(b, first) = first /\ LatestThen(b, latest) = latest
  BY DEF OpenThen, FirstThen, LatestThen
<1> HIDE DEF b
<1>3. /\ CapsuleForm(memory)
      /\ "gates" \notin doubtful => Range(memory.gates) = OpenThen(b, open)
      /\ "decisions" \notin doubtful => Decided(memory, FirstThen(b, first), LatestThen(b, latest))
  BY <1>1, <1>2 DEF CapsuleInv, FileAgrees
<1> QED BY <1>1, <1>3, LoadsKeep

\* A command that missed nothing leaves the file and the ghosts in agreement; whoever had
\* loaded the file before it has now missed what it recorded.
LEMMA CapsuleWrite == ASSUME CapsuleInv, NEW p \in CapsuleProcs, Capsule!Write(p) PROVE CapsuleInv'
<1> DEFINE c == command[p]
           b == c.by
           anew == b.op = "start" /\ b.force
           T == Capsule!Recorded(b)
<1>1. /\ c # Nil /\ (memory' = c.to \/ memory' = Torn)
      /\ command' = [q \in CapsuleProcs |-> IF q = p THEN Nil ELSE Capsule!Overtaken(command[q], T)]
      /\ Capsule!Disturbs /\ ref' = ref
      /\ doubtful' = IF anew THEN {} ELSE doubtful \cup c.missed
  BY DEF Capsule!Write
<1>2. /\ open' = CASE "gates" \in doubtful' -> {}
                   [] b.op = "start" -> Capsule!Range(b.add)
                   [] b.op = "update" -> (open \cup Capsule!Range(b.add)) \ b.clear
                   [] OTHER -> open
      /\ first' = CASE anew \/ "decisions" \in doubtful' -> Nil
                    [] b.op = "decide" /\ first = Nil -> b.id
                    [] OTHER -> first
      /\ latest' = CASE anew \/ "decisions" \in doubtful' -> <<>>
                     [] b.op = "decide" -> [i \in DOMAIN latest \cup {b.id} |-> IF i = b.id THEN b.text ELSE latest[i]]
                     [] OTHER -> latest
  BY DEF Capsule!Write
<1>3. CommandAgrees(c, open, first, latest, doubtful)
  BY <1>1 DEF CapsuleInv, CommandsAgree
<1>4. b.op \in {"start", "update", "decide", "reject"} /\ CapsuleForm(c.to) /\ c.to # Nil
  BY <1>3 DEF CommandAgrees
<1>5. anew => /\ Range(c.to.gates) = OpenThen(b, open)
              /\ Decided(c.to, FirstThen(b, first), LatestThen(b, latest))
  <2> SUFFICES ASSUME anew PROVE Range(c.to.gates) = OpenThen(b, open) /\ Decided(c.to, FirstThen(b, first), LatestThen(b, latest))
    OBVIOUS
  <2>1. Range(c.to.gates) = Range(b.add) /\ c.to.decisions = <<>>
    BY <1>3 DEF CommandAgrees
  <2>2. OpenThen(b, open) = Range(b.add) /\ FirstThen(b, first) = Nil
    BY DEF OpenThen, FirstThen
  <2>3. DOMAIN <<>> = {}
    BY EmptySeq
  <2> QED BY <2>1, <2>2, <2>3 DEF Decided
<1>6. "gates" \notin doubtful' => open' = OpenThen(b, open) /\ Range(c.to.gates) = open'
  <2> SUFFICES ASSUME "gates" \notin doubtful' PROVE open' = OpenThen(b, open) /\ Range(c.to.gates) = open'
    OBVIOUS
  <2>1. open' = OpenThen(b, open)
    BY <1>2, <1>4, CapsuleRange DEF OpenThen
  <2>2. ~anew => "gates" \notin doubtful \cup c.missed
    BY <1>1
  <2> QED BY <1>3, <1>5, <2>1, <2>2 DEF CommandAgrees
<1>7. "decisions" \notin doubtful' =>
        /\ first' = FirstThen(b, first) /\ latest' = LatestThen(b, latest)
        /\ Decided(c.to, first', latest')
  <2> SUFFICES ASSUME "decisions" \notin doubtful'
               PROVE  /\ first' = FirstThen(b, first) /\ latest' = LatestThen(b, latest)
                      /\ Decided(c.to, first', latest')
    OBVIOUS
  <2>1. first' = FirstThen(b, first)
    BY <1>2, <1>4 DEF FirstThen
  <2>2. latest' = LatestThen(b, latest)
    BY <1>2, <1>4 DEF LatestThen
  <2>3. ~anew => "decisions" \notin doubtful \cup c.missed
    BY <1>1
  <2> QED BY <1>3, <1>5, <2>1, <2>2, <2>3 DEF CommandAgrees
<1>8. FileAgrees'
  BY <1>1, <1>4, <1>6, <1>7, CapsuleAssumption DEF FileAgrees, Capsule!ConstantsAssumption
<1>9. ASSUME NEW q \in CapsuleProcs, q # p, command[q] # Nil
       PROVE  CommandAgrees(command'[q], open', first', latest', doubtful')
  <2> DEFINE e == Capsule!Overtaken(command[q], T)
  <2>1. CommandAgrees(command[q], open, first, latest, doubtful)
    BY <1>9 DEF CapsuleInv, CommandsAgree
  <2>2. /\ CommandAgrees(e, open, first, latest, doubtful)
        /\ e.missed = command[q].missed \cup T
    BY <1>9, <2>1, Overtook
  <2>3. command'[q] = e
    BY <1>1, <1>9
  <2> HIDE DEF e
  <2>4. T = IF b.op = "start" THEN {"gates", "decisions"}
            ELSE IF b.op = "update" THEN {"gates"} ELSE IF b.op = "decide" THEN {"decisions"} ELSE {}
    BY <1>4 DEF Capsule!Recorded
  <2> HIDE DEF T, anew
  <2>5. "gates" \notin doubtful' \cup e.missed => open' = open /\ "gates" \notin doubtful \cup e.missed
    <3> SUFFICES ASSUME "gates" \notin doubtful' \cup e.missed PROVE open' = open /\ "gates" \notin doubtful \cup e.missed
      OBVIOUS
    <3>1. b.op # "start" /\ b.op # "update"
      BY <2>2, <2>4
    <3> QED BY <1>1, <1>6, <3>1 DEF OpenThen, anew
  <2>6. "decisions" \notin doubtful' \cup e.missed =>
          first' = first /\ latest' = latest /\ "decisions" \notin doubtful \cup e.missed
    <3> SUFFICES ASSUME "decisions" \notin doubtful' \cup e.missed
                 PROVE  first' = first /\ latest' = latest /\ "decisions" \notin doubtful \cup e.missed
      OBVIOUS
    <3>1. b.op # "start" /\ b.op # "decide"
      BY <2>2, <2>4
    <3> QED BY <1>1, <1>7, <3>1 DEF FirstThen, LatestThen, anew
  <2> QED BY <2>2, <2>3, <2>5, <2>6 DEF CommandAgrees
<1>10. CommandsAgree'
  <2>1. ASSUME NEW q \in CapsuleProcs, command[q] = Nil
        PROVE  command'[q] = Nil
    BY <1>1, <2>1, Idle
  <2>2. DOMAIN command' = CapsuleProcs /\ command'[p] = Nil
    BY <1>1
  <2> HIDE DEF T, anew, b, c
  <2> QED BY <1>9, <2>1, <2>2 DEF CommandsAgree
<1> QED BY <1>1, <1>8, <1>10, HooksTaken DEF CapsuleInv

LEMMA CapsuleDies == ASSUME CapsuleInv, NEW p \in CapsuleProcs, Capsule!Die(p) PROVE CapsuleInv'
<1>1. /\ UNCHANGED <<ctx, ref, memory, allowed, told, judged, open, first, latest, doubtful>>
      /\ command' = [q \in CapsuleProcs |-> IF q = p THEN Nil
                                            ELSE IF command[p].stage = "loaded" THEN command[q]
                                            ELSE Capsule!Overtaken(command[q], {})]
  BY DEF Capsule!Die
<1>2. ASSUME NEW q \in CapsuleProcs, command'[q] # Nil
      PROVE  CommandAgrees(command'[q], open, first, latest, doubtful)
  <2>1. command'[q] \in {command[q], Capsule!Overtaken(command[q], {})}
    BY <1>1, <1>2
  <2>2. command[q] # Nil
    BY <1>2, <2>1 DEF Capsule!Overtaken
  <2>3. CommandAgrees(command[q], open, first, latest, doubtful)
    BY <2>2 DEF CapsuleInv, CommandsAgree
  <2> QED BY <2>1, <2>2, <2>3, Overtook
<1>3. CommandsAgree'
  BY <1>1, <1>2 DEF CommandsAgree
<1> QED BY <1>1, <1>3, HooksKeep, FileKeeps DEF CapsuleInv

LEMMA CapsuleTears == ASSUME CapsuleInv, NEW p \in CapsuleProcs, Capsule!Truncate(p) PROVE CapsuleInv'
<1>1. /\ memory' = Torn /\ Capsule!Disturbs /\ ref' = ref /\ UNCHANGED <<open, first, latest, doubtful>>
      /\ command[p] # Nil /\ command' = [command EXCEPT ![p].stage = "truncated"]
  BY DEF Capsule!Truncate
<1>2. /\ CommandAgrees(command[p], open, first, latest, doubtful) /\ DOMAIN command = CapsuleProcs
  BY <1>1 DEF CapsuleInv, CommandsAgree
<1> DEFINE e == [command[p] EXCEPT !.stage = "truncated"]
<1>3. /\ DOMAIN e = {"to", "by", "stage", "missed"}
      /\ e.to = command[p].to /\ e.by = command[p].by /\ e.missed = command[p].missed
  BY <1>2 DEF CommandAgrees
<1>4. command' = [command EXCEPT ![p] = e]
  BY <1>1
<1> HIDE DEF e
<1>5. CommandAgrees(e, open, first, latest, doubtful)
  BY <1>2, <1>3 DEF CommandAgrees
<1>6. CommandsAgree'
  BY <1>1, <1>2, <1>4, <1>5 DEF CapsuleInv, CommandsAgree
<1>7. FileAgrees'
  BY <1>1, CapsuleAssumption DEF CapsuleInv, FileAgrees, Capsule!ConstantsAssumption
<1> QED BY <1>1, <1>6, <1>7, HooksTaken DEF CapsuleInv

LEMMA CapsuleStep == ASSUME CapsuleInv, [Capsule!Next]_(Capsule!vars) PROVE CapsuleInv'
<1>1. CASE UNCHANGED Capsule!vars
  <2>1. UNCHANGED <<ctx, ref, memory, command, allowed, told, judged, open, first, latest, doubtful>>
    BY <1>1 DEF Capsule!vars
  <2> QED BY <2>1, HooksKeep, FileKeeps, CommandsKeep DEF CapsuleInv
<1>2. CASE Capsule!PreCompact
  <2>1. /\ UNCHANGED <<ctx, ref, memory, command, told, judged, open, first, latest, doubtful>> /\ allowed' = TRUE
        /\ Capsule!Look(ref.resolves) \in {"valid", "none"}
    BY <1>2 DEF Capsule!PreCompact
  <2>2. HooksAgree'
    BY <2>1, SameLook DEF CapsuleInv, HooksAgree
  <2> QED BY <2>1, <2>2, FileKeeps, CommandsKeep DEF CapsuleInv
<1>3. CASE Capsule!SessionStart
  <2>1. /\ UNCHANGED <<ctx, ref, memory, command, allowed, judged, open, first, latest, doubtful>> /\ allowed
        /\ told' = IF Capsule!Look(ref.resolves) = "valid" THEN <<Capsule!Projection(memory)>> ELSE <<>>
    BY <1>3 DEF Capsule!SessionStart
  <2>2. Capsule!Look(ref.resolves) \in {"valid", "none"}
    BY <2>1 DEF CapsuleInv, HooksAgree
  <2>3. <<Capsule!Projection(memory)>> # <<>>
    OBVIOUS
  <2>4. HooksAgree'
    BY <2>1, <2>2, <2>3, SameLook DEF CapsuleInv, HooksAgree
  <2> QED BY <2>1, <2>4, FileKeeps, CommandsKeep DEF CapsuleInv
<1>4. CASE Capsule!Judge
  <2>1. /\ UNCHANGED <<ctx, ref, memory, command, allowed, told, open, first, latest, doubtful>>
        /\ judged' = (Capsule!Look(Capsule!JudgeFinds) = "valid")
    BY <1>4 DEF Capsule!Judge
  <2>2. HooksAgree'
    BY <2>1, SameLook DEF CapsuleInv, HooksAgree
  <2> QED BY <2>1, <2>2, FileKeeps, CommandsKeep DEF CapsuleInv
<1>5. ASSUME NEW c \in CapsuleContexts, Capsule!ContextChanges(c) PROVE CapsuleInv'
  <2>1. UNCHANGED <<ref, memory, command, open, first, latest, doubtful>> /\ Capsule!Disturbs
    BY <1>5 DEF Capsule!ContextChanges
  <2> QED BY <2>1, HooksTaken, FileKeeps, CommandsKeep DEF CapsuleInv
<1>6. ASSUME NEW p \in CapsuleProcs,
             \/ Capsule!Truncate(p) \/ Capsule!Write(p) \/ Capsule!Die(p) \/ Capsule!RecordRejection(p)
             \/ \E a \in CapsuleStarts, force \in BOOLEAN : Capsule!Start(p, a, force)
             \/ \E a \in CapsuleUpdates : Capsule!Update(p, a)
             \/ \E d \in CapsuleDecisions : Capsule!RecordDecision(p, d)
      PROVE  CapsuleInv'
  BY <1>6, CapsuleTears, CapsuleWrite, CapsuleDies, CapsuleReject, CapsuleStart, CapsuleUpdate, CapsuleDecide
<1> QED BY <1>1, <1>2, <1>3, <1>4, <1>5, <1>6 DEF Capsule!Next

LEMMA CapsuleFollows == ASSUME CapsuleInv PROVE Capsule!ToldIsTrue
<1>1. ASSUME told \notin {Nil, <<>>}
      PROVE  LET t == Head(told) IN
             /\ t.run = ctx.run
             /\ "gates" \notin doubtful =>
                  /\ Capsule!Range(t.gates) \subseteq open
                  /\ Len(t.gates) < Capsule!ProjectedGates => open \subseteq Capsule!Range(t.gates)
             /\ "decisions" \notin doubtful => t.decision = IF first = Nil THEN Nil ELSE latest[first]
  <2> DEFINE t == Capsule!Projection(memory)
             n == IF Len(memory.gates) < 3 THEN Len(memory.gates) ELSE 3
  <2>1. Head(told) = t /\ Capsule!Look(ref.resolves) = "valid"
    BY <1>1 DEF CapsuleInv, HooksAgree
  <2>2. memory \notin {Nil, Torn} /\ memory.run = ctx.run
    BY <2>1 DEF Capsule!Look, Capsule!Matches
  <2>3. /\ CapsuleForm(memory)
        /\ "gates" \notin doubtful => Range(memory.gates) = open
        /\ "decisions" \notin doubtful => Decided(memory, first, latest)
    BY <2>2 DEF CapsuleInv, FileAgrees
  <2>4. /\ t.run = memory.run /\ t.gates = SubSeq(memory.gates, 1, n)
        /\ t.decision = IF memory.decisions = <<>> THEN Nil ELSE memory.decisions[1].text
    BY DEF Capsule!Projection, Capsule!ProjectedGates
  <2>5. /\ memory.gates \in Seq(STRING) /\ Len(memory.gates) \in Nat /\ DOMAIN memory.gates = 1..Len(memory.gates)
        /\ \A i \in 1..Len(memory.gates) : memory.gates[i] \in STRING
    BY <2>3, LenProperties, ElementOfSeq DEF CapsuleForm
  <2>6. n \in Nat /\ n <= Len(memory.gates) /\ n <= 3 /\ (n < 3 => n = Len(memory.gates))
    BY <2>5
  <2> HIDE DEF t, n
  <2>7. /\ t.gates \in Seq(STRING) /\ Len(t.gates) = n
        /\ \A i \in 1..n : t.gates[i] = memory.gates[i]
    <3>1. \A i \in 1..n : memory.gates[i] \in STRING
      BY <2>5, <2>6
    <3> QED BY <2>4, <2>6, <3>1, SubSeqProperties
  <2>8. DOMAIN t.gates = 1..n
    BY <2>7, LenProperties
  <2>9. Range(t.gates) \subseteq Range(memory.gates) /\ (n < 3 => Range(memory.gates) \subseteq Range(t.gates))
    BY <2>5, <2>6, <2>7, <2>8 DEF Range
  <2>10. "gates" \notin doubtful => Range(t.gates) \subseteq open /\ (n < 3 => open \subseteq Range(t.gates))
    BY <2>3, <2>9
  <2>11. "decisions" \notin doubtful => t.decision = IF first = Nil THEN Nil ELSE latest[first]
    <3>1. CASE memory.decisions = <<>>
      BY <2>3, <2>4, <3>1 DEF Decided
    <3>2. CASE memory.decisions # <<>>
      <4>1. 1 \in DOMAIN memory.decisions /\ memory.decisions[1] \in CapsuleDecisions
        BY <2>3, <3>2, EmptySeq, LenProperties, ElementOfSeq DEF CapsuleForm
      <4>2. memory.decisions[1].id # Nil
        BY <4>1, CapsuleAssumption DEF Capsule!ConstantsAssumption
      <4> QED BY <2>3, <2>4, <3>2, <4>1, <4>2 DEF Decided
    <3> QED BY <3>1, <3>2
  <2>12. t.run = ctx.run
    BY <2>2, <2>4
  <2> QED BY <2>1, <2>7, <2>10, <2>11, <2>12, CapsuleRange DEF Capsule!ProjectedGates
<1>2. ASSUME told = <<>>
      PROVE  ~ref.named /\ ~(ref.resolves /\ judged)
  <2>1. Capsule!Look(ref.resolves) = "none"
    BY <1>2 DEF CapsuleInv, HooksAgree
  <2>2. ~ref.named /\ (~ref.resolves \/ memory \in {Nil, Torn})
    BY <2>1 DEF Capsule!Look
  <2>3. memory \in {Nil, Torn} => Capsule!Look(Capsule!JudgeFinds) # "valid"
    BY DEF Capsule!Look
  <2> QED BY <2>2, <2>3 DEF CapsuleInv, HooksAgree
<1> QED BY <1>1, <1>2 DEF Capsule!ToldIsTrue

--------------------------------------------------------------------------------
(* The composition: one component behaves, the others' variables stay       *)

LEMMA FlowInit == Flow!Init => FlowInv
BY NoArtifact DEF Flow!Init, FlowInv

LEMMA RunSteps == [AllNext]_AllVars => [Next]_vars
BY Zenon DEF AllNext, AllVars, vars

HooksPart == part = "gates" => HooksInv
CapsulePart == part = "capsule" => CapsuleInv
LivePart == part = "live" => PlanInv
RoutePart == part = "route" => RouteInv
FlowPart == part = "flow" => FlowInv

LEMMA PartsInit == AllInit => HooksPart /\ CapsulePart /\ LivePart /\ RoutePart /\ FlowPart
<1>1. AllInit => /\ part = "gates" => Gates!Init
                 /\ part = "capsule" => Capsule!Init
                 /\ part = "live" => Live!Init
                 /\ part = "route" => Route!Init
                 /\ part = "flow" => Flow!Init
  BY DEF AllInit
<1> QED BY <1>1, HooksStart, CapsuleInit, PlanInit, RouteInit, FlowInit, Zenon
        DEF HooksPart, CapsulePart, LivePart, RoutePart, FlowPart

LEMMA PartsStep ==
  ASSUME [AllNext]_AllVars
  PROVE  /\ part' = part
         /\ part = "gates" => [Gates!Next]_(Gates!vars)
         /\ part = "capsule" => [Capsule!Next]_(Capsule!vars)
         /\ part = "live" => [Live!Next]_(Live!vars)
         /\ part = "route" => [Route!Next]_(Route!vars)
         /\ part = "flow" => [Flow!Next]_(Flow!vars)
BY DEF AllNext, AllVars, guarded, remembered, planned, routed, flowing, Gates!vars, Gates!artifacts, Capsule!vars,
   Live!vars, Route!vars, Flow!vars

LEMMA GuardingStep == ASSUME HooksPart, [AllNext]_AllVars PROVE HooksPart'
BY PartsStep, HooksStep, Zenon DEF HooksPart

LEMMA RememberingStep == ASSUME CapsulePart, [AllNext]_AllVars PROVE CapsulePart'
BY PartsStep, CapsuleStep, Zenon DEF CapsulePart

LEMMA LiveStep == ASSUME LivePart, [AllNext]_AllVars PROVE LivePart'
BY PartsStep, PlanStep, Zenon DEF LivePart

LEMMA RoutingStep == ASSUME RoutePart, [AllNext]_AllVars PROVE RoutePart'
BY PartsStep, RouteStep, Zenon DEF RoutePart

LEMMA FlowingStep == ASSUME FlowPart, [AllNext]_AllVars PROVE FlowPart'
BY PartsStep, FlowStep, Zenon DEF FlowPart

--------------------------------------------------------------------------------
(* Theorems                                                                 *)

\* As long as one command at a time works on the run, a completed run still has every todo it
\* was ever given, each completed or replaced and none of them failing, and a failed attempt
\* is accepted for every todo that is not replaced, whatever the executor has edited
\* (run_failures:459-766, seungjeongwon_run.py:1009).
THEOREM CompletionIsSound == ASSUME OneCaller PROVE AllSpec => []RunIsSound
<1>1. AllInit => HistoryInv
  BY HistoryInit DEF AllInit
<1>2. HistoryInv /\ [AllNext]_AllVars => HistoryInv'
  BY OneCaller, RunSteps, HistoryStep
<1>3. HistoryInv => RunIsSound
  BY TypesFollow, CompletionFollows, FailureFollows DEF RunIsSound, LedgerInv
<1> QED BY <1>1, <1>2, <1>3, PTL DEF AllSpec

\* However many processes interleave and however often the run is started anew, a checkpoint
\* that replay accepts agrees with the run on everything but its criteria
\* (replay_stale_failures:853-914).
THEOREM ReplayIsExact == AllSpec => []ReplayAgrees
<1>1. AllInit => RecordsInv
  BY RecordsInit DEF AllInit
<1>2. RecordsInv /\ [AllNext]_AllVars => RecordsInv'
  BY RunSteps, RecordsStep
<1>3. RecordsInv => ReplayAgrees
  BY ReplayFollows
<1> QED BY <1>1, <1>2, <1>3, PTL DEF AllSpec

\* It is the run itself when the run was not started anew with other criteria.
THEOREM ReplayStaysCurrent == ASSUME SameCriteria PROVE AllSpec => []ReplayIsCurrent
<1>1. AllInit => CriteriaInv
  BY CriteriaInit DEF AllInit
<1>2. CriteriaInv /\ [AllNext]_AllVars => CriteriaInv'
  BY SameCriteria, RunSteps, CriteriaStep
<1>3. CriteriaInv => ReplayIsCurrent
  BY CriteriaFollows
<1> QED BY <1>1, <1>2, <1>3, PTL DEF AllSpec

\* Until somebody starts anew, one command at a time drops no attempt, todo or replacement of
\* an execution run, and no sequence of commands moves the verdict on a completed workflow run
\* or lets a violation into a promoted one (seungjeongwon_run.py:993, sejong_workflow_run.py:498).
THEOREM NothingIsDropped == ASSUME OneCaller PROVE AllSpec => HistoryStands
<1> DEFINE Stands == KeepsHistory /\ (part = "flow" => Flow!KeepsVerdict)
<1> DEFINE Inv == HistoryInv /\ FlowPart
<1>1. AllInit => Inv
  BY HistoryInit, PartsInit DEF AllInit
<1>2. Inv /\ [AllNext]_AllVars => Inv'
  BY OneCaller, RunSteps, HistoryStep, FlowingStep
<1>3. Inv /\ [AllNext]_AllVars => [Stands]_AllVars
  <2> SUFFICES ASSUME Inv, [AllNext]_AllVars PROVE Stands
    OBVIOUS
  <2>1. KeepsHistory
    BY OneCaller, RunSteps, HistoryKept
  <2>2. part = "flow" => FlowInv /\ FlowInv' /\ [Flow!Next]_(Flow!vars)
    BY <1>2, PartsStep DEF FlowPart
  <2> QED BY <2>1, <2>2, VerdictKept
<1> HIDE DEF Inv, Stands
<1>4. AllSpec => [][Stands]_AllVars
  BY <1>1, <1>2, <1>3, PTL DEF AllSpec
<1> QED BY <1>4 DEF HistoryStands, Stands

\* For any answers and any host's task: a planning session that is not ready has asked
\* something and written the register that blocks its stage, and one that is ready has its
\* summaries approved and nothing required missing (evaluate_live_session:412-535).
THEOREM GatesStayAsked == AllSpec => []GatesAreAsked
<1>1. LivePart => GatesAreAsked
  BY DEF LivePart, PlanInv, GatesAreAsked
<1> QED BY <1>1, PartsInit, LiveStep, PTL DEF AllSpec

\* However the points fall, the selected route is one that the task, its controls and the host
\* support (hard_gate_failures:171-186, adjusted_scores:88-126, select_route:129-140).
THEOREM RoutesAreSupported == AllSpec => []RouteIsSupported
<1>1. RoutePart => RouteIsSupported
  BY RouteFollows DEF RoutePart, RouteIsSupported
<1> QED BY <1>1, PartsInit, RoutingStep, PTL DEF AllSpec

\* Whatever is set, cleared, appended, required and waived, in any order and for any route and
\* gates: a Uigwe boundary that was required stays pending until Uigwe is entered as current or
\* the gate is waived, nothing is written while it is, and a turn that may end the first time it
\* asks leaves no gate, question or run behind (update_context:643-685,
\* synchronize_uigwe_promotion_gate:254-270, handle_pre_tool_use:821-864, handle_stop:984-1066).
THEOREM HooksAlwaysHold == AllSpec => []HooksHold
<1>1. HooksPart => HooksHold
  BY DEF HooksPart, HooksInv, HooksHold
<1> QED BY <1>1, PartsInit, GuardingStep, PTL DEF AllSpec

\* For any gates, decisions and runs, and whatever commands ran, died or replaced the capsule:
\* a session is told of every gate that is open, or of the first three, and of the first decision
\* in its last words, and it is told nothing only when no capsule was promised and none was
\* rehearsed (upsert_record:109-120, capsule_projection:175-205,
\* load_continuity_capsules:632-657, judge:96-155).
THEOREM ToldStaysTrue == AllSpec => []ToldIsTrue
<1>1. CapsulePart => ToldIsTrue
  BY CapsuleFollows DEF CapsulePart, ToldIsTrue
<1> QED BY <1>1, PartsInit, RememberingStep, PTL DEF AllSpec

OrderPart == part = "gates" => RequiredInv

\* However routes are required, appended, set and waived: as long as a Context requires Uigwe and
\* Seungjeongwon, no protected path is written before both were entered, Uigwe first
\* (add_required_routes:224-238, route_sequence_satisfied, king_sejong_hooks.py:363-373, and
\* handle_pre_tool_use, king_sejong_hooks.py:821-864).
THEOREM ProtectedStaysPlanned == AllSpec => ProtectedIsPlanned
<1> DEFINE Stands == part = "gates" /\ load = "applies" =>
                       \A t \in Gates!ToolCalls :
                         /\ Gates!ToolCall(t) /\ t.write /\ t.protected
                         /\ {Gates!Uigwe, Gates!Seungjeongwon} \subseteq Range(context.required)
                         => PlannedFirst(context.route)
<1>1. AllInit => OrderPart
  BY RequiredInit DEF AllInit, OrderPart
<1>2. OrderPart /\ [AllNext]_AllVars => OrderPart'
  BY PartsStep, RequiredStep DEF OrderPart
<1>3. OrderPart /\ [AllNext]_AllVars => [Stands]_AllVars
  BY ProtectedFollows, Zenon DEF OrderPart
<1> HIDE DEF Stands
<1>4. AllSpec => [][Stands]_AllVars
  BY <1>1, <1>2, <1>3, PTL DEF AllSpec
<1> QED BY <1>4 DEF ProtectedIsPlanned, Stands
================================================================================
