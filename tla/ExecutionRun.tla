----------------------------- MODULE ExecutionRun -----------------------------
(***************************************************************************)
(* The Seungjeongwon execution run of seungjeongwon_run.py: one JSON file  *)
(* with the todos of a goal, their attempts and the completion of both.    *)
(* Every command loads the file, changes its copy, validates the whole     *)
(* copy (run_failures) and replaces the file atomically.  Nothing locks    *)
(* the file, so loading and replacing are steps of their own and commands  *)
(* of several processes interleave.                                        *)
(*                                                                         *)
(* Attempts have no identifiers here: --attempt-id and the default         *)
(* A<length + 1> only have to be new.  A score is "high" when it reaches   *)
(* the run's thresholds.                                                   *)
(***************************************************************************)
EXTENDS Naturals, Sequences, SequencesExt

CONSTANTS
  Procs,        \* processes that run commands on the file
  Todos,        \* todo identifiers
  Receipts,     \* fan-in receipts that may be attached
  Criteria,     \* success criteria and thresholds a run may be started with
  Halted,       \* what an executor may call a todo that it gives up for now
  Absent,       \* no file, no checkpoint, no copy
  MaxAttempts,  \* bound on the ledger
  MaxNow,       \* bound on the clock, which the file shows in seconds
  MaxStarts     \* bound on the runs started at this path

Status == {"active", "completed"}
Open == {"pending", "in_progress"}
TodoStatus == Open \cup {"completed", "blocked", "invalidated", "replaced"}
Score == {"none", "low", "high"}
Attempt == [todo : Todos, passed : BOOLEAN]

Run == [status : Status, criteria : Criteria, score : Score,
        todo : [Todos -> TodoStatus \cup {"unknown"}],
        todoScore : [Todos -> Score],
        links : [Todos -> SUBSET Todos],
        ledger : Seq(Attempt), evidence : BOOLEAN, blockers : BOOLEAN,
        fanIns : SUBSET Receipts, updated : 0..MaxNow]

ASSUME ConstantsAssumption ==
  /\ MaxAttempts \in Nat /\ MaxNow \in Nat /\ MaxStarts \in Nat
  /\ Absent \notin Run
  /\ Halted \subseteq {"blocked", "invalidated"}

VARIABLES
  run,         \* the file
  copy,        \* the file as each process has loaded it
  checkpoint,  \* a checkpoint of the run, which has the run's fields
  sound,       \* receipts embedded, and passed, in a valid delegation run
  starts,      \* runs started so far
  declared,    \* history: todos accepted since the last start
  failing      \* history: todos whose latest reported attempt failed

vars == <<run, copy, checkpoint, sound, starts, declared, failing>>

-----------------------------------------------------------------------------
(* Validation                                                              *)

Known(r) == {t \in Todos : r.todo[t] # "unknown"}
OpenTodos(r) == {t \in Todos : r.todo[t] \in Open}
\* latest_todo_attempt and attempt_result_passed: t has attempts, and the last one passed.
LatestPassed(r, t) ==
  \E i \in DOMAIN r.ledger :
    /\ r.ledger[i] = [todo |-> t, passed |-> TRUE]
    /\ \A j \in DOMAIN r.ledger : r.ledger[j].todo = t => j <= i

\* The rules for one todo, and the replacement graph without a cycle.
ValidTodo(r, t) ==
  /\ r.todo[t] = "replaced" <=> r.links[t] # {}
  /\ r.todo[t] = "completed" => LatestPassed(r, t) /\ r.todoScore[t] = "high"

ValidLinks(r) ==
  /\ \A t \in Known(r) : r.links[t] \subseteq Known(r) \ {t}
  /\ \A S \in SUBSET Known(r) :
       S # {} => \E t \in S : r.links[t] \cap S = {}

\* replacement_scope_resolved; without cycles the largest such set is the least.
Resolved(r, t) ==
  \E S \in SUBSET Known(r) :
    /\ t \in S
    /\ \A u \in S : \/ r.todo[u] = "completed"
                    \/ r.todo[u] = "replaced" /\ r.links[u] \subseteq S

\* A validator that asks for closed todos only.
ValidCompletionClosed(r) ==
  /\ OpenTodos(r) = {} /\ ~r.blockers
  /\ r.evidence /\ r.score = "high"

\* run_failures of a completed run.
ValidCompletion(r) ==
  /\ OpenTodos(r) = {} /\ ~r.blockers
  /\ \A t \in Known(r) : /\ r.todo[t] \notin {"blocked", "invalidated"}
                         /\ r.todo[t] = "replaced" => Resolved(r, t)
  /\ r.evidence /\ r.score = "high"

\* run_failures finds nothing.
Valid(r) ==
  /\ r.fanIns \subseteq sound
  /\ \A t \in Known(r) : ValidTodo(r, t)
  /\ ValidLinks(r)
  /\ \A i \in DOMAIN r.ledger : r.ledger[i].todo \in Known(r)
  /\ r.status = "completed" => ValidCompletion(r)

-----------------------------------------------------------------------------
(* Commands.  An operator gives the changed copy; a command that refuses   *)
(* before it changes anything is one whose guard fails.                    *)

Fresh(criteria, todos, second) ==
  [status |-> "active", criteria |-> criteria, score |-> "none",
   todo |-> [t \in Todos |-> IF t \in todos THEN "pending" ELSE "unknown"],
   todoScore |-> [t \in Todos |-> "none"], links |-> [t \in Todos |-> {}],
   ledger |-> <<>>, evidence |-> FALSE, blockers |-> FALSE, fanIns |-> {},
   updated |-> second]

Init ==
  /\ run = Absent
  /\ copy = [p \in Procs |-> Absent]
  /\ checkpoint = Absent
  /\ sound = Receipts
  /\ starts = 0
  /\ declared = {}
  /\ failing = {}

\* now_utc: the clock shows no second before the one in the file, and may have
\* stood still since.
Seconds == (IF run = Absent THEN 0 ELSE run.updated)..MaxNow

\* start: a new file, or with --force a new run in place of the old one.
Start(p) ==
  /\ copy[p] = Absent /\ starts < MaxStarts
  /\ \E c \in Criteria, todos \in SUBSET Todos, second \in Seconds :
       /\ run' = Fresh(c, todos, second)
       /\ declared' = todos
  /\ starts' = starts + 1
  /\ failing' = {}
  /\ UNCHANGED <<copy, checkpoint, sound>>

Load(p) ==
  /\ run # Absent /\ copy[p] = Absent
  /\ copy' = [copy EXCEPT ![p] = run]
  /\ UNCHANGED <<run, checkpoint, sound, starts, declared, failing>>

\* The end of every command: validate the changed copy and write it, or
\* leave the file as it is.
Finish(p, r, todos, fails) ==
  /\ copy' = [copy EXCEPT ![p] = Absent]
  /\ IF Valid(r)
     THEN /\ \E second \in Seconds : run' = [r EXCEPT !.updated = second]
          /\ declared' = declared \cup todos /\ failing' = fails
     ELSE UNCHANGED <<run, declared, failing>>
  /\ UNCHANGED <<checkpoint, sound, starts>>

\* clear_completion_authority for the run and, when it contradicts t, for t.
Reopened(r) == [r EXCEPT !.status = "active", !.score = "none"]
ReopenedTodo(r, t) ==
  [Reopened(r) EXCEPT !.todo[t] = "in_progress", !.todoScore[t] = "none"]

\* A failed attempt that reopens its todo but not the completed run.
AttemptedTodoOnly(r, t, passed) ==
  LET kept == [r EXCEPT !.ledger = Append(@, [todo |-> t, passed |-> passed])] IN
  IF ~passed /\ r.todo[t] = "completed"
  THEN [kept EXCEPT !.todo[t] = "in_progress", !.todoScore[t] = "none"]
  ELSE [kept EXCEPT !.todo[t] = IF @ = "pending" THEN "in_progress" ELSE @]

Attempted(r, t, passed) ==
  LET kept == [r EXCEPT !.ledger = Append(@, [todo |-> t, passed |-> passed])] IN
  IF ~passed /\ (r.todo[t] = "completed" \/ r.status = "completed")
  THEN ReopenedTodo(kept, t)
  ELSE [kept EXCEPT !.todo[t] = IF @ = "pending" THEN "in_progress" ELSE @]

RecordAttempt(p) ==
  /\ copy[p] # Absent
  /\ Len(copy[p].ledger) < MaxAttempts
  /\ \E t \in Known(copy[p]), passed \in BOOLEAN :
       /\ copy[p].todo[t] # "replaced"
       /\ Finish(p, Attempted(copy[p], t, passed), {},
                 IF passed THEN failing \ {t} ELSE failing \cup {t})

AddTodo(p) ==
  /\ copy[p] # Absent
  /\ \E t \in Todos \ Known(copy[p]) :
       Finish(p, [Reopened(copy[p]) EXCEPT !.todo[t] = "pending"], {t}, failing)

\* A replacement that drops the original todo.
ReplaceTodoDropping(p) ==
  /\ copy[p] # Absent
  /\ \E t \in Known(copy[p]), new \in SUBSET (Todos \ Known(copy[p])) :
       /\ copy[p].todo[t] # "replaced" /\ new # {}
       /\ LET r == Reopened(copy[p]) IN
          Finish(p, [r EXCEPT
                      !.todo = [u \in Todos |-> IF u = t THEN "unknown"
                                                ELSE IF u \in new THEN "pending"
                                                ELSE r.todo[u]],
                      !.todoScore[t] = "none"], new, failing)

\* replace_todo: new todos take over the scope of t, which stays on record.
ReplaceTodo(p) ==
  /\ copy[p] # Absent
  /\ \E t \in Known(copy[p]), new \in SUBSET (Todos \ Known(copy[p])) :
       /\ copy[p].todo[t] # "replaced" /\ new # {}
       /\ LET r == Reopened(copy[p]) IN
          Finish(p, [r EXCEPT
                      !.todo = [u \in Todos |-> IF u = t THEN "replaced"
                                                ELSE IF u \in new THEN "pending"
                                                ELSE r.todo[u]],
                      !.todoScore[t] = "none",
                      !.links[t] = new], new, failing)

CompleteTodo(p) ==
  /\ copy[p] # Absent
  /\ \E t \in Known(copy[p]), s \in {"low", "high"} :
       /\ LatestPassed(copy[p], t)
       /\ Finish(p, [copy[p] EXCEPT !.todo[t] = "completed",
                                    !.todoScore[t] = s], {}, failing)

Complete(p) ==
  /\ copy[p] # Absent
  /\ OpenTodos(copy[p]) = {}
  /\ \E s \in {"low", "high"} :
       Finish(p, [copy[p] EXCEPT !.status = "completed", !.score = s,
                                 !.evidence = TRUE], {}, failing)

AddFanIn(p) ==
  /\ copy[p] # Absent
  /\ \E f \in sound \ copy[p].fanIns :
       Finish(p, [copy[p] EXCEPT !.fanIns = @ \cup {f}], {}, failing)

\* checkpoint validates the run and writes what it has loaded.
Checkpoint(p) ==
  /\ copy[p] # Absent /\ Valid(copy[p])
  /\ checkpoint' = copy[p]
  /\ copy' = [copy EXCEPT ![p] = Absent]
  /\ UNCHANGED <<run, sound, starts, declared, failing>>

\* A command that refuses, only reads (check, summary), or dies.
GiveUp(p) ==
  /\ copy[p] # Absent
  /\ copy' = [copy EXCEPT ![p] = Absent]
  /\ UNCHANGED <<run, checkpoint, sound, starts, declared, failing>>

-----------------------------------------------------------------------------
(* Around the commands                                                     *)

\* No command sets these: the executor edits the file while it is working.
EditFile ==
  /\ run # Absent /\ run.status = "active"
  /\ \/ \E t \in OpenTodos(run), s \in Halted :
          run' = [run EXCEPT !.todo[t] = s]
     \/ run' = [run EXCEPT !.blockers = ~@]
  /\ UNCHANGED <<copy, checkpoint, sound, starts, declared, failing>>

\* A delegation run's ledger becomes invalid, or is repaired.
ChangeLedgers ==
  /\ sound' \in {{}, Receipts} \ {sound}
  /\ UNCHANGED <<run, copy, checkpoint, starts, declared, failing>>

Command(p) ==
  \/ Start(p) \/ Load(p) \/ RecordAttempt(p) \/ AddTodo(p) \/ ReplaceTodo(p)
  \/ CompleteTodo(p) \/ Complete(p) \/ AddFanIn(p) \/ Checkpoint(p) \/ GiveUp(p)

Next == (\E p \in Procs : Command(p)) \/ EditFile \/ ChangeLedgers

Spec == Init /\ [][Next]_vars

-----------------------------------------------------------------------------
(* Replay                                                                  *)

\* replay_stale_failures without the comparison of the todos.
AcceptsByTime(c) ==
  /\ Valid(run)
  /\ c.updated = run.updated
  /\ c.evidence = run.evidence /\ c.fanIns = run.fanIns

\* replay_stale_failures: the fields that are compared with the run's.
Accepts(c) ==
  /\ Valid(run)
  /\ c.updated = run.updated
  /\ OpenTodos(c) = OpenTodos(run)
  /\ c.todo = run.todo /\ c.links = run.links
  /\ c.ledger = run.ledger /\ c.evidence = run.evidence
  /\ c.fanIns = run.fanIns /\ c.score = run.score /\ c.blockers = run.blockers

-----------------------------------------------------------------------------
(* Properties                                                              *)

TypeOK ==
  /\ run \in Run \cup {Absent}
  /\ copy \in [Procs -> Run \cup {Absent}]
  /\ checkpoint \in Run \cup {Absent}
  /\ sound \subseteq Receipts
  /\ starts \in 0..MaxStarts
  /\ declared \subseteq Todos
  /\ failing \subseteq declared

\* "A score cannot override a failed or unknown latest verification result",
\* and replaced work counts only through its replacements: a completed run
\* still has every todo it was ever given, each one completed or replaced, and
\* none whose latest reported attempt failed is completed.
CompletionEarned ==
  run # Absent /\ run.status = "completed" =>
    /\ declared = Known(run)
    /\ \A t \in declared : run.todo[t] \in {"completed", "replaced"}
    /\ \A t \in failing : run.todo[t] = "replaced"

\* "If new verification contradicts a completed todo, reopen it, invalidate
\* stale completion scores, and keep the new attempt in the ledger": as long
\* as the attached ledgers are valid, a failed attempt is accepted for every
\* todo that is not replaced, whatever has happened to the run.
FailureIsAccepted ==
  run # Absent /\ run.fanIns \subseteq sound =>
    \A t \in Known(run) : run.todo[t] # "replaced" =>
      LET r == Attempted(run, t, FALSE) IN
      Valid(r) /\ r.status = "active" /\ r.todo[t] # "completed"

\* The run file, its checkpoint and the loaded copies are runs, and a failing
\* attempt is accepted for every open or completed todo (seungjeongwon_run.py:1009).
LedgerInv == TypeOK /\ FailureIsAccepted

\* No command of any process drops an attempt, a todo or a replacement link
\* that another one has reported, except by starting the run anew.
KeepsHistory ==
  run # Absent /\ starts' = starts =>
    /\ IsPrefix(run.ledger, run'.ledger)
    /\ Known(run) \subseteq Known(run')
    /\ \A t \in Todos : run.links[t] \in {{}, run'.links[t]}

\* "Replay is rejected when the checkpoint no longer matches the active run":
\* although timestamps are whole seconds, an accepted checkpoint agrees with
\* the run on everything.
ReplayIsCurrent ==
  run # Absent /\ checkpoint # Absent /\ Accepts(checkpoint) =>
    checkpoint = run

=============================================================================
