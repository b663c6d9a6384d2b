------------------------------- MODULE WorkEvents ------------------------------
(***************************************************************************)
(* The work-event ledger and the lesson candidate derived from it:         *)
(* work_lifecycle.py, work_lifecycle_model.py.  record-event appends one   *)
(* line under a flock on the ledger; derive-candidate reads it without.    *)
(***************************************************************************)
EXTENDS Naturals, Sequences, SequencesExt, FiniteSets

CONSTANTS Recorders, EventIds, Runs, Patterns, MaxEvents, Nil

VARIABLES
  ledger,      \* the lines: sequence of [id, run, pattern]
  tail,        \* how the file ends: "line", "no newline", or "torn" (not JSON)
  writing,     \* the event each recorder holds the lock for, or Nil
  candidate    \* lesson-candidate.json: Nil, or pattern, events, runs

vars == <<ledger, tail, writing, candidate>>

Init ==
  /\ ledger = <<>> /\ tail = "line"
  /\ writing = [r \in Recorders |-> Nil] /\ candidate = Nil

Unlocked == \A r \in Recorders : writing[r] = Nil
Readable == tail # "torn"
Fresh(id) == \A i \in DOMAIN ledger : ledger[i].id # id

\* record-event with the lock: every line must be valid, the id new.
RecordEvent(r, id, run, pattern) ==
  /\ Unlocked /\ Readable /\ Fresh(id) /\ Len(ledger) < MaxEvents
  /\ writing' = [writing EXCEPT ![r] = [id |-> id, run |-> run, pattern |-> pattern]]
  /\ UNCHANGED <<ledger, tail, candidate>>

\* The first bytes go out; an earlier line that lacks its newline is continued.
WriteStarts(r) ==
  /\ writing[r] # Nil /\ tail # "torn"
  /\ ledger' = IF tail = "line" THEN ledger ELSE Front(ledger)
  /\ tail' = "torn"
  /\ writing' = [writing EXCEPT ![r] = IF tail = "line" THEN @ ELSE Nil]
  /\ UNCHANGED candidate

WriteEnds(r) ==
  /\ writing[r] # Nil /\ tail = "torn"
  /\ ledger' = Append(ledger, writing[r]) /\ tail' = "line"
  /\ writing' = [writing EXCEPT ![r] = Nil]
  /\ UNCHANGED candidate

\* The process dies, or the disk is full: the lock goes with the file handle.
RecorderDies(r) ==
  /\ writing[r] # Nil
  /\ \/ UNCHANGED <<ledger, tail>>
     \/ tail = "torn" /\ ledger' = Append(ledger, writing[r]) /\ tail' = "no newline"
  /\ writing' = [writing EXCEPT ![r] = Nil]
  /\ UNCHANGED candidate

Matching(pattern) == {i \in DOMAIN ledger : ledger[i].pattern = pattern}
RunsOf(pattern) == {ledger[i].run : i \in Matching(pattern)}
\* Mutant: occurrences are counted, not runs.
IndependentEvents(pattern) == Cardinality(Matching(pattern)) >= 2
Independent(pattern) == Cardinality(RunsOf(pattern)) >= 2

\* derive-candidate replaces the candidate file.
DeriveCandidate(pattern) ==
  /\ Readable /\ Independent(pattern)
  /\ candidate' = [pattern |-> pattern, events |-> {ledger[i].id : i \in Matching(pattern)},
                   runs |-> RunsOf(pattern)]
  /\ UNCHANGED <<ledger, tail, writing>>

Next ==
  \/ \E r \in Recorders :
       \/ WriteStarts(r) \/ WriteEnds(r) \/ RecorderDies(r)
       \/ \E id \in EventIds, run \in Runs, p \in Patterns : RecordEvent(r, id, run, p)
  \/ \E p \in Patterns : DeriveCandidate(p)

Spec == Init /\ [][Next]_vars

\* "A single event cannot become a lesson candidate" (docs/sejong/WORK_LIFECYCLE.md:29):
\* the candidate on disk rests on events of two runs, each recorded once and each still
\* in the ledger as long as the ledger can be read, whatever recorders died meanwhile
\* (record_event:75-100, derive_candidate:140-161).
CandidateIsJustified ==
  /\ \A i, j \in DOMAIN ledger : i # j => ledger[i].id # ledger[j].id
  /\ candidate # Nil =>
       /\ Cardinality(candidate.runs) >= 2
       /\ Readable => \A run \in candidate.runs : \E i \in Matching(candidate.pattern) :
            ledger[i].run = run /\ ledger[i].id \in candidate.events
================================================================================
