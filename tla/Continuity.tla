------------------------------- MODULE Continuity -------------------------------
(***************************************************************************)
(* The continuity capsule of a run, docs/sejong/scripts/                   *)
(* continuity_capsule.py: commands that load the file, change it and       *)
(* write it in place, without a lock, so that one may write a copy older   *)
(* than the file; what the compaction hooks of king_sejong_hooks.py make   *)
(* of it; and the replay gate, continuity_replay_gate.py, that rehearses a *)
(* compaction.                                                             *)
(***************************************************************************)
EXTENDS Naturals, Sequences, SequencesExt

CONSTANTS
  Procs,       \* who runs capsule commands
  Contexts,    \* what the active Context may say: [run, class], class Nil when it says none
  Refs,        \* how it names the capsule: [named, resolves], does the name look like a
               \*   capsule's, and does the hook find the file or only the judge, who also
               \*   looks beside the Context
  Starts,      \* the arguments of `start`: [run, class, gates]
  Updates,     \* of `update`: [add, clear, status]
  Decisions,   \* of `record-decision`: [id, text]
  MaxCommands, \* bound on the commands of a behaviour
  Nil, Torn

ConstantsAssumption ==
  /\ Nil \notin {<<>>, Torn} /\ MaxCommands \in Nat
  /\ \A r \in Refs : r.named \in BOOLEAN /\ r.resolves \in BOOLEAN
  /\ \A a \in Starts : a.gates \in Seq(STRING)
  /\ \A a \in Updates : a.add \in Seq(STRING)
  /\ \A d \in Decisions : d.id # Nil

VARIABLES
  ctx, ref,
  capsule,     \* the file: Nil, Torn or [run, class, gates, decisions, status]
  command,     \* what each process runs: Nil, or [to, by, stage, missed], the capsule it will
               \*   write and, a ghost, what others have recorded since it loaded the file
  left,        \* commands that may still be started
  allowed,     \* did PreCompact allow the compaction, nothing having changed since?
  told,        \* what the session that starts after it is told: Nil, <<>> or <<projection>>
  judged,      \* did the replay gate pass, nothing having changed since?
  doubtful,               \* ghost: what a command that had missed some of it has written over
  open, first, latest     \* ghosts: the gates recorded and not cleared, the first decision
                          \* recorded and each decision's last text, as long as not doubtful

vars == <<ctx, ref, capsule, command, left, allowed, told, judged, open, first, latest, doubtful>>

Statuses == {"unverified", "in_progress", "passed", "failed", "blocked"}
ProjectedGates == 3

UniqueAppend(s, t) == FoldLeft(LAMBDA r, x : IF x \in Range(r) THEN r ELSE Append(r, x), s, t)

Without(s, T) == FoldLeft(LAMBDA r, x : IF x \in T THEN r ELSE Append(r, x), <<>>, s)

\* Mutant: the record replaced goes to the end.
UpsertAtEnd(items, d) == Append(SelectSeq(items, LAMBDA x : x.id # d.id), d)

\* upsert_record: in place, or at the end when it is new.
Upsert(items, d) ==
  IF \E i \in DOMAIN items : items[i].id = d.id
  THEN [i \in DOMAIN items |-> IF items[i].id = d.id THEN d ELSE items[i]]
  ELSE Append(items, d)

\* capsule_failures: of what the commands can write, only the status can be wrong.
Valid(c) == c \notin {Nil, Torn} /\ c.status \in Statuses

\* A projection: at most three gates, and the first decision.
Projection(c) ==
  [run |-> c.run, gates |-> SubSeq(c.gates, 1, IF Len(c.gates) < ProjectedGates THEN Len(c.gates) ELSE ProjectedGates),
   decision |-> IF c.decisions = <<>> THEN Nil ELSE Head(c.decisions).text]

\* Mutant: a capsule is the Context's when it is valid.
MatchesAny(c) == Valid(c)

\* capsule_context_failures, of a readable capsule.
Matches(c) == Valid(c) /\ c.run = ctx.run /\ ctx.class \in {Nil, c.class}

\* load_continuity_capsules with the file found or not: what cannot be read counts only
\* under a capsule's name, what can be read and does not match always counts.
Look(found) ==
  IF ~found \/ capsule \in {Nil, Torn} THEN IF ref.named THEN "broken" ELSE "none"
  ELSE IF Matches(capsule) THEN "valid" ELSE "invalid"

\* materialize_context_refs: the judge finds what carries a capsule's name beside the Context.
JudgeFinds == ref.resolves \/ (ref.named /\ capsule # Nil)

--------------------------------------------------------------------------------
Init ==
  /\ ctx \in Contexts /\ ref \in Refs
  /\ capsule = Nil /\ command = [p \in Procs |-> Nil] /\ left = MaxCommands
  /\ allowed = FALSE /\ told = Nil /\ judged = FALSE
  /\ open = {} /\ first = Nil /\ latest = <<>> /\ doubtful = {}

Disturbs == allowed' = FALSE /\ told' = Nil /\ judged' = FALSE
Loads(p, to, by) ==
  /\ command[p] = Nil /\ Valid(to)
  /\ left > 0 /\ left' = left - 1
  /\ command' = [command EXCEPT ![p] = [to |-> to, by |-> by, stage |-> "loaded", missed |-> {}]]
  /\ UNCHANGED <<ctx, ref, capsule, allowed, told, judged, open, first, latest, doubtful>>

Start(p, a, force) ==
  /\ capsule = Nil \/ force
  /\ Loads(p, [run |-> a.run, class |-> a.class, gates |-> a.gates, decisions |-> <<>>, status |-> "unverified"],
           [op |-> "start", add |-> a.gates, force |-> force])
Update(p, a) ==        \* what is both added and cleared is cleared
  /\ capsule \notin {Nil, Torn}
  /\ Loads(p, [capsule EXCEPT !.gates = Without(UniqueAppend(@, a.add), a.clear),
                              !.status = IF a.status = Nil THEN @ ELSE a.status],
           [op |-> "update", add |-> a.add, clear |-> a.clear])
RecordDecision(p, d) ==
  /\ capsule \notin {Nil, Torn}
  /\ Loads(p, [capsule EXCEPT !.decisions = Upsert(@, d)], [op |-> "decide", id |-> d.id, text |-> d.text])
RecordRejection(p) ==  \* an option that nothing here looks at, and the rest as it was loaded
  /\ capsule \notin {Nil, Torn}
  /\ Loads(p, capsule, [op |-> "reject"])

\* write_json truncates the file ...
Truncate(p) ==
  /\ command[p] # Nil /\ command[p].stage = "loaded"
  /\ capsule' = Torn /\ Disturbs
  /\ command' = [command EXCEPT ![p].stage = "truncated"]
  /\ UNCHANGED <<ctx, ref, left, open, first, latest, doubtful>>

Recorded(by) ==
  CASE by.op = "start" -> {"gates", "decisions"} [] by.op = "update" -> {"gates"}
    [] by.op = "decide" -> {"decisions"} [] OTHER -> {}

\* Text of another writer is under what c writes, and T was recorded after c loaded.
Overtaken(c, T) ==
  IF c = Nil THEN Nil
  ELSE [c EXCEPT !.missed = @ \cup T, !.stage = IF @ = "truncated" THEN "mixed" ELSE @]

\* ... and writes it, leaving what another wrote meanwhile and is longer, and the command
\* reports.
Write(p) ==
  LET c == command[p]  b == c.by  anew == b.op = "start" /\ b.force IN
  /\ c # Nil /\ c.stage # "loaded"
  /\ capsule' \in {c.to} \cup IF c.stage = "mixed" THEN {Torn} ELSE {}
  /\ command' = [q \in Procs |-> IF q = p THEN Nil ELSE Overtaken(command[q], Recorded(b))]
  /\ Disturbs
  /\ doubtful' = IF anew THEN {} ELSE doubtful \cup c.missed
  /\ open' = CASE "gates" \in doubtful' -> {}
               [] b.op = "start" -> Range(b.add)
               [] b.op = "update" -> (open \cup Range(b.add)) \ b.clear
               [] OTHER -> open
  /\ first' = CASE anew \/ "decisions" \in doubtful' -> Nil
                [] b.op = "decide" /\ first = Nil -> b.id
                [] OTHER -> first
  /\ latest' = CASE anew \/ "decisions" \in doubtful' -> <<>>
                 [] b.op = "decide" -> [i \in DOMAIN latest \cup {b.id} |-> IF i = b.id THEN b.text ELSE latest[i]]
                 [] OTHER -> latest
  /\ UNCHANGED <<ctx, ref, left>>
Die(p) ==
  /\ command[p] # Nil
  /\ command' = [q \in Procs |-> IF q = p THEN Nil
                                 ELSE IF command[p].stage = "loaded" THEN command[q]
                                 ELSE Overtaken(command[q], {})]
  /\ UNCHANGED <<ctx, ref, capsule, left, allowed, told, judged, open, first, latest, doubtful>>

ContextChanges(c) ==
  /\ c # ctx /\ ctx' = c /\ Disturbs
  /\ UNCHANGED <<ref, capsule, command, left, open, first, latest, doubtful>>

PreCompact ==
  /\ Look(ref.resolves) \in {"valid", "none"}
  /\ allowed' = TRUE
  /\ UNCHANGED <<ctx, ref, capsule, command, left, told, judged, open, first, latest, doubtful>>
\* SessionStart with source "compact".
SessionStart ==
  /\ allowed
  /\ told' = IF Look(ref.resolves) = "valid" THEN <<Projection(capsule)>> ELSE <<>>
  /\ UNCHANGED <<ctx, ref, capsule, command, left, allowed, judged, open, first, latest, doubtful>>
\* judge: both hooks, and the projection has to be there.
Judge ==
  /\ judged' = (Look(JudgeFinds) = "valid")
  /\ UNCHANGED <<ctx, ref, capsule, command, left, allowed, told, open, first, latest, doubtful>>

Next ==
  \/ PreCompact \/ SessionStart \/ Judge
  \/ \E p \in Procs :
       \/ Truncate(p) \/ Write(p) \/ Die(p) \/ RecordRejection(p)
       \/ \E a \in Starts, force \in BOOLEAN : Start(p, a, force)
       \/ \E a \in Updates : Update(p, a)
       \/ \E d \in Decisions : RecordDecision(p, d)
  \/ \E c \in Contexts : ContextChanges(c)

Spec == Init /\ [][Next]_vars

--------------------------------------------------------------------------------
\* What a session is told after a compaction is true of the run it works on, whatever
\* commands ran side by side, died or replaced the capsule before: every recorded gate is
\* still shown (the first three of them), and the decision shown is the run's first one in its
\* latest words (upsert_record:109-120, capsule_projection:175-205), unless a command that
\* loaded the file before a gate, or a decision, was recorded has written its copy after it,
\* which nothing in update and record-decision prevents (232-312; README section 7).  Under a
\* capsule's name nothing is left out silently, and a compaction that the judge rehearsed on
\* the file the hooks resolve is allowed and told (load_continuity_capsules:632-657,
\* judge:96-155).
ToldIsTrue ==
  /\ told \notin {Nil, <<>>} =>
       LET t == Head(told) IN
       /\ t.run = ctx.run
       /\ "gates" \notin doubtful =>
            /\ Range(t.gates) \subseteq open
            /\ Len(t.gates) < ProjectedGates => open \subseteq Range(t.gates)
       /\ "decisions" \notin doubtful => t.decision = IF first = Nil THEN Nil ELSE latest[first]
  /\ told = <<>> => ~ref.named /\ ~(ref.resolves /\ judged)
================================================================================
