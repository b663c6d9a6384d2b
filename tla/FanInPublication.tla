---------------------------- MODULE FanInPublication ----------------------------
(***************************************************************************)
(* The part of join_execution_wave (docs/sejong/scripts/delegation_run.py, *)
(* lines 281-300) that runs after the ledger's lock is released: the fan-in *)
(* receipt of a wave is written to a temporary file whose name depends     *)
(* only on the output, and renamed over it.  A rename moves the file a     *)
(* writer may still have open.                                             *)
(***************************************************************************)
CONSTANTS
  Procs,    \* processes that run fan-in
  Waves,    \* waves, each with an output path of its own
  Serial,   \* a subset of Waves: those that the lead joins with one fan-in at a time
  Mortal    \* waves whose fan-in may die, or fail to write, half-way

Contents == {"missing", "empty", "receipt", "foreign"}

VARIABLES
  joined,    \* waves whose ledger entry embeds a fan-in receipt
  output,    \* content of each output path
  temp,      \* content of each temporary path
  pc,        \* what each process does next
  at,        \* the wave each process joins
  open,      \* where the file a process has open is now
  reported   \* waves some fan-in has reported as published

vars == <<joined, output, temp, pc, at, open, reported>>

Init ==
  /\ joined = {}
  /\ output \in [Waves -> {"missing", "foreign"}]
  /\ temp = [v \in Waves |-> "missing"]
  /\ pc = [p \in Procs |-> "idle"]
  /\ at \in [Procs -> Waves]
  /\ open = [p \in Procs |-> "gone"]
  /\ reported = {}

Goto(p, b) == pc' = [pc EXCEPT ![p] = b]

\* Under the ledger's lock: close the wave, or find the receipt it embeds.
Join(p, v) ==
  /\ pc[p] = "idle"
  /\ v \in Serial => \A q \in Procs : pc[q] = "idle" \/ at[q] # v
  /\ joined' = joined \cup {v}
  /\ at' = [at EXCEPT ![p] = v]
  /\ Goto(p, "look")
  /\ UNCHANGED <<output, temp, open, reported>>

\* Mutant: a file that exists is taken for the receipt.
LookTrusting(p) ==
  /\ pc[p] = "look"
  /\ IF output[at[p]] = "missing"
     THEN Goto(p, "open") /\ UNCHANGED reported
     ELSE Goto(p, "idle") /\ reported' = reported \cup {at[p]}
  /\ UNCHANGED <<joined, output, temp, at, open>>

\* An existing output must be the receipt; anything else is an error.
Look(p) ==
  /\ pc[p] = "look"
  /\ Goto(p, IF output[at[p]] = "missing" THEN "open" ELSE "idle")
  /\ reported' = IF output[at[p]] = "receipt" THEN reported \cup {at[p]} ELSE reported
  /\ UNCHANGED <<joined, output, temp, at, open>>

\* write_text truncates whatever file has the temporary name.
Open(p) ==
  /\ pc[p] = "open"
  /\ temp' = [temp EXCEPT ![at[p]] = "empty"]
  /\ open' = [open EXCEPT ![p] = "temp"]
  /\ Goto(p, "write")
  /\ UNCHANGED <<joined, output, at, reported>>

\* Mutant: the text is dropped when the temporary name is gone.
WriteNamed(p) ==
  /\ pc[p] = "write"
  /\ temp' = IF open[p] = "temp" THEN [temp EXCEPT ![at[p]] = "receipt"] ELSE temp
  /\ Goto(p, "rename")
  /\ UNCHANGED <<joined, output, at, open, reported>>

Write(p) ==
  /\ pc[p] = "write"
  /\ temp' = IF open[p] = "temp" THEN [temp EXCEPT ![at[p]] = "receipt"] ELSE temp
  /\ output' = IF open[p] = "output" THEN [output EXCEPT ![at[p]] = "receipt"] ELSE output
  /\ Goto(p, "rename")
  /\ UNCHANGED <<joined, at, open, reported>>

\* The files other processes have open under either name move with the rename.
Moved(v) ==
  [q \in Procs |-> IF at[q] # v THEN open[q]
                   ELSE CASE open[q] = "temp" -> "output"
                          [] OTHER -> "gone"]

Rename(p) ==
  /\ pc[p] = "rename" /\ temp[at[p]] # "missing"
  /\ output' = [output EXCEPT ![at[p]] = temp[at[p]]]
  /\ temp' = [temp EXCEPT ![at[p]] = "missing"]
  /\ open' = [Moved(at[p]) EXCEPT ![p] = "gone"]
  /\ reported' = reported \cup {at[p]}
  /\ Goto(p, "idle")
  /\ UNCHANGED <<joined, at>>

\* FileNotFoundError: another process has renamed the temporary file.
RenameFails(p) ==
  /\ pc[p] = "rename" /\ temp[at[p]] = "missing"
  /\ open' = [open EXCEPT ![p] = "gone"]
  /\ Goto(p, "idle")
  /\ UNCHANGED <<joined, output, temp, at, reported>>

Die(p) ==
  /\ at[p] \in Mortal /\ pc[p] # "idle"
  /\ open' = [open EXCEPT ![p] = "gone"]
  /\ Goto(p, "idle")
  /\ UNCHANGED <<joined, output, temp, at, reported>>

Next == \E p \in Procs :
  \/ \E v \in Waves : Join(p, v)
  \/ Look(p) \/ Open(p) \/ Write(p) \/ Rename(p) \/ RenameFails(p) \/ Die(p)

Spec == Init /\ [][Next]_vars

--------------------------------------------------------------------------------
\* Every path holds nothing, a whole receipt, an empty file or a foreign one, and a
\* temporary file is never foreign (delegation_run.py:297-300).
TypeOK ==
  /\ joined \subseteq Waves /\ reported \subseteq joined
  /\ output \in [Waves -> Contents]
  /\ temp \in [Waves -> Contents \ {"foreign"}]
  /\ pc \in [Procs -> {"idle", "look", "open", "write", "rename"}]
  /\ at \in [Procs -> Waves]
  /\ open \in [Procs -> {"temp", "output", "gone"}]

\* "All mutations use a per-run lock and atomic state replacement"
\* (DELEGATION_RUNTIME.md): the output of a wave that is joined by one process at a
\* time is absent or whole, whoever dies, never an empty file that every later retry
\* refuses.
OutputIsWhole == \A v \in Waves \cap Serial : output[v] # "empty"

\* The paths hold what this program writes, and the output of a serial wave is never
\* left empty (delegation_run.py:285-300).
PublicationInv == TypeOK /\ OutputIsWhole

\* A serial fan-in that reports success has its receipt at the output, then and
\* later, and what was there before is not replaced (test_delegation_run.py:319).
ReportedIsPublished ==
  \A v \in reported \cap Serial : output[v] = "receipt"

\* Once every fan-in of a wave has returned and none has died, the joined wave has
\* its receipt at the output, however many of them truncated, wrote and renamed the
\* same temporary file, unless a foreign file was there.
SettledIsPublished ==
  \A v \in joined \ Mortal :
     (\A p \in Procs : at[p] = v => pc[p] = "idle") => output[v] \in {"receipt", "foreign"}

\* A published output is whole or absent while one process at a time joins the wave, and
\* when all who joined have returned the receipt is there, also after a race
\* (delegation_run.py:281-300).
PublicationIsSound == PublicationInv /\ ReportedIsPublished /\ SettledIsPublished
================================================================================
