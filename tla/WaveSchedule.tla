------------------------------ MODULE WaveSchedule ------------------------------
(***************************************************************************)
(* What a delegation run promises whoever reads its waves: a wave is       *)
(* declared after the waves it depends on, runs alone, starts only when    *)
(* every wave it depends on has passed, and closes once and for good.      *)
(***************************************************************************)
CONSTANT Waves

VARIABLES stage, after

Init == /\ stage = [w \in Waves |-> "none"]
        /\ after = [w \in Waves |-> {}]

Declare(w, ds) ==
  /\ stage[w] = "none"
  /\ \A d \in ds : stage[d] # "none"
  /\ stage' = [stage EXCEPT ![w] = "pending"]
  /\ after' = [after EXCEPT ![w] = ds]

Open(w) ==
  /\ stage[w] = "pending"
  /\ \A v \in Waves : stage[v] # "active"
  /\ \A d \in after[w] : stage[d] = "passed"
  /\ stage' = [stage EXCEPT ![w] = "active"]
  /\ UNCHANGED after

Close(w) ==
  /\ stage[w] = "active"
  /\ \E s \in {"passed", "failed", "blocked"} : stage' = [stage EXCEPT ![w] = s]
  /\ UNCHANGED after

Next == \E w \in Waves :
          \/ \E ds \in SUBSET Waves : Declare(w, ds)
          \/ Open(w)
          \/ Close(w)

Spec == Init /\ [][Next]_<<stage, after>>
================================================================================
