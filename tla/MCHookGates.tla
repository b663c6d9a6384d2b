------------------------------ MODULE MCHookGates ------------------------------
(* Hooks around a worker that ends with a claim and with a valid brief. *)
EXTENDS HookGates

MCStarts == {[surface |-> "jiphyeonjeon", routes |-> <<"uigwe", "jiphyeonjeon">>, required |-> <<>>,
              goal |-> FALSE, gates |-> <<>>]}
MCUpdates == {[surface |-> x, set |-> <<>>, append |-> <<>>, required |-> <<>>, gates |-> <<>>,
               receipt |-> FALSE, clear |-> {}] : x \in {"uigwe", "seungjeongwon"}}
MCRegisters == {[is |-> "none", live |-> FALSE, ready |-> FALSE, open |-> FALSE, pending |-> FALSE]}
MCMessages == {[claims |-> TRUE, brief |-> "valid"]}
================================================================================
