-------------------------- MODULE ExclusiveExecution --------------------------
(***************************************************************************)
(* What the execution lock promises: at any time at most one execution may  *)
(* act on the exchange; a right to act, once lost, never comes back.  What  *)
(* only follows up an execution, its protective orders, needs no right, but *)
(* never comes between the actions of another execution that holds it.     *)
(* How many coroutines there are, what they do and who takes the right away *)
(* is left open.                                                           *)
(***************************************************************************)
EXTENDS Naturals, Sequences

VARIABLES
  holder,   \* the execution that may act, 0 for none
  newest,   \* the newest execution that ever could
  acted     \* what was done on the exchange so far and for which execution

Init == holder = 0 /\ newest = 0 /\ acted = <<>>

Grant == /\ holder = 0
         /\ newest' = newest + 1 /\ holder' = newest'
         /\ UNCHANGED acted

(* An action may give up the right in the same step.                       *)
Act == /\ holder # 0
       /\ acted' = Append(acted, [exec |-> holder, follows |-> FALSE])
       /\ holder' \in {holder, 0}
       /\ UNCHANGED newest

Follow == /\ \E exec \in 1 .. newest :
               /\ holder \in {0, exec}
               /\ acted' = Append(acted, [exec |-> exec, follows |-> TRUE])
          /\ UNCHANGED <<holder, newest>>

Revoke == holder # 0 /\ holder' = 0 /\ UNCHANGED <<newest, acted>>

Next == Grant \/ Act \/ Follow \/ Revoke

Spec == Init /\ [][Next]_<<holder, newest, acted>>

=============================================================================
