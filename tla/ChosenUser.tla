------------------------------ MODULE ChosenUser ------------------------------
(***************************************************************************)
(* What the user list promises the login window: somebody is chosen, the   *)
(* window is told of it, and the choice can be taken back at any moment.   *)
(* Who stays chosen is told of in the end.                                 *)
(***************************************************************************)
CONSTANTS Item, NoItem

VARIABLES choice, told

Init == choice = NoItem /\ told = NoItem

\* The window may hear of the choice later, or in the same step.
Choose(i) == choice' = i /\ told' \in {NoItem, i}

Tell ==
  /\ choice # NoItem
  /\ told' = choice
  /\ UNCHANGED choice

Withdraw == choice' = NoItem /\ told' = NoItem

Next == (\E i \in Item : Choose(i)) \/ Tell \/ Withdraw

Spec == Init /\ [][Next]_<<choice, told>> /\ WF_<<choice, told>>(Tell)
==============================================================================
