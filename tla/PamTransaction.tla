--------------------------- MODULE PamTransaction ----------------------------
(***************************************************************************)
(* What the login machinery promises about PAM: the steps of a transaction  *)
(* are run one at a time and in order, for the account it was begun with;   *)
(* only the modules of a step that is being run name another; nobody gets   *)
(* credentials; and a transaction can be given up at any time.              *)
(***************************************************************************)
EXTENDS Integers

CONSTANTS User, NoUser,
  RenamingSteps   \* the steps whose modules replace the account, or clear it

VARIABLES
  stage,   \* 0 .. 6: nothing, set up, authenticated, ..., session started
  step,    \* the step being run, or 0
  account  \* the account, from the setup on

pamVars == <<stage, step, account>>

Init == stage = 0 /\ step = 0 /\ account = NoUser

Run ==
  /\ step = 0 /\ stage <= 5
  /\ step' = stage + 1
  /\ UNCHANGED <<stage, account>>

\* The setup settles the account; credentials, step 4, need one.
Advance ==
  /\ step = stage + 1
  /\ stage' = step /\ step' = 0
  /\ step = 4 => account # NoUser
  /\ IF step = 1 THEN account' \in User \cup {NoUser} ELSE UNCHANGED account

\* A module of the step that is run names an account.
Rename ==
  /\ step \in 2 .. 5
  /\ account = NoUser \/ step \in RenamingSteps
  /\ account' \in User \cup {NoUser}
  /\ UNCHANGED <<stage, step>>

GiveUp == stage' = 0 /\ step' = 0 /\ account' = NoUser

Next == Run \/ Advance \/ Rename \/ GiveUp

Spec == Init /\ [][Next]_pamVars
==============================================================================
