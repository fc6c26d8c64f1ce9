----------------------------- MODULE LoginNames ------------------------------
(***************************************************************************)
(* The names a login is about.                                              *)
(***************************************************************************)
EXTENDS Integers, Sequences

CONSTANTS
  User,      \* the accounts
  NoUser,    \* no name: NULL, or PAM_USER not set
  OtherItem, \* MDM_USER_CHOOSER_USER_OTHER, the item "Other..."
  AutoItem,  \* MDM_USER_CHOOSER_USER_AUTO, the item "Automatic Login"
  TimedUser  \* the account of the timed or automatic login

ASSUME NamesAssumption ==
  /\ {NoUser, OtherItem, AutoItem} \cap User = {}
  /\ NoUser # OtherItem /\ NoUser # AutoItem /\ OtherItem # AutoItem
  /\ TimedUser \in User
==============================================================================
