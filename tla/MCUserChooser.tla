---------------------------- MODULE MCUserChooser -----------------------------
(* The user list and the login window, for TLC. *)
EXTENDS UserChooser
CONSTANTS alice, bob
==============================================================================
