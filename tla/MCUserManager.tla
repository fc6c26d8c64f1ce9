---------------------------- MODULE MCUserManager -----------------------------
(* The user list of the greeter, for TLC. *)
EXTENDS UserManager

==============================================================================
