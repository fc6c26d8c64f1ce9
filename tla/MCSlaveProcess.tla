---------------------------- MODULE MCSlaveProcess ----------------------------
(* The simple slave as a process, for TLC. *)
EXTENDS SlaveProcess

==============================================================================
