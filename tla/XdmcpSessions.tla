---------------------------- MODULE XdmcpSessions ----------------------------
(***************************************************************************)
(* What the XDMCP factories promise to X terminals, without packets, slaves *)
(* and choosers: each manager gives out session numbers, a terminal has at  *)
(* most one that counts, and only that one is served.                      *)
(***************************************************************************)
EXTENDS Integers

CONSTANTS Manager, Terminal, Session

VARIABLES
  given,     \* per manager, the last session number given
  current,   \* per manager and terminal, the session that counts, or 0
  served     \* per manager, the sessions that were begun

vars == <<given, current, served>>

Init ==
  /\ given = [m \in Manager |-> 0]
  /\ current = [m \in Manager |-> [t \in Terminal |-> 0]]
  /\ served = [m \in Manager |-> {}]

\* A new number for t; the one it had does not count any more.
Offer(m, t) ==
  /\ given[m] + 1 \in Session
  /\ given' = [given EXCEPT ![m] = @ + 1]
  /\ current' = [current EXCEPT ![m][t] = given[m] + 1]
  /\ UNCHANGED served

\* A number that nobody gets; the one t had does not count any more.
Waste(m, t) ==
  /\ given[m] + 1 \in Session
  /\ given' = [given EXCEPT ![m] = @ + 1]
  /\ current' = [current EXCEPT ![m][t] = 0]
  /\ UNCHANGED served

Serve(m, t) ==
  /\ current[m][t] # 0
  /\ served' = [served EXCEPT ![m] = @ \cup {current[m][t]}]
  /\ UNCHANGED <<given, current>>

\* A session that was begun is over.
Finish(m, t) ==
  /\ current[m][t] \in served[m]
  /\ current' = [current EXCEPT ![m][t] = 0]
  /\ UNCHANGED <<given, served>>

Next ==
  \E m \in Manager, t \in Terminal :
    Offer(m, t) \/ Waste(m, t) \/ Serve(m, t) \/ Finish(m, t)

Spec == Init /\ [][Next]_vars
=============================================================================
