------------------------------- MODULE MCXdmcp -------------------------------
EXTENDS Xdmcp, TLC

CONSTANTS A, B, host1

\* A makes a chooser's display and another; B is only forwarded to.
TwoAndOne == (A :> 2) @@ (B :> 1)
Two == [m \in Manager |-> 2]
=============================================================================
