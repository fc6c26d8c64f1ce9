--------------------------- MODULE MCGuestDisplays ---------------------------
(* Model-checking values for GuestDisplays: the displays are model values.   *)
EXTENDS GuestDisplays

CONSTANTS s1, s2, t1, t2
=============================================================================
