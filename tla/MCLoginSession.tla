---------------------------- MODULE MCLoginSession ----------------------------
EXTENDS LoginSession, TLC

CONSTANTS alice, bob
=============================================================================
