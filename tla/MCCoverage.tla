----------------------------- MODULE MCCoverage -----------------------------
(* Values of the constants of Coverage for TLC.                            *)
EXTENDS Coverage

UpTo3 == 0 .. 3
=============================================================================
