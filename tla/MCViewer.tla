------------------------------ MODULE MCViewer ------------------------------
(* Values of the constants of Viewer for TLC: two files that open and one   *)
(* that does not; tracks of one, two and three frames.                      *)
EXTENDS Viewer

CONSTANTS short, long, bad

Lengths == [f \in AnyFile |-> [t \in Tracks |->
    IF t = 0 THEN 2 ELSE IF f = short THEN 1 ELSE 3]]
=============================================================================
