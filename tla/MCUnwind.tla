------------------------------ MODULE MCUnwind -------------------------------
(***************************************************************************)
(* Instances of UnwindLadder for TLC.  Three lots per leg with two of them *)
(* standing for 98%, so a leg can be complete and still have a residue.    *)
(***************************************************************************)
EXTENDS UnwindProps

ThreeLots == [l \in Legs |-> 3]
TwoLots   == [l \in Legs |-> 2]
AllBooks  == Books
LiveOnly  == {"live"}
OneMaker  == {"short"}
=============================================================================
