------------------------------ MODULE MCTriggers ------------------------------
(***************************************************************************)
(* Instances of Triggers for TLC.  The guards keep the order of the code:  *)
(* 600 s < 3600 s < 86400 s.                                               *)
(***************************************************************************)
EXTENDS TriggerProps

Gaps == [compression |-> 1, floor |-> 2, listings |-> 2, decay |-> 2]
=============================================================================
