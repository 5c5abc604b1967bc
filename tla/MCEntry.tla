------------------------------- MODULE MCEntry -------------------------------
(***************************************************************************)
(* Instances of EntrySequence for TLC.  One tick is the unit of time; the  *)
(* limits keep the order of the code: cap (90 s) < patience (600 s) <      *)
(* cooldown (3600 s).                                                      *)
(***************************************************************************)
EXTENDS EntryProps

AllShortViews == Views
AllLongViews  == {"none", "hollow", "live"}
LiveOnly      == {"live"}
=============================================================================
