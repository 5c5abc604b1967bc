----------------------------- MODULE HedgedEntry -----------------------------
(***************************************************************************)
(* What the entry machinery of scripts/v3_exec.py promises about one       *)
(* position, whatever happens to its process: the short leg fills once and *)
(* first, the long leg only follows a short fill, a position is declared   *)
(* open only with both legs filled, and it is given up only while flat.    *)
(* How long any of it takes, and whether it ends, is not promised here.    *)
(***************************************************************************)
EXTENDS Integers

VARIABLES status, short, long

hvars == <<status, short, long>>

HInit == status = "none" /\ short = 0 /\ long = 0

Begin ==
  /\ status \in {"none", "cancelled"}
  /\ status' = "seq_open" /\ short' = 0 /\ long' = 0

FillShort ==
  /\ status = "seq_open" /\ short = 0 /\ long = 0
  /\ short' > 0
  /\ UNCHANGED <<status, long>>

\* More than once: a restart may forget that the long leg was taken.
FillLong ==
  /\ status = "seq_open" /\ short > 0
  /\ long' > long
  /\ UNCHANGED <<status, short>>

Settle ==
  /\ status = "seq_open" /\ short > 0 /\ long > 0
  /\ status' = "open"
  /\ UNCHANGED <<short, long>>

GiveUp ==
  /\ status = "seq_open" /\ short = 0 /\ long = 0
  /\ status' = "cancelled"
  /\ UNCHANGED <<short, long>>

HNext == Begin \/ FillShort \/ FillLong \/ Settle \/ GiveUp
HSpec == HInit /\ [][HNext]_hvars
=============================================================================
