---------------------------- MODULE MCServices ----------------------------
(***************************************************************************)
(* What runs beside the engine, for TLC: the sessions, the tripwire chain,  *)
(* the listing job and the floor watch.  They share no state, so a          *)
(* behaviour runs the one `part` names, and the states add up where they    *)
(* would multiply.  The floor watch's periods keep the order of the code:   *)
(* 1 h < 6 h < 24 h.                                                        *)
(***************************************************************************)
EXTENDS Sessions, TripwireChain, EventJobs, FloorProps

CONSTANTS aster, binance
VARIABLE part
mcVars == <<part, sessionVars, chainVars, eventVars, vars>>

HeldLegs == {aster, binance}
SharedLeg == {aster}

MCInit ==
  /\ part \in {"sessions", "chain", "listings", "floor"}
  /\ SessionInit /\ ChainInit /\ EventInit /\ Init
  /\ part # "sessions" => program = "cli"
  /\ part # "listings" => listed = {}

\* All but the part that runs stand still.
Still(p, v) == part = p \/ UNCHANGED v

MCNext ==
  /\ UNCHANGED part
  /\ Still("sessions", sessionVars) /\ Still("chain", chainVars)
  /\ Still("listings", eventVars) /\ Still("floor", vars)
  /\ \/ part = "sessions" /\ SessionNext
     \/ part = "chain" /\ ChainNext
     \/ part = "listings" /\ EventNext
     \/ part = "floor" /\ Next

MCSpec == /\ MCInit /\ [][MCNext]_mcVars
          /\ part = "listings" => EventFair
=============================================================================
