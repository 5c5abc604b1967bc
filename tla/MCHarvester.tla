----------------------------- MODULE MCHarvester ------------------------------
(***************************************************************************)
(* Instance of Harvester for TLC: two opportunities, one of them dated;    *)
(* the buying leg on a ccxt venue, the selling one on Hyperliquid.         *)
(***************************************************************************)
EXTENDS Harvester

CONSTANTS basis, dated

TwoOpps  == {basis, dated}
OneDated == {dated}
BuyLeg   == {"buy"}
SellLeg  == {"sell"}
=============================================================================
