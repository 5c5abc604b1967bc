------------------------------- MODULE MCData -------------------------------
(***************************************************************************)
(* The entry gate, the books in their sqlite files, the data layer and the  *)
(* read-only programs, for TLC: they share no state, so a behaviour runs    *)
(* the one `part` names, and the states add up where they would multiply.   *)
(***************************************************************************)
EXTENDS HistoryPager, HistoryCache, FundingSpread, FundingStore, Tripwires, Connectors,
        AdapterSeam, RealSend, Desk, Discover, EntryGate, StateBackup, TrickleLog

VARIABLE part
dataVars == <<pagerVars, cacheVars, spreadVars, storeVars, probe, quote, seamVars, sendVars, deskVars,
              discoverVars>>
mcVars == <<part, dataVars, gateVars, bookVars, trickleVars>>

Parts == {"pager", "cache", "spread", "store", "trip", "quote", "seam", "send", "desk",
          "discover", "pairs", "limits", "book", "trickle"}

MCInit ==
  /\ part \in Parts
  /\ PagerInit /\ (part # "pager" => kind = "hl" /\ ~ignored /\ posted = {})
  /\ CacheInit /\ (part # "cache" => scan = "v1" /\ cand = [c \in Coins |-> {}])
  /\ SpreadInit /\ backward \in {{}, {"long"}} /\ (part # "spread" => backward = {})
  /\ StoreInit /\ (part # "store" => settled = {0})
  /\ SeamInit /\ (part # "seam" => venue = "other")
  /\ DeskInit /\ (part # "desk" => kept = {} /\ pass1.ask = 100 /\ pass1.bid = 100)
  /\ DiscoverInit /\ (part # "discover" => feed = [c \in {} |-> FALSE])
  /\ GateInit /\ (part # "limits" => paper = {})
  /\ TripInit /\ QuoteInit /\ SendInit /\ BookInit /\ TrickleInit

\* All but the part that runs stand still.
Still(p, vars) == part = p \/ UNCHANGED vars

\* The desk opens once, in the first hour, and a behaviour ends with the insertion that excuses what
\* follows.  Two windows over an empty P0 book and unclamped sizes, or one window, a
\* pin, both books and their limits.
GateBound ==
  /\ ~crossed
  /\ dpc' = "write" => pin = NoPin /\ clock' = 0
  /\ part = "pairs" => /\ UNCHANGED <<paper, killed, frozen>> /\ combo'.coin = "inj"
                       /\ \A r \in rows' : r.granted \in {0, r.p.size}
  /\ part = "limits" => /\ dpc' # "window"
                        /\ (killed' \/ frozen' # {} => clock' = 0 /\ paper' = {})

\* A dump and a rollback of the paper book, only one of them with two positions; in
\* the first hour, with one position, as many as the book allows.
BookBound == \/ /\ taken.dumps <= 1 /\ taken.wipes <= 1
                /\ Len(p0.positions) <= 1 \/ taken.dumps + taken.wipes <= 1
             \/ Len(p0.positions) <= 1 /\ now <= 1

MCNext ==
  /\ UNCHANGED part
  /\ Still("pager", pagerVars) /\ Still("cache", cacheVars) /\ Still("spread", spreadVars)
  /\ Still("store", storeVars) /\ Still("trip", probe) /\ Still("quote", quote)
  /\ Still("seam", seamVars)
  /\ Still("send", sendVars) /\ Still("desk", deskVars) /\ Still("discover", discoverVars)
  /\ (part \in {"pairs", "limits"} \/ UNCHANGED gateVars)
  /\ Still("book", bookVars) /\ Still("trickle", trickleVars)
  /\ \/ part = "pager" /\ PagerNext
     \/ part = "cache" /\ CacheNext
     \/ part = "spread" /\ SpreadNext
     \/ part = "store" /\ StoreNext
     \/ part = "trip" /\ TripNext
     \/ part = "quote" /\ Quote
     \/ part = "seam" /\ SeamNext
     \/ part = "send" /\ SendNext
     \/ part = "desk" /\ DeskNext
     \/ part = "discover" /\ DiscoverNext
     \/ part \in {"pairs", "limits"} /\ GateNext /\ GateBound
     \/ part = "book" /\ BookNext /\ BookBound'
     \/ part = "trickle" /\ TrickleNext

\* The drift jobs differ in name alone.
JobSymmetry == Permutations(Jobs)

MCSpec == MCInit /\ [][MCNext]_mcVars
-----------------------------------------------------------------------------
\* Values the configuration cannot write.
SpreadRates == {-1, 2}
QuoteRates == {-8, 0, 4, 8}
RatesShown == {-1, 1, 2}
SixtyDays == {-2, 0, 1, 3}
PerHour == -2 .. 3
Fees == [v \in Perps \cup Spots |-> IF v = "aster" THEN 9 ELSE 2]

L(p, q) == [p |-> p, q |-> q]
Sides == [bids : {<<L(400, 1)>>, <<L(400, 1), L(398, 2)>>, <<L(400, 3), L(396, 1)>>},
          asks : {<<L(402, 1)>>, <<L(402, 1), L(403, 2)>>, <<L(402, 2), L(430, 3)>>}]
\* A bid too small for a sale, and a level that ends inside the clamp.
Orders == {[bids |-> <<>>, asks |-> <<L(402, 1), L(403, 2)>>],
           [bids |-> <<L(400, 3), L(360, 2)>>, asks |-> <<L(402, 1)>>]}

\* Two pairs of one coin, one of a macro coin, and pins that repeat a static
\* pair or break the pin policy.
Cand(c, s, l, n, q) == [coin |-> c, short |-> s, long |-> l, size |-> n, seq |-> q]
ByMaker == Cand("inj", "bingx", "okx", 4, "sm_lt")
ByTaker == Cand("inj", "aster", "okx", 4, "tt")
TwoPairs  == <<ByMaker, ByTaker>>
DeskPairs == {Cand("inj", "bingx", "okx", 3, "tt"), Cand("btc", "aster", "okx", 6, "tt")}
P0Starts  == {{}, {[p |-> ByMaker, opened |-> 0, status |-> "open", later |-> FALSE]}}
Missing   == -1
Depths    == {Missing, 6}
Tiers     == [v \in {"bingx", "okx", "aster"} |-> IF v = "okx" THEN 12 ELSE 9]
=============================================================================
