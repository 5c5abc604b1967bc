------------------------------ MODULE Tripwires ------------------------------
(***************************************************************************)
(* What the checks of the tripwire chain measure (v3_tripwires.py): one      *)
(* probe at a time, on whatever the venues quote and the database holds.     *)
(* TripwireChain takes their outcomes from here.                             *)
(***************************************************************************)
EXTENDS BookWalk

CONSTANTS Prices,    \* marks a venue may quote
          SideBooks, \* bid and ask sides a venue may quote
          Sizes,     \* notionals to walk
          Medians,   \* medians, in hourly units for the spread, bps for depth
          Hourlies,  \* rates per hour of a leg
          GateSlip, GateSwing, MarkDev,  \* 25 bps, 2 times, 5 percent
          Cap        \* exposure cap of a venue

\* The levels of a side that is not empty.
LevelSeqs == Seq([p : Nat, q : Nat]) \ {<<>>}

ASSUME TripBounds == /\ {GateSlip, GateSwing, MarkDev, Cap} \subseteq Nat
                     /\ Prices \subseteq Nat \ {0} /\ Sizes \subseteq Nat \ {0}
                     /\ SideBooks \subseteq [bids : LevelSeqs, asks : LevelSeqs]

VARIABLE probe       \* one check: its inputs and whether it passed

NoRow == -1000       \* no row in the database, or nothing recent
TripInit == probe = [tw |-> "none", ok |-> FALSE]

\* Both marks within the deviation, measured against the long leg's; a venue
\* without a book raises.
Identity ==
  \E s, l \in Prices :
    probe' = [tw |-> "identity", s |-> s, l |-> l, ok |-> Abs(s - l) * 100 <= MarkDev * l]

\* The share of positive days, from the native model or else the Sharpe one, and
\* each leg's live interval against the database's: a leg is not compared when
\* either is unknown.
Shares == {NoRow, 90, 95, 99}
Persistence ==
  \E native, ffill \in Shares : \E live, med \in [{"s", "l"} -> {0, 4, 8}] :
    LET pos == IF native # NoRow THEN native ELSE ffill
        Match(v) == med[v] # 0 /\ live[v] # 0 => live[v] = med[v]
    IN  probe' = [tw |-> "persistence", pos |-> pos, live |-> live, med |-> med,
                  ok |-> pos # NoRow /\ (pos # NoRow => pos >= 95) /\ Match("s") /\ Match("l")]

\* The live spread against 40% of the 60-day median, which must be positive.
SpreadHolds(cur, med) == med > 0 /\ 10 * cur >= 4 * med

LiveSpread ==
  \E s, l \in Hourlies : \E med \in Medians \cup {NoRow} :
    probe' = [tw |-> "live_spread", cur |-> s - l, med |-> med,
              ok |-> med # NoRow /\ (med # NoRow => SpreadHolds(s - l, med))]

\* The four walks of the entry and of its unwinding.
Walks(s, l, n) ==
  [se |-> walk(s.bids, Touch(s), n), su |-> walk(s.asks, Touch(s), n),
   le |-> walk(l.asks, Touch(l), n), lu |-> walk(l.bids, Touch(l), n)]

\* A leg's worse walk under GateSwing times its recent median, when it has one
\* (the code rounds the ratio to two digits first).
Steady(w1, w2, touch, med) ==
  med # NoRow /\ med # 0 =>
    \A w \in {w1, w2} : SlipNum(w, touch) * 10000 < GateSwing * med * SlipDen(w, touch)

\* Mutant: the unwinding side is not walked.
MutDepthHolds(s, l, n, meds) ==
  LET w == Walks(s, l, n)
  IN  /\ \A x \in {w.se, w.le} : ~Empty(x)
      /\ SlipWithin(w.se, Touch(s), GateSlip)
      /\ SlipWithin(w.le, Touch(l), GateSlip)
      /\ Steady(w.se, w.se, Touch(s), meds.s) /\ Steady(w.le, w.le, Touch(l), meds.l)

DepthHolds(s, l, n, meds) ==
  LET w == Walks(s, l, n)
  IN  /\ \A k \in DOMAIN w : ~Empty(w[k])
      /\ \A x \in {w.se, w.su} : SlipWithin(x, Touch(s), GateSlip)
      /\ \A x \in {w.le, w.lu} : SlipWithin(x, Touch(l), GateSlip)
      /\ Steady(w.se, w.su, Touch(s), meds.s) /\ Steady(w.le, w.lu, Touch(l), meds.l)

Depth ==
  \E s, l \in SideBooks : \E n \in Sizes : \E meds \in [{"s", "l"} -> {NoRow, 0, 30}] :
    probe' = [tw |-> "depth", s |-> s, l |-> l, n |-> n, ok |-> DepthHolds(s, l, n, meds)]

\* Open positions of the paper book on a venue, and this one, under its cap.
Counterparty ==
  \E now \in [{"s", "l"} -> {0, Cap \div 2, Cap}] : \E n \in Sizes :
    probe' = [tw |-> "counterparty", now |-> now, n |-> n,
              ok |-> \A v \in {"s", "l"} : now[v] + n <= Cap]

\* The drift job's exit, walked like the unwinding: too thin only when empty,
\* else its cost against what the gate assumed; over 1.5 times is a kill flag
\* (costs in whole bps, fees in the two constants).
DriftExit ==
  \E s, l \in SideBooks : \E n \in Sizes : \E entry \in {0, 30} : \E assumed \in {20, 50} :
    LET x == sim_exit(s, l, n)
        bps(w, touch) == (SlipNum(w, touch) * 10000) \div SlipDen(w, touch)
    IN  probe' = [tw |-> "drift",
                  ok |-> x # <<>> /\ (x # <<>> =>
                           10 * (entry + bps(x[1], Touch(s)) + bps(x[2], Touch(l))) <= 15 * assumed)]

TripNext == probe.tw = "none" /\ (Identity \/ Persistence \/ LiveSpread \/ Depth \/ Counterparty \/ DriftExit)
TripSpec == TripInit /\ [][TripNext]_probe
-----------------------------------------------------------------------------
\* What the levels before the i-th hold, what they leave to take from it, and what
\* is so taken and paid in all.
Before(levels, i, touch) == MapThenSumSet(LAMBDA j : levels[j].q * touch, 1 .. i - 1)
Take(levels, i, touch, n) == Min({levels[i].q * touch, Max({0, 2 * n - Before(levels, i, touch)})})
TakenAt(levels, touch, n) == MapThenSumSet(LAMBDA i : Take(levels, i, touch, n), DOMAIN levels)
PaidAt(levels, touch, n) == MapThenSumSet(LAMBDA i : Take(levels, i, touch, n) * levels[i].p, DOMAIN levels)

\* The walk (depth_sampler.py:176) takes from a level exactly what the better
\* ones could not give, up to what it holds, and stops when filled.
TakesTheBest(s, l, n) ==
  \A book \in {s, l} : \A levels \in {book.bids, book.asks} :
    LET w == walk(levels, Touch(book), n)
    IN  w.qty = TakenAt(levels, Touch(book), n) /\ w.cost = PaidAt(levels, Touch(book), n)

\* A filled entry can be undone at once for at most the gate's slip in and out on
\* each leg.
UndoneWithinGate(s, l, n) ==
  LET w == Walks(s, l, n)
  IN  (\A k \in DOMAIN w : Filled(w[k], n)) =>
        /\ (w.su.cost - w.se.cost) * 10000 <= GateSlip * SlipDen(w.se, Touch(s))
        /\ (w.le.cost - w.lu.cost) * 10000 <= GateSlip * SlipDen(w.le, Touch(l))

\* The depth check measures the book (depth_sampler.py:176) and bounds what an
\* entry that passed it can lose at once (v3_tripwires.py:209).
DepthIsMeasured ==
  probe.tw = "depth" =>
    /\ TakesTheBest(probe.s, probe.l, probe.n)
    /\ probe.ok => UndoneWithinGate(probe.s, probe.l, probe.n)
=============================================================================
