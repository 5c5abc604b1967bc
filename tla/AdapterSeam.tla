---------------------------- MODULE AdapterSeam ----------------------------
(***************************************************************************)
(* The adapter under the engine's orders (v3_exec_adapter.py) in live mode:   *)
(* the shadow walks as paper does, checks the order against the venue's rules *)
(* and appends an intent row to a log, while the engine (v3_exec.py) writes   *)
(* what it filled to the ledger.  parity_report.py joins the two.  Row and    *)
(* intent are written at different times, an order resting between, and the   *)
(* engine may die, or the log refuse the row and so end the tick, at each.    *)
(***************************************************************************)
EXTENDS BookWalk

CONSTANTS SeamBooks, \* books an order may meet
          SeamSizes, \* its notionals
          RuleVenues,\* venues whose rules are known
          MaxOps,    \* bound: rows of the ledger, and of the log
          MaxCuts    \* bound: operations cut short by a death or a full disk

VARIABLES venue,     \* whose orders these are: the join never mixes venues
          logged,    \* exec_intents.jsonl
          fills,     \* paper_fills
          resting,   \* the maker order that rests, or NoOrder
          doing,     \* the operation in flight
          tally      \* operations cut, conversions, quantities clamped

seamVars == <<venue, logged, fills, resting, doing, tally>>
NoOrder  == [q |-> 0]
Nothing  == [op |-> "none"]

SeamInit == /\ venue \in RuleVenues \cup {"other"}
            /\ logged = <<>> /\ fills = <<>>
            /\ resting = NoOrder /\ doing = Nothing
            /\ tally = [cut |-> 0, converted |-> 0, clamped |-> 0]

Traded(op, side, q, px) == [op |-> op, side |-> side, q |-> q, px |-> px]

\* VENUE_RULES: the step and the least quantity in hundredths, the least notional.
Rules == [step |-> 25, min_qty |-> 50, min_notional |-> 200]

\* _check_rules: what the venue would say of the order, but for its fee table.  It
\* is recorded, never acted on; an unknown venue has no rules, and a maker order
\* comes without the book its price would be checked against.  A quantity is
\* num / den hundredths.
_check_rules(num, den, notional, sane) ==
  (IF venue \in RuleVenues
   THEN (IF num % (Rules.step * den) # 0 THEN {"qty_step"} ELSE {})
        \cup (IF num < Rules.min_qty * den THEN {"min_qty"} ELSE {})
        \cup (IF notional < Rules.min_notional THEN {"min_notional"} ELSE {})
   ELSE {"unknown-venue"})
  \cup (IF sane THEN {} ELSE {"px_sanity"})

Intent(row, checks) == logged' = Append(logged, row @@ [checks |-> checks])
Vacant == doing = Nothing /\ Len(fills) < MaxOps /\ Len(logged) < MaxOps

\* LiveAdapter.place_taker, then take_taker or the taker tranche of an unwind, which
\* clamps the quantity to what is left of the leg after the adapter has logged it.
PlaceTaker ==
  /\ Vacant
  /\ \E book \in SeamBooks, side \in {"sell", "buy"}, n \in SeamSizes, unwinding \in BOOLEAN :
       LET r == place_taker(book, side, n)
       IN  IF ~r.ok THEN Intent(Traded("taker_nofill", side, 0, <<>>), {}) /\ UNCHANGED doing
           ELSE LET px == <<r.w.cost, r.w.qty>>
                IN  /\ Intent(Traded("taker", side, r.w.qty, px),
                              _check_rules(100 * r.w.qty * r.w.qty, 2 * r.w.cost, r.w.qty \div 2,
                                           SlipWithin(r.w, Touch(book), 200)))
                    /\ \E q \in {r.w.qty} \cup (IF unwinding THEN {r.w.qty \div 2} ELSE {}) :
                         doing' = Traded("taker", side, q, px) @@ [clamped |-> q # r.w.qty]
  /\ UNCHANGED <<venue, fills, resting, tally>>

Record(f) == fills' = Append(fills, Traded(f.op, f.side, f.q, f.px))

\* write_fill of a taker, after its funding interval was awaited.
TakerFill ==
  /\ doing.op = "taker"
  /\ Record(doing)
  /\ tally' = [tally EXCEPT !.clamped = @ + IF doing.clamped THEN 1 ELSE 0]
  /\ doing' = Nothing
  /\ UNCHANGED <<venue, logged, resting>>

\* post_maker: the order row is committed, then place_maker logs it.
PostMaker ==
  /\ Vacant /\ resting = NoOrder
  /\ \E side \in {"sell", "buy"}, book \in SeamBooks, n \in SeamSizes :
       /\ book.bids # <<>> /\ book.asks # <<>>
       /\ resting' = [q |-> n, side |-> side,
                      px |-> IF side = "sell" THEN book.asks[1].p ELSE book.bids[1].p]
  /\ doing' = [op |-> "post"]
  /\ UNCHANGED <<venue, logged, fills, tally>>

\* A repost cancels the order first; so do the patience of an entry and the end of
\* an unwind.
Withdraw ==
  /\ Vacant /\ resting # NoOrder
  /\ resting' = NoOrder
  /\ UNCHANGED <<venue, logged, fills, doing, tally>>

MakerChecks(o) == _check_rules(100 * o.q, o.px, o.q, TRUE)

LogPost ==
  /\ doing.op = "post"
  /\ Intent(Traded("maker_post", resting.side, resting.q, resting.px), MakerChecks(resting))
  /\ doing' = Nothing
  /\ UNCHANGED <<venue, fills, resting, tally>>

\* order_fill: the order is marked filled, its fill written, then on_maker_fill logs it.
Crossed ==
  /\ Vacant /\ resting # NoOrder
  /\ doing' = [op |-> "crossed", o |-> resting] /\ resting' = NoOrder
  /\ UNCHANGED <<venue, logged, fills, tally>>

MakerRow(o) == Traded("maker_fill", o.side, o.q, o.px)

MakerFill ==
  /\ doing.op = "crossed"
  /\ Record(MakerRow(doing.o)) /\ doing' = [doing EXCEPT !.op = "confirm"]
  /\ UNCHANGED <<venue, logged, resting, tally>>

\* Mutant: a fill of a resting order is not reported to the adapter.
MutLogMakerFill ==
  /\ doing.op = "confirm"
  /\ doing' = Nothing
  /\ UNCHANGED <<venue, logged, fills, resting, tally>>

LogMakerFill ==
  /\ doing.op = "confirm"
  /\ Intent(MakerRow(doing.o), MakerChecks(doing.o)) /\ doing' = Nothing
  /\ UNCHANGED <<venue, fills, resting, tally>>

\* The patience of the order is over: it is withdrawn, and maker_to_taker walks the
\* book itself, or gives up without one; the adapter is not asked.
Expires ==
  /\ Vacant /\ resting # NoOrder
  /\ resting' = NoOrder
  /\ \E book \in SeamBooks, half \in BOOLEAN :
       LET r == place_taker(book, resting.side, resting.q)
       IN  doing' = IF ~r.ok THEN Nothing
                    ELSE Traded("convert", resting.side, IF half THEN r.w.qty \div 2 ELSE r.w.qty,
                                <<r.w.cost, r.w.qty>>)
  /\ UNCHANGED <<venue, logged, fills, tally>>

ConversionFill ==
  /\ doing.op = "convert"
  /\ Record([doing EXCEPT !.op = "taker"])
  /\ tally' = [tally EXCEPT !.converted = @ + 1] /\ doing' = Nothing
  /\ UNCHANGED <<venue, logged, resting>>

\* The engine dies, or the log cannot be written and the tick ends with it.
Cut ==
  /\ doing # Nothing /\ tally.cut < MaxCuts
  /\ tally' = [tally EXCEPT !.cut = @ + 1] /\ doing' = Nothing
  /\ UNCHANGED <<venue, logged, fills, resting>>

SeamNext == \/ PlaceTaker \/ TakerFill \/ PostMaker \/ LogPost \/ Withdraw \/ Crossed \/ MakerFill
            \/ LogMakerFill \/ Expires \/ ConversionFill \/ Cut
SeamSpec == SeamInit /\ [][SeamNext]_seamVars

(***************************************************************************)
(* parity_report.join_parity: every fill takes the first unused intent of its *)
(* operation, side, quantity and price.                                       *)
(***************************************************************************)
CountOf(t, rows) == Cardinality({i \in DOMAIN rows : \A k \in DOMAIN t : rows[i][k] = t[k]})
Joined(rows)     == {Traded(rows[i].op, rows[i].side, rows[i].q, rows[i].px) :
                       i \in {j \in DOMAIN rows : rows[j].op \in {"taker", "maker_fill"}}}
MoreIn(A, B)     == MapThenSumSet(LAMBDA t : Max({0, CountOf(t, A) - CountOf(t, B)}), Joined(A))
unmatched_fills  == MoreIn(fills, logged)
leftover_intents == MoreIn(logged, fills)
-----------------------------------------------------------------------------
\* What the parity report counts against the shadow is what really bypassed it:
\* between operations the ledger misses in the log only what was converted from a
\* resting order, clamped after the walk, or cut between row and intent, and the
\* log holds beyond the ledger only what was clamped or cut, however a behaviour
\* mixes makers that rest, are crossed or expire with takers that fill in part.
ParityIsExplained ==
  doing = Nothing =>
    /\ unmatched_fills <= tally.converted + tally.clamped + tally.cut
    /\ leftover_intents <= tally.clamped + tally.cut
=============================================================================
