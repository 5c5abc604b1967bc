------------------------------ MODULE BookWalk ------------------------------
(***************************************************************************)
(* Walking an order book for a notional (depth_sampler.py), which the        *)
(* tripwires, the paper ledger, the desk and the execution adapter all use.  *)
(* A side is a sequence of [p, q], best first.  Quantities are multiplied by *)
(* the sum of the touch prices, twice the mid, so that notional / mid is     *)
(* whole: a walk for n is for 2 * n of these units.                          *)
(***************************************************************************)
EXTENDS Integers, Sequences, FiniteSets, FiniteSetsExt, SequencesExt

Touch(book) == book.bids[1].p + book.asks[1].p

\* book_metrics: a book without one side or with crossed sides has no metrics.
Usable(book) == /\ book.bids # <<>> /\ book.asks # <<>>
                /\ book.bids[1].p <= book.asks[1].p

\* Takes level by level until the notional is filled or the book is empty; a
\* book that is too thin is walked to its end.
walk(levels, touch, n) ==
  LET end == FoldLeft(LAMBDA acc, l :
               LET take == Min({acc.remain, l.q * touch})
               IN  [remain |-> acc.remain - take, cost |-> acc.cost + take * l.p, qty |-> acc.qty + take],
               [remain |-> 2 * n, cost |-> 0, qty |-> 0], levels)
  IN  [cost |-> end.cost, qty |-> end.qty]

Empty(w) == w.qty = 0
Filled(w, n) == w.qty = 2 * n

Abs(x) == IF x < 0 THEN -x ELSE x

\* The slip of a walk is SlipNum / SlipDen: |vwap - mid| / mid.
SlipNum(w, touch) == Abs(2 * w.cost - touch * w.qty)
SlipDen(w, touch) == touch * w.qty
SlipWithin(w, touch, bps) == SlipNum(w, touch) * 10000 <= bps * SlipDen(w, touch)

\* The side an order walks.
Levels(book, side) == IF side = "sell" THEN book.bids ELSE book.asks

\* The adapter's taker: the walk of its side, deferred without a book or with
\* an empty side (v3_exec_adapter.py:156).
place_taker(book, side, n) ==
  IF ~(book.bids # <<>> /\ book.asks # <<>>) THEN [ok |-> FALSE]
  ELSE LET w == walk(Levels(book, side), Touch(book), n)
       IN  IF Empty(w) THEN [ok |-> FALSE] ELSE [ok |-> TRUE, w |-> w]

\* The exit simulation of the drift job: buy the short back, sell the long,
\* both walked at size; it gives up only when a side is empty.
sim_exit(short, long, n) ==
  LET s == walk(short.asks, Touch(short), n)
      l == walk(long.bids, Touch(long), n)
  IN  IF Empty(s) \/ Empty(l) THEN <<>> ELSE <<s, l>>
=============================================================================
