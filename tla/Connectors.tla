----------------------------- MODULE Connectors -----------------------------
(***************************************************************************)
(* Live funding through one interface (v3_connectors.py): the venue's own     *)
(* rate with an interval inferred from its last settlements, Sharpe where the *)
(* venue fails, and the cross-check of one against the other.  Times are in   *)
(* hours, an unknown interval is 0.                                          *)
(***************************************************************************)
EXTENDS Integers, Sequences, FiniteSets, FiniteSetsExt, SequencesExt

CONSTANTS FundVenues, \* venues asked, by their name in the code
          FundRates,  \* rates of one settlement
          TrueIvs     \* settlement intervals a contract can have

ASSUME FundBounds == TrueIvs \subseteq 1 .. 24

VARIABLE quote        \* one leg: the truth at the venue, and what came out

NoAnswer == [source |-> "none"]
QuoteInit == quote = [kind |-> "none"]

\* What the history endpoints return: the last four settlements or fewer, after
\* a settlement was left out perhaps, oldest first, or newest first
\* (funding_history_scan.py:119).
NewestFirst == {"okx", "bybit", "bitget", "gate", "bitmex"}
Recent == {<<2, 1>>, <<3, 2, 1>>, <<4, 3, 2, 1>>, <<5, 4, 3, 1>>, <<5, 4, 2, 1>>, <<5, 3, 2, 1>>}
Settled(ago, iv) == [i \in 1 .. Len(ago) |-> 1000 - ago[i] * iv]
RowsOf(v, ago, iv) == IF v \in NewestFirst THEN Reverse(Settled(ago, iv)) ELSE Settled(ago, iv)

\* Mutant: the longest step, not the median one.
Mut_iv_from_hist(rows) ==
  LET steps == {i \in 1 .. Len(rows) - 1 : rows[i + 1] - rows[i] \in 1 .. 48}
  IN  IF Len(rows) < 3 \/ steps = {} THEN 0 ELSE Max({rows[i + 1] - rows[i] : i \in steps})

\* The median of the steps from row to row that are positive and at most two
\* days (the upper one of two); none of fewer than three rows.
_iv_from_hist(rows) ==
  LET step(i) == rows[i + 1] - rows[i]
      steps == {i \in 1 .. Len(rows) - 1 : step(i) \in 1 .. 48}
      below(i) == {j \in steps : step(j) < step(i) \/ (step(j) = step(i) /\ j < i)}
  IN  IF Len(rows) < 3 \/ steps = {} THEN 0
      ELSE step(CHOOSE i \in steps : Cardinality(below(i)) = Cardinality(steps) \div 2)

Or(x, y) == IF x # 0 THEN x ELSE y

\* The interval of each venue's native answer: stated by the venue, fixed by the
\* code, or inferred with a default.
_f_binance(rows) == Or(_iv_from_hist(rows), 8)
_f_aster(rows) == Or(_iv_from_hist(rows), 1)
_f_okx(rows) == Or(_iv_from_hist(rows), 8)
_f_bybit(rows) == Or(_iv_from_hist(rows), 8)
_f_bitget(rows) == Or(_iv_from_hist(rows), 8)
_f_gate(rows) == Or(_iv_from_hist(rows), 8)
_f_bingx(rows) == _iv_from_hist(rows)
_f_backpack(rows) == Or(_iv_from_hist(rows), 1)
_f_bitmex(rows, stated) == Or(_iv_from_hist(rows), Or(stated, 8))
_f_hl == 1
_f_dydx == 1
_f_deribit == 1
_f_htx == 8
_f_kucoin(stated) == stated

IntervalOf(v, iv, rows) ==
  CASE v = "binance" -> _f_binance(rows)
    [] v = "aster" -> _f_aster(rows)
    [] v = "okx" -> _f_okx(rows)
    [] v = "bybit" -> _f_bybit(rows)
    [] v = "bitget" -> _f_bitget(rows)
    [] v = "gate" -> _f_gate(rows)
    [] v = "bingx" -> _f_bingx(rows)
    [] v = "backpack" -> _f_backpack(rows)
    [] v = "bitmex" -> _f_bitmex(rows, iv)
    [] v = "hl" -> _f_hl
    [] v = "dydx" -> _f_dydx
    [] v = "deribit" -> _f_deribit
    [] v = "htx" -> _f_htx
    [] v = "kucoin" -> _f_kucoin(iv)

\* sharpe_one: the row of Sharpe's current book, an interval it leaves out is 1.
sharpe_one(sh) == IF sh = {} THEN NoAnswer
                  ELSE [source |-> "sharpe", rate |-> (CHOOSE s \in sh : TRUE).rate,
                        iv |-> Or((CHOOSE s \in sh : TRUE).iv, 1)]

\* get_funding: the native answer, or on any error Sharpe's; venues without a
\* native path go to Sharpe at once.
NativeVenues == {"binance", "aster", "okx", "bybit", "bitget", "gate", "bingx", "hl",
                 "dydx", "deribit", "htx", "kucoin", "backpack", "bitmex"}
get_funding(v, up, rate, iv, rows, sh) ==
  IF v \in NativeVenues /\ up
  THEN [source |-> "native", rate |-> rate, iv |-> IntervalOf(v, iv, rows)]
  ELSE sharpe_one(sh)

Size(x) == IF x < 0 THEN -x ELSE x

\* Rates per hour that differ by more than a tenth of the first.
Disagree(ra, ia, rb, ib) == 10 * Size(ra * ib - rb * ia) > Size(ra * ib)

\* cross_check of one leg: quarantined when it disagrees with Sharpe's row; no
\* verdict without a row or without an interval.
cross_check(leg, sh) ==
  IF sh = {} \/ leg = NoAnswer \/ (leg # NoAnswer /\ leg.iv = 0) THEN "no verdict"
  ELSE LET s == sharpe_one(sh)
       IN  IF Disagree(leg.rate, leg.iv, s.rate, s.iv) THEN "quarantine" ELSE "clear"

\* Sharpe's row of the leg, or none.
Answers == {{}} \cup {{[rate |-> r, iv |-> i]} : r \in FundRates, i \in TrueIvs \cup {0}}

quoted(v, up, rate, iv, ago, sh) ==
  /\ v \in {"hl", "dydx", "deribit"} => iv = 1
  /\ v = "htx" => iv = 8
  /\ LET rows == RowsOf(v, ago, iv)
         leg == get_funding(v, up, rate, iv, rows, sh)
     IN  quote' = [kind |-> "leg", venue |-> v, rate |-> rate, iv |-> iv, rows |-> rows,
                   leg |-> leg, sharpe |-> sh, verdict |-> cross_check(leg, sh)]

Quote ==
  /\ quote.kind = "none"
  /\ \E v \in FundVenues, up \in BOOLEAN, rate \in FundRates, iv \in TrueIvs, ago \in Recent :
     \E sh \in Answers : quoted(v, up, rate, iv, ago, sh)
QuoteSpec == QuoteInit /\ [][Quote]_quote
-----------------------------------------------------------------------------
\* The quarantine is right about the market: a native leg of a venue that lists
\* its settlements oldest first is quarantined exactly when the rate it really
\* pays per hour differs from Sharpe's by more than a tenth, though a settlement
\* is missing from the four rows (v3_connectors.py:602).
QuarantineIsRight ==
  quote.kind = "leg" /\ quote.leg.source = "native" /\ quote.venue \notin NewestFirst /\ Len(quote.rows) >= 3 =>
    \A s \in quote.sharpe : s.iv # 0 =>
      (quote.verdict = "quarantine" <=> Disagree(quote.rate, quote.iv, s.rate, s.iv))

\* The interval inferred from three rows or more is the venue's
\* (v3_connectors.py:63: "median interval hours").
IntervalIsMedian ==
  quote.kind = "leg" /\ quote.leg.source = "native" /\ Len(quote.rows) >= 3 => quote.leg.iv = quote.iv
=============================================================================
