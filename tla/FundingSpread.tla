--------------------------- MODULE FundingSpread ---------------------------
(***************************************************************************)
(* What the scans make of two funding histories: the interval they infer,   *)
(* the zero-fill model of the native venues (funding_history_scan and v2,   *)
(* v3_scanner), the forward-fill model of the Sharpe data                   *)
(* (sharpe_floorscan, v3_scanner), and the day statistics on top.  Hours    *)
(* pass, each venue settles or not; every quotient by an interval is kept   *)
(* whole by multiplying through with both intervals.                        *)
(***************************************************************************)
EXTENDS Integers, Sequences, FiniteSets, FiniteSetsExt, SequencesExt, Functions

CONSTANTS Rates,     \* rates a settlement may pay
          Hours,     \* bound: hours of history
          DayLen,    \* hours of a day (24)
          MinHours, MinSpan   \* least settlement hours (24) and window (14 days)

ASSUME SpreadBounds == /\ Rates \subseteq Int /\ IsFiniteSet(Rates)
                       /\ {Hours, DayLen, MinHours, MinSpan} \subseteq Nat \ {0}

VARIABLES short, long,  \* hour -> rate, the history of each leg
          backward,     \* legs whose rows come newest first: the first scan's bybit and
                        \* okx; the second sorts
          hour

spreadVars == <<short, long, backward, hour>>

SpreadInit == short = <<>> /\ long = <<>> /\ hour = 0 /\ backward \in SUBSET {"short", "long"}

With(f, h, r) == [k \in DOMAIN f \cup {h} |-> IF k = h THEN r ELSE f[k]]

\* An hour passes.
HourPasses ==
  /\ hour < Hours
  /\ short' \in {short} \cup {With(short, hour, r) : r \in Rates}
  /\ long' \in {long} \cup {With(long, hour, r) : r \in Rates}
  /\ hour' = hour + 1
  /\ UNCHANGED backward

Ascending(S) == [i \in 1 .. Cardinality(S) |-> CHOOSE e \in S : Cardinality({x \in S : x < e}) = i - 1]

\* The median gap of at most two days, the upper one of two; 8 without gaps, and
\* rows that run backward have none.
infer_interval_h(ts) ==
  LET diff(i) == ts[i + 1] - ts[i]
      diffs == {i \in 1 .. Len(ts) - 1 : 0 < diff(i) /\ diff(i) <= 48}
      mid == Cardinality(diffs) \div 2
  IN  IF Len(ts) < 3 \/ diffs = {} THEN 8
      ELSE CHOOSE g \in {diff(i) : i \in diffs} :
             /\ Cardinality({i \in diffs : diff(i) < g}) <= mid
             /\ mid < Cardinality({i \in diffs : diff(i) <= g})

RowTimes(f, leg) == IF leg \in backward THEN Reverse(Ascending(DOMAIN f)) ELSE Ascending(DOMAIN f)
iv_s == infer_interval_h(RowTimes(short, "short"))
iv_l == infer_interval_h(RowTimes(long, "long"))

\* Hours both histories cover.
lo == Max({Min(DOMAIN short), Min(DOMAIN long)})
hi == Min({Max(DOMAIN short), Max(DOMAIN long)})
Union == {h \in DOMAIN short \cup DOMAIN long : lo <= h /\ h <= hi}

At(f, h) == IF h \in DOMAIN f THEN f[h] ELSE 0

Covered == DOMAIN short # {} /\ DOMAIN long # {}
Measured == Covered /\ Cardinality(Union) >= MinHours /\ hi - lo >= MinSpan

\* An hour's differential, d, times both intervals.
d(h) == At(short, h) * iv_l - At(long, h) * iv_s

\* The loop over the hours.
Cumulate(hours) ==
  FoldLeft(LAMBDA acc, h : LET c == acc.cum + d(h)
                               p == Max({acc.peak, c})
                           IN  [cum |-> c, peak |-> p, max_dd |-> Max({acc.max_dd, p - c})],
           [cum |-> 0, peak |-> 0, max_dd |-> 0], hours)

\* Days with a settlement hour, and the carry of each in order.
Days == Ascending({h \div DayLen : h \in Union})
Daily(k) == MapThenSumSet(d, {h \in Union : h \div DayLen = k})
dv == [i \in 1 .. Len(Days) |-> Daily(Days[i])]

\* Mutant: an episode that reaches the last day is not counted.
MutEpisodes(vals) ==
  FoldLeft(LAMBDA acc, v : IF v > 0 THEN [acc EXCEPT !.cur = Append(@, v)]
                           ELSE IF acc.cur # <<>> THEN [eps |-> Append(acc.eps, acc.cur), cur |-> <<>>]
                           ELSE acc,
           [eps |-> <<>>, cur |-> <<>>], vals).eps

\* Contiguous days with positive carry.
Episodes(vals) ==
  LET end == FoldLeft(LAMBDA acc, v : IF v > 0 THEN [acc EXCEPT !.cur = Append(@, v)]
                                      ELSE IF acc.cur # <<>> THEN [eps |-> Append(acc.eps, acc.cur), cur |-> <<>>]
                                      ELSE acc,
                      [eps |-> <<>>, cur |-> <<>>], vals)
  IN  IF end.cur # <<>> THEN Append(end.eps, end.cur) ELSE end.eps

\* Days positive; the share of those whose next day is, over all of them.
Positive(vals) == {i \in DOMAIN vals : vals[i] > 0}
Survives(vals) == {i \in Positive(vals) : i + 1 \in Positive(vals)}

spread_metrics_v2 ==
  [cum |-> Cumulate(Ascending(Union)).cum,
   max_dd |-> Cumulate(Ascending(Union)).max_dd,
   positive |-> Cardinality(Positive(dv)), n |-> Len(dv),
   survive |-> Cardinality(Survives(dv)),
   episodes |-> Episodes(dv)]

\* What a leg carries into hour h: this hour's rate per hour, times both
\* intervals (its own and the other's), or what it carried before.
Carry(f, other, h, last) == IF h \in DOMAIN f THEN <<f[h] * other>> ELSE last

\* The forward-fill loop: hour -> spread, from the first hour both have printed.
pair_metrics_ffill ==
  FoldLeft(LAMBDA acc, h :
             LET cs == Carry(short, iv_l, h, acc.cs)
                 cl == Carry(long, iv_s, h, acc.cl)
             IN  [cs |-> cs, cl |-> cl,
                  spread |-> IF <<>> \in {cs, cl} THEN acc.spread
                             ELSE With(acc.spread, h, cs[1] - cl[1])],
           [cs |-> <<>>, cl |-> <<>>, spread |-> <<>>],
           [i \in 1 .. hi - lo + 1 |-> lo + i - 1]).spread

SpreadNext == HourPasses
SpreadSpec == SpreadInit /\ [][SpreadNext]_spreadVars
-----------------------------------------------------------------------------
\* The drawdown of the one-pass loop (funding_history_scan.py:219) is the worst
\* fall of the carry from any hour, or the start, to a later one.
DrawdownIsWorstFall ==
  Measured =>
    LET hours == Ascending(Union)
        cum == FoldLeft(LAMBDA acc, h : Append(acc, Last(acc) + d(h)), <<0>>, hours)
    IN  spread_metrics_v2.max_dd =
          Max(UNION {{cum[j] - cum[i] : j \in 1 .. i} : i \in DOMAIN cum})

\* The runs of positive days among the first m, each from its first day on.
Run(vals, pos, i, m) == SubSeq(vals, i, Max({j \in i .. m : i .. j \subseteq pos}))
Runs(vals, m) ==
  LET pos == Positive(vals)
      starts == Ascending({i \in pos : i <= m /\ i - 1 \notin pos})
  IN  [k \in DOMAIN starts |-> Run(vals, pos, starts[k], m)]

\* The episodes (funding_history_scan_v2.py:224) are the runs of positive days, each
\* whole and in order, the one that reaches the last day with them.
EpisodesArePositiveRuns ==
  Measured => LET days == dv IN Episodes(days) = Runs(days, Len(days))

\* The spread the forward fill books at an hour (v3_scanner.py:87) is the
\* difference of the two rates per hour last printed in the window.
FfillIsLastPrint ==
  Covered /\ hi > lo =>
    LET Printed(f, h) == {k \in DOMAIN f : lo <= k /\ k <= h}
        LastRate(f, h) == f[Max(Printed(f, h))]
        Both == {h \in lo .. hi : Printed(short, h) # {} /\ Printed(long, h) # {}}
    IN  pair_metrics_ffill =
          [h \in Both |-> LastRate(short, h) * iv_l - LastRate(long, h) * iv_s]

\* All three: the loops of the scans compute what their figures are defined as
\* (funding_history_scan.py:199, funding_history_scan_v2.py:174,
\* v3_scanner.py:71), whatever settlements are missing on either leg.
FiguresMeanWhatTheySay == DrawdownIsWorstFall /\ EpisodesArePositiveRuns /\ FfillIsLastPrint
=============================================================================
