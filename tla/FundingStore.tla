---------------------------- MODULE FundingStore ----------------------------
(***************************************************************************)
(* The rows of one venue and coin in funding_obs (v3_store.py), as the       *)
(* back-fill loads, fetches and re-stamps them (v3_backfill.py).  Its         *)
(* commands are run by hand, in any order and as often as one likes.         *)
(***************************************************************************)
EXTENDS Integers, Sequences, FiniteSets, FiniteSetsExt, SequencesExt

CONSTANTS Interval,  \* hours between the venue's settlements
          Span       \* bound: hours of history

ASSUME StoreBounds == {Interval, Span} \subseteq Nat \ {0}

VARIABLES settled,   \* settlement times the caches know; a history has holes
          obs        \* <<source, ts>> -> interval_h: the table, by its unique index

storeVars == <<settled, obs>>

Times == {t \in 0 .. Span : t % Interval = 0}

StoreInit == settled \in SUBSET Times \ {{}} /\ obs = <<>>

\* Mutant: the last load wins.
Mutinsert_funding(new) ==
  obs' = [k \in DOMAIN obs \cup DOMAIN new |-> IF k \in DOMAIN new THEN new[k] ELSE obs[k]]

\* INSERT OR IGNORE over the unique index.
insert_funding(new) ==
  obs' = [k \in DOMAIN obs \cup DOMAIN new |-> IF k \in DOMAIN obs THEN obs[k] ELSE new[k]]

InTime(S) == [i \in 1 .. Cardinality(S) |-> CHOOSE e \in S : Cardinality({x \in S : x < e}) = i - 1]

\* The median gap of the cached events, 8 when there are less than three.
infer_iv(S) ==
  LET ts == InTime(S)
      gaps == SortSeq([i \in 1 .. Len(ts) - 1 |-> ts[i + 1] - ts[i]], LAMBDA x, y : x < y)
  IN  IF Len(ts) < 3 THEN 8 ELSE gaps[Len(gaps) \div 2 + 1]

\* The native cache: one interval for all its rows.
LoadNative ==
  /\ insert_funding([k \in {"native_hist"} \X settled |-> infer_iv(settled)])
  /\ UNCHANGED settled

\* The Sharpe checkpoint dropped the intervals: they are stamped 0, unknown.
LoadSharpe ==
  /\ insert_funding([k \in {"sharpe_hist"} \X settled |-> 0])
  /\ UNCHANGED settled

\* A fetched row's interval: Sharpe's, or the gap to the next row, or 1 for the
\* last; a time both slices hold comes twice, and the gap to its copy is none,
\* so that the first copy, the one the index keeps, gets 1.
FetchedInterval(t, S, twice, meta) ==
  IF meta THEN Interval
  ELSE IF t \in twice \/ t = Max(S) THEN 1
  ELSE Min({x \in S : x > t}) - t

\* 60 days, oldest first, and the last 8 when that was capped.
FetchCoins ==
  /\ \E meta \in BOOLEAN : \E first, recent \in SUBSET settled :
       LET S == first \cup recent
       IN  /\ S # {}
           /\ insert_funding([k \in {"sharpe_hist"} \X S |-> FetchedInterval(k[2], S, first \cap recent, meta)])
  /\ UNCHANGED settled

SharpeRows == {k \in DOMAIN obs : k[1] = "sharpe_hist"}

\* restamp looks at the interval of one row of the series (a bare column beside
\* COUNT(*): any row) and leaves the series alone when that one is right, although
\* its docstring stamps them all from the live book.
Restamp ==
  /\ SharpeRows # {}
  /\ \E cur \in SharpeRows :
       obs' = IF obs[cur] = Interval THEN obs
              ELSE [k \in DOMAIN obs |-> IF k \in SharpeRows THEN Interval ELSE obs[k]]
  /\ UNCHANGED settled

StoreNext == LoadNative \/ LoadSharpe \/ FetchCoins \/ Restamp
StoreSpec == StoreInit /\ [][StoreNext]_storeVars

-----------------------------------------------------------------------------
\* What restamp has set right stays right, whatever is loaded or fetched again
\* afterwards and in whatever order: a fetch stamps 1 on its last row and on rows that
\* came twice, a load stamps nothing, and neither may reach a row that is there.
RightRowsStayRight ==
  [][\A k \in SharpeRows : obs[k] = Interval => obs'[k] = Interval]_storeVars
=============================================================================
