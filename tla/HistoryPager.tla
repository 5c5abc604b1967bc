---------------------------- MODULE HistoryPager ----------------------------
(***************************************************************************)
(* One coin's funding history pulled from one venue, page by page           *)
(* (funding_history_scan.py, funding_history_scan_v2.py).  The venues page  *)
(* in five ways: forward by start time (binance, aster; hl by the hour),    *)
(* backward by end time (bybit) or by an exclusive cursor (okx), by page     *)
(* number (bitget), and by a cursor the venue may ignore (dydx).  Meanwhile *)
(* the venue settles again, and any request may fail.                       *)
(***************************************************************************)
EXTENDS Integers, FiniteSets, FiniteSetsExt

CONSTANTS End,       \* bound: the window is 1..End, in ticks; 0 is before it
          Hour,      \* an hour in ticks: what hl's cursor jumps
          Full,      \* rows in a full page (1000, 200, 100, 400)
          MaxPages,  \* bound: requests of one pull (4 to 30)
          MaxPosts   \* bound: settlements during the pull, fewer than a page

ASSUME PagerBounds == /\ {End, Hour, MaxPages} \subseteq Nat \ {0}
                      /\ Full \in Nat \ {0, 1} /\ MaxPosts \in 0 .. (Full - 1)

VARIABLES kind,      \* the venue's way of paging
          ignored,   \* dydx: the venue does not look at the cursor
          posted,    \* settlement times the venue has
          cursor, page, pullAt,
          out,       \* rows the pull has of each settlement; FundingSpread has their order
          why        \* why the pull ended

pagerVars == <<kind, ignored, posted, cursor, page, out, pullAt, why>>

Settlements == 0 .. (End + MaxPosts)
Got == {e \in DOMAIN out : out[e] > 0}

Kinds == {"forward", "hl", "bybit", "okx", "bitget", "dydx"}
Forward == {"forward", "hl"}

StartCursor(k) == IF k \in Forward THEN 1 ELSE IF k = "bybit" THEN End ELSE End + MaxPosts + 1

PagerInit ==
  /\ kind \in Kinds
  /\ ignored \in {b \in BOOLEAN : b => kind = "dydx"}
  /\ posted \in SUBSET (0 .. End)
  /\ cursor = StartCursor(kind)
  /\ page = 1 /\ out = [e \in Settlements |-> 0] /\ pullAt = "fetching" /\ why = ""

\* The elements of S that stand before e, newest first and oldest first.
Above(S, e) == Cardinality({x \in S : x > e})
Below(S, e) == Cardinality({x \in S : x < e})

\* A page: Full rows at most.
PageOf(S, p) == {e \in S : (p - 1) * Full <= Above(S, e) /\ Above(S, e) < p * Full}
Newest(S) == {e \in S : Above(S, e) < Full}
Oldest(S) == {e \in S : Below(S, e) < Full}

\* What the venue answers: at most a page of rows.
PageRows ==
  CASE kind \in Forward -> Oldest({e \in posted : cursor <= e /\ e <= End})
    [] kind = "bybit"   -> Newest({e \in posted : 1 <= e /\ e <= cursor})
    [] kind = "okx"     -> Newest({e \in posted : e < cursor})
    [] kind = "bitget"  -> PageOf(posted, page)
    [] kind = "dydx"    -> Newest({e \in posted : ignored \/ e <= cursor})

\* Mutant: no `seen` set, a row is kept for its window alone.
MutKept(rows) == {e \in rows : kind \in {"bitget", "dydx"} => e \in 1 .. End}

\* The rows a page adds: bitget and dydx look at the window, and these two and
\* bybit skip a time they have seen.
Kept(rows) == {e \in rows : /\ kind \in {"bitget", "dydx"} => e \in 1 .. End
                            /\ kind \in {"bitget", "dydx", "bybit"} => e \notin Got}

\* The tests after a page that has rows; only bybit may name a next page (more).
LastPage(rows, new, more) ==
  CASE kind = "forward" -> Cardinality(rows) < Full \/ Max(rows) >= End
    [] kind = "hl"      -> Cardinality(rows) < Full \/ Max(rows) >= End - Hour
    [] kind = "okx"     -> Cardinality(rows) < Full \/ Min(rows) <= 1
    [] kind = "bybit"   -> Min(rows) <= 1 \/ (new = {} /\ ~more)
    [] OTHER            -> Min(rows) <= 1 \/ new = {}

NextCursor(rows) ==
  CASE kind = "forward" -> Max(rows) + 1
    [] kind = "hl"      -> Max(rows) + Hour
    [] kind = "bybit"   -> Min(rows) - 1
    [] OTHER            -> Min(rows)

Stop(reason) == pullAt' = "done" /\ why' = reason /\ UNCHANGED <<cursor, page>>

\* A page comes back: empty ends the pull, else its rows are added and the
\* loop goes on unless it was the last one or the last the loop allows.  A next
\* page bybit names lies below this one, as does all the lowered end time allows.
FetchPage ==
  /\ pullAt = "fetching"
  /\ LET rows == PageRows
         new == Kept(rows)
     IN  /\ out' = [e \in DOMAIN out |-> out[e] + (IF e \in new THEN 1 ELSE 0)]
         /\ IF rows = {} THEN Stop("whole")
            ELSE \E more \in {b \in BOOLEAN : b => kind = "bybit"} :
              IF LastPage(rows, new, more) THEN Stop("whole")
              ELSE IF page = MaxPages THEN Stop("budget")
              ELSE cursor' = NextCursor(rows) /\ page' = page + 1 /\ UNCHANGED <<pullAt, why>>
  /\ UNCHANGED <<kind, ignored, posted>>

\* fetch turns every failure into a value that is no page: the pull ends with
\* what it has, and its caller cannot tell.
FetchFails ==
  /\ pullAt = "fetching"
  /\ Stop("error")
  /\ UNCHANGED <<kind, ignored, posted, out>>

\* The venue settles while the pull sleeps; the window ended when it began.
Settle ==
  /\ pullAt = "fetching"
  /\ \E e \in (End + 1) .. (End + MaxPosts) :
       /\ \A p \in posted : p < e
       /\ posted' = posted \cup {e}
  /\ UNCHANGED <<kind, ignored, cursor, page, out, pullAt, why>>

PagerNext == FetchPage \/ FetchFails \/ Settle
PagerSpec == PagerInit /\ [][PagerNext]_pagerVars
-----------------------------------------------------------------------------
\* What a cursor that jumps by the hour may jump over.
Slack == IF kind = "hl" THEN Hour ELSE 0
JumpedOver(e) == \E l \in Got : l < e /\ e <= l + Slack

\* The pages tile the history: no settlement is collected twice, and none lies
\* unseen between two that were collected, whichever way the venue pages and
\* though it settles in between.  hl's pager (funding_history_scan.py:155) jumps
\* an hour and may lose the settlement right behind a page, no other.
PagesTile ==
  /\ \A e \in DOMAIN out : out[e] <= 1
  /\ \A e \in posted : (\E a, b \in Got : a < e /\ e < b) => e \in Got \/ JumpedOver(e)

\* A pull that ended by itself, not by an error or by its page budget, has every
\* settlement of its window; dydx's cannot when the venue ignores the cursor.
WholeWindow ==
  why = "whole" /\ ~ignored =>
    \A e \in posted \cap (1 .. End) : e \in Got \/ JumpedOver(e)

\* Both: what a pull (funding_history_scan.py:54) returns as the window's history
\* is one, without a hole or a double inside, and whole when nothing failed.
PullIsFaithful == PagesTile /\ WholeWindow
=============================================================================
