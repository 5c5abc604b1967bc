-------------------------------- MODULE Desk --------------------------------
(***************************************************************************)
(* The two passes of the desk's `basis` (v3_desk.py) for one coin: a spot leg *)
(* bought against a short perp leg.  Pass 1 ranks what one call to Sharpe and *)
(* one ticker per spot venue give; pass 2 asks the perp venues and the books   *)
(* again, any request of which may fail on its own, or be answered otherwise    *)
(* than the one before it.  Rates are per hour, fees and bases in the unit      *)
(* that makes a held month's sums whole.                                       *)
(***************************************************************************)
EXTENDS Integers, FiniteSets, FiniteSetsExt

CONSTANTS Perps,     \* perp venues with a fee table: the executable ones
          Spots,     \* spot venues
          DeskRates, \* rates per interval
          Taker,     \* taker fee of each venue of either kind
          Marks,     \* prices
          Hold,      \* hours a position is held: 30 days
          FloorRate, \* the least hourly rate asked for
          Keep       \* scan_keep: rows carried into the second pass

ASSUME DeskBounds == /\ DeskRates \subseteq Int /\ Marks \subseteq Nat \ {0}
                     /\ Hold \in Nat \ {0} /\ Keep \in Nat
                     /\ Taker \in [Perps \cup Spots -> Nat]

VARIABLES pass1,     \* prices of pass 1: the ticker's ask, the mark
          kept,      \* rows of pass 1 that pass 2 has still to look at
          ctx,       \* perp venue -> rate and book, asked once
          surface    \* rows of pass 2

deskVars == <<pass1, kept, ctx, surface>>
Unknown  == -1000      \* no answer, or an interval that is not in (0, 48]

hourly_rate(rate, iv) == IF iv <= 0 \/ iv > 48 THEN Unknown ELSE rate \div iv

\* Earned over the hold less one round trip: the order of net30.
net30_of(h, rt) == h * Hold - rt
basis_math(s, p, h, basis) == net30_of(h, 2 * (Taker[s] + Taker[p])) + basis

\* basis_row: the spot bought at its ask, the perp sold at its bid.  Carry over the
\* hold, the round trip and the basis in percent of a price of 100.
basis_row(s, p, ask, bid, h) ==
  [s |-> s, p |-> p, h |-> h, ask |-> ask, bid |-> bid, net |-> basis_math(s, p, h, bid - ask)]

\* Pass 1, on Sharpe's rates and marks: rows that reach the floor, of which the
\* best `Keep` by their net go on.
DeskInit ==
  \E rate \in [Perps -> DeskRates], iv \in [Perps -> {0, 1}], tick, mark \in Marks :
    LET h(p)  == hourly_rate(rate[p], iv[p])
        rows1 == {basis_row(s, p, tick, mark, h(p)) : s \in Spots, p \in {v \in Perps : h(v) >= FloorRate}}
    IN  /\ \E K \in SUBSET rows1 :
             /\ Cardinality(K) = Min({Keep, Cardinality(rows1)})
             /\ \A r \in K, q \in rows1 \ K : r.net >= q.net
             /\ kept = K
        /\ pass1 = [ask |-> tick, bid |-> mark]
        /\ ctx = <<>> /\ surface = {}

\* The context of every perp leg among the rows, asked once: the native rate,
\* Sharpe's when that request fails, and the perp's book.
Pending == {r \in kept : r.p \notin DOMAIN ctx}

Ask ==
  /\ \E r \in Pending, native \in DeskRates \cup {Unknown}, bid \in Marks \cup {Unknown} :
       LET got == [h |-> IF native # Unknown THEN native ELSE r.h, bid |-> bid]
       IN  ctx' = [p \in DOMAIN ctx \cup {r.p} |-> IF p = r.p THEN got ELSE ctx[p]]
  /\ UNCHANGED <<pass1, kept, surface>>

\* Both books, or the prices of pass 1.
Priced(c, ask) == IF ask # Unknown /\ c.bid # Unknown THEN [ask |-> ask, bid |-> c.bid] ELSE pass1

\* Mutant: every row asks for its own rate.
MutEnrich ==
  /\ Pending = {}
  /\ \E r \in kept, ask \in Marks \cup {Unknown}, h \in DeskRates :
       LET at == Priced(ctx[r.p], ask)
       IN  /\ surface' = surface \cup {basis_row(r.s, r.p, at.ask, at.bid, h)}
           /\ kept' = kept \ {r}
  /\ UNCHANGED <<pass1, ctx>>

\* A row again, from its leg's context and its own spot book.
Enrich ==
  /\ Pending = {}
  /\ \E r \in kept, ask \in Marks \cup {Unknown} :
       LET at == Priced(ctx[r.p], ask)
       IN  /\ surface' = surface \cup {basis_row(r.s, r.p, at.ask, at.bid, ctx[r.p].h)}
           /\ kept' = kept \ {r}
  /\ UNCHANGED <<pass1, ctx>>

DeskNext == Ask \/ Enrich
DeskSpec == DeskInit /\ [][DeskNext]_deskVars

\* apply_basis_filters on the rows of pass 2.
Shown == {r \in surface : r.h >= FloorRate}
-----------------------------------------------------------------------------
\* Rows that share a perp leg show one rate, native or Sharpe's, and one price of
\* the perp where both have books, although every request of pass 2 may fail or
\* move on its own (v3_desk.py:737): they differ by their spot legs alone.
BasisRowsAgree ==
  \A r, q \in Shown :
    r.p = q.p => r.h = q.h /\ (r.bid = q.bid \/ pass1.bid \in {r.bid, q.bid})
=============================================================================
