---------------------------- MODULE UnwindLadder -----------------------------
(***************************************************************************)
(* The exit of one open position (scripts/v3_exec.py: start_unwind,        *)
(* progress_unwind, unwind_tranche, maker_to_taker, add_unwind_done,       *)
(* check_unwind_complete), at the granularity of the engine's commits.     *)
(*                                                                         *)
(* Progress lives twice: in the flags JSON of the row (done, zeros) and in *)
(* the copy of it the running tick holds in pos["flags"] (mdone, mzeros).  *)
(* Every set_flags writes a whole JSON object, so a write derived from the *)
(* tick's copy undoes what was written around it; the model writes the     *)
(* same objects.  Quantities are lots, times are ticks.                    *)
(***************************************************************************)
EXTENDS Integers

Legs == {"short", "long"}

CONSTANTS
  Entry,       \* Entry[leg]: flags.entry_leg_qty, the lots entered with
  Close,       \* Close[leg]: the fewest lots that are >= 98% of Entry[leg]
  MakerLegs,   \* legs on a maker-first venue (nado, aster)
  Patience,    \* UNWIND_MAKER_PATIENCE_S, in ticks
  ZeroTicks,   \* thin ticks to wait for before the extended tranche (3)
  BookViews,   \* what a snapshot may show of a leg's book
  Slip,        \* bound: extra lots a walk of the same notional may return
  MaxGap,      \* bound: the longest gap between two ticks
  MaxCrashes   \* bound: crashes and aborted ticks in one behaviour

\* "one_sided" has no mid; "hollow" has a mid but nothing to walk.
Books == {"none", "one_sided", "hollow", "live"}

ASSUME UnwindConstants ==
  /\ Entry \in [Legs -> Nat \ {0}]
  /\ Close \in [Legs -> Nat] /\ \A l \in Legs : Close[l] \in 1..Entry[l]
  /\ MakerLegs \subseteq Legs
  /\ Patience \in Nat /\ ZeroTicks \in Nat \ {0}
  /\ BookViews \subseteq Books
  /\ Slip \in Nat /\ MaxGap \in Nat \ {0} /\ MaxCrashes \in Nat

VARIABLES
  status,     \* exec_positions.status
  immediate,  \* flags.unwind_immediate
  exit,       \* exit[leg]: lots of exit fills in paper_fills
  order,      \* order[leg]: lots of the resting exit order, 0 if none
  ordAge,     \* ticks since that order's ts_post
  done,       \* flags.unwind_done_qty
  zeros,      \* flags.zero_fill_streak, up to ZeroTicks
  closes,     \* exec_drift rows written for this position
  pc,         \* where the running tick is; "idle" between ticks
  books,      \* the tick's snapshot
  mdone,      \* unwind_done_qty in the tick's pos["flags"]
  mzeros,     \* zero_fill_streak in the tick's pos["flags"]
  todo,       \* legs whose resting order the tick still has to look at
  phase,      \* "orders" or "ladder": who is adding to unwind_done
  leg,        \* the leg being worked on
  lots,       \* lots being filled or posted
  crashes

flags  == <<done, zeros>>
ledger == <<exit, order, ordAge>>
copy   == <<mdone, mzeros>>
local  == <<books, copy, todo, phase, leg, lots>>
row    == <<status, immediate, closes>>
vars   == <<row, ledger, flags, pc, local, crashes>>

Smaller(a, b) == IF a < b THEN a ELSE b
Remaining(l) == Entry[l] - mdone[l]
Style(l) == IF immediate \/ l \notin MakerLegs THEN "taker" ELSE "maker"
HasMid(l) == books[l] \in {"hollow", "live"}

\* What ds.walk can return for the notional of n lots: the book may be too
\* thin, or its price may have moved since the notional was computed.
Walked(n) == 1..(n + Slip)

TypeOK ==
  /\ status \in {"open", "unwinding", "closed"}
  /\ immediate \in BOOLEAN
  /\ exit \in [Legs -> Nat]
  /\ order \in [Legs -> Nat]
  /\ ordAge \in [Legs -> 0..(Patience + 1)]
  /\ done \in [Legs -> Nat] /\ mdone \in [Legs -> Nat]
  /\ zeros \in [Legs -> 0..ZeroTicks] /\ mzeros \in [Legs -> 0..ZeroTicks]
  /\ closes \in Nat
  /\ pc \in {"idle", "orders", "marked", "expired", "written", "counted",
             "ladder", "sized"}
  /\ books \in [Legs -> Books]
  /\ todo \subseteq Legs
  /\ phase \in {"orders", "ladder"}
  /\ leg \in Legs
  /\ lots \in Nat
  /\ crashes \in 0..MaxCrashes

Init ==
  /\ status = "open" /\ immediate = FALSE /\ closes = 0
  /\ exit = [l \in Legs |-> 0]
  /\ order = [l \in Legs |-> 0] /\ ordAge = [l \in Legs |-> 0]
  /\ done = [l \in Legs |-> 0] /\ zeros = [l \in Legs |-> 0]
  /\ pc = "idle" /\ books = [l \in Legs |-> "none"]
  /\ mdone = done /\ mzeros = zeros
  /\ todo = {} /\ phase = "orders" /\ leg = "short" /\ lots = 0
  /\ crashes = 0

\* Between ticks nothing of a tick is left.
Forget ==
  /\ pc' = "idle" /\ books' = [l \in Legs |-> "none"]
  /\ mdone' = done' /\ mzeros' = zeros'
  /\ todo' = {} /\ phase' = "orders" /\ leg' = "short" /\ lots' = 0

\* A trigger, or the unwind command, on an open position.
StartUnwind(imm) ==
  /\ pc = "idle" /\ status = "open"
  /\ status' = "unwinding" /\ immediate' = imm
  /\ UNCHANGED <<closes, ledger, flags, pc, local, crashes>>

BeginTick(d, b) ==
  /\ pc = "idle" /\ status = "unwinding"
  /\ pc' = "orders" /\ phase' = "orders"
  /\ books' = b
  /\ mdone' = done /\ mzeros' = zeros
  /\ todo' = {l \in Legs : order[l] > 0}
  /\ ordAge' = [l \in Legs |-> IF order[l] = 0 THEN 0
                               ELSE Smaller(ordAge[l] + d, Patience + 1)]
  /\ UNCHANGED <<row, exit, order, flags, leg, lots, crashes>>

(***************************************************************************)
(* progress_unwind, first half: the resting orders.                        *)
(***************************************************************************)
\* Mutant: the maker patience is never over.
MutKeepOrder(l) ==
  /\ pc = "orders" /\ l \in todo
  /\ todo' = todo \ {l}
  /\ UNCHANGED <<row, ledger, flags, pc, books, copy, phase, leg, lots, crashes>>

KeepOrder(l) ==
  /\ pc = "orders" /\ l \in todo
  /\ books[l] = "none" \/ ordAge[l] <= Patience
  /\ todo' = todo \ {l}
  /\ UNCHANGED <<row, ledger, flags, pc, books, copy, phase, leg, lots, crashes>>

\* The order leaves the book: it was crossed, or its patience is over.
Take(l, to) ==
  /\ pc = "orders" /\ l \in todo /\ books[l] # "none"
  /\ pc' = to /\ todo' = todo \ {l} /\ leg' = l /\ lots' = order[l]
  /\ order' = [order EXCEPT ![l] = 0] /\ ordAge' = [ordAge EXCEPT ![l] = 0]
  /\ UNCHANGED <<row, exit, flags, books, copy, phase, crashes>>

OrderCrossed(l) == Take(l, "marked")
OrderExpires(l) == ordAge[l] > Patience /\ Take(l, "expired")

WriteFill(n) ==
  /\ pc' = "written" /\ lots' = n
  /\ exit' = [exit EXCEPT ![leg] = @ + n]
  /\ UNCHANGED <<row, order, ordAge, flags, books, copy, todo, phase, leg, crashes>>

MakerFill == pc = "marked" /\ WriteFill(lots)

\* Mutant: the conversion books all that the walk returned.
MutConvertUnclamped(n) == pc = "expired" /\ books[leg] = "live" /\ WriteFill(n)

\* maker_to_taker: the walk is clamped to what the leg still has to exit.
ConvertToTaker(n) ==
  /\ pc = "expired" /\ books[leg] = "live"
  /\ WriteFill(Smaller(n, Remaining(leg)))

ConvertFails ==
  /\ pc = "expired" /\ books[leg] # "live"
  /\ pc' = "orders"
  /\ UNCHANGED <<row, ledger, flags, books, copy, todo, phase, leg, lots, crashes>>

(***************************************************************************)
(* add_unwind_done, then check_unwind_complete.  The flags written are the *)
(* tick's copy, streaks included.                                          *)
(***************************************************************************)
CountFill ==
  /\ pc = "written" /\ pc' = "counted"
  /\ mdone' = [mdone EXCEPT ![leg] = @ + lots]
  /\ done' = mdone' /\ zeros' = mzeros
  /\ UNCHANGED <<row, ledger, books, mzeros, todo, phase, leg, lots, crashes>>

\* Mutant: one complete leg is enough.
MutComplete == \E l \in Legs : mdone[l] >= Close[l]
Complete == \A l \in Legs : mdone[l] >= Close[l]

\* The ladder turns from the short leg to the long one, then the tick ends.
NextLeg ==
  IF leg = "short"
  THEN /\ pc' = "ladder" /\ leg' = "long"
       /\ UNCHANGED <<books, copy, todo, phase, lots>>
  ELSE Forget

CheckComplete ==
  /\ pc = "counted"
  /\ IF Complete THEN status' = "closed" /\ closes' = closes + 1
                 ELSE UNCHANGED <<status, closes>>
  /\ UNCHANGED <<immediate, ledger, flags, crashes>>
  /\ IF phase = "orders" THEN pc' = "orders" /\ UNCHANGED local ELSE NextLeg

(***************************************************************************)
(* progress_unwind, second half: one tranche per leg.                      *)
(***************************************************************************)
OrdersDone ==
  /\ pc = "orders" /\ todo = {}
  /\ UNCHANGED <<row, ledger, flags, crashes>>
  /\ IF status = "unwinding"
     THEN /\ pc' = "ladder" /\ phase' = "ladder" /\ leg' = "short"
          /\ mdone' = done /\ mzeros' = zeros
          /\ UNCHANGED <<books, todo, lots>>
     ELSE Forget

SkipLeg ==
  /\ pc = "ladder"
  /\ ~HasMid(leg) \/ Remaining(leg) <= 0
  /\ UNCHANGED <<row, ledger, flags, crashes>>
  /\ NextLeg

Ladder == pc = "ladder" /\ HasMid(leg) /\ Remaining(leg) > 0

Size(n, streak) ==
  /\ pc' = "sized" /\ lots' = n
  /\ done' = mdone /\ zeros' = [mzeros EXCEPT ![leg] = streak]
  /\ UNCHANGED <<row, ledger, books, copy, todo, phase, leg, crashes>>

ImmediateTranche ==
  /\ Ladder /\ immediate
  /\ Size(Remaining(leg), mzeros[leg])

\* depth is what the 50 bps rung holds now; all that was done so far is
\* subtracted from it.
SliceTranche(depth) ==
  /\ Ladder /\ ~immediate
  /\ depth > mdone[leg]
  /\ Size(Smaller(Remaining(leg), depth - mdone[leg]), 0)

\* Mutant: the streak is never counted up.
MutStreak == mzeros[leg]
Streak == Smaller(mzeros[leg] + 1, ZeroTicks)

WaitThin ==
  /\ Ladder /\ ~immediate
  /\ mzeros[leg] + 1 < ZeroTicks
  /\ done' = mdone /\ zeros' = [mzeros EXCEPT ![leg] = Streak]
  /\ UNCHANGED <<row, ledger, crashes>>
  /\ NextLeg

ExtendThin ==
  /\ Ladder /\ ~immediate
  /\ mzeros[leg] + 1 >= ZeroTicks
  /\ Size(Remaining(leg), Streak)

MakerRests ==
  /\ pc = "sized" /\ Style(leg) = "maker" /\ order[leg] > 0
  /\ UNCHANGED <<row, ledger, flags, crashes>>
  /\ NextLeg

PostMaker ==
  /\ pc = "sized" /\ Style(leg) = "maker" /\ order[leg] = 0
  /\ order' = [order EXCEPT ![leg] = lots] /\ ordAge' = [ordAge EXCEPT ![leg] = 0]
  /\ UNCHANGED <<row, exit, flags, crashes>>
  /\ NextLeg

TakerTranche(n) ==
  /\ pc = "sized" /\ Style(leg) = "taker" /\ books[leg] = "live"
  /\ WriteFill(Smaller(n, Remaining(leg)))

TakerFails ==
  /\ pc = "sized" /\ Style(leg) = "taker" /\ books[leg] # "live"
  /\ UNCHANGED <<row, ledger, flags, crashes>>
  /\ NextLeg

\* The process dies, or an exception ends the tick ("TICK ERR").
Crash ==
  /\ pc # "idle"
  /\ crashes < MaxCrashes /\ crashes' = crashes + 1
  /\ UNCHANGED <<row, ledger, flags>>
  /\ Forget

Orders ==
  \/ \E l \in Legs : KeepOrder(l) \/ OrderCrossed(l) \/ OrderExpires(l)
  \/ MakerFill
  \/ \E n \in Walked(lots) : ConvertToTaker(n)
  \/ ConvertFails \/ OrdersDone

Tranches ==
  \/ SkipLeg \/ ImmediateTranche
  \/ \E depth \in 1..(Entry[leg] + Slip) : SliceTranche(depth)
  \/ WaitThin \/ ExtendThin
  \/ MakerRests \/ PostMaker
  \/ \E n \in Walked(lots) : TakerTranche(n)
  \/ TakerFails

Engine ==
  \/ \E d \in 1..MaxGap, b \in [Legs -> BookViews] : BeginTick(d, b)
  \/ Orders \/ Tranches \/ CountFill \/ CheckComplete

Next == (\E imm \in BOOLEAN : StartUnwind(imm)) \/ Engine \/ Crash

\* The run loop calls tick() again and again; nothing forces an unwind to
\* start or a crash to happen.
Spec == Init /\ [][Next]_vars /\ WF_vars(Engine)
=============================================================================
