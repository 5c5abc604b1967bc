---------------------------- MODULE UnwindProofs -----------------------------
(***************************************************************************)
(* Machine-checked theorems about UnwindLadder, for every value of its     *)
(* constants.  The safety properties of UnwindProps follow from UnwindInv, *)
(* which is shown inductive action by action: the lots a tick holds        *)
(* between two commits always fit into what the leg still has to exit, and *)
(* the flags never run ahead of the fill ledger.                           *)
(***************************************************************************)
EXTENDS UnwindProps, TLAPS

\* The smaller of two numbers is one of them and exceeds neither.
LEMMA SmallerBounds ==
  ASSUME NEW a \in Int, NEW b \in Int
  PROVE  /\ Smaller(a, b) \in {a, b}
         /\ Smaller(a, b) <= a /\ Smaller(a, b) <= b
  BY DEF Smaller

\* A walk of n lots returns a whole, non-empty number of them.
LEMMA WalkedBounds ==
  ASSUME NEW n \in Nat, NEW got \in Walked(n)
  PROVE  got \in Nat \ {0}
  BY UnwindConstants DEF Walked

\* What a leg still has to exit is never negative: its resting order fits.
LEMMA RemainingBounds ==
  ASSUME UnwindInv, NEW l \in Legs
  PROVE  /\ Remaining(l) \in Nat
         /\ Remaining(l) = Entry[l] - mdone[l]
         /\ mdone[l] \in Nat /\ Entry[l] \in Nat
  BY UnwindConstants DEF UnwindInv, TypeOK, Resting, Remaining

\* An open position with no exit satisfies the invariant.
LEMMA InitEstablishes == Init => UnwindInv
<1> SUFFICES ASSUME Init PROVE UnwindInv
  OBVIOUS
<1>1. leg \in Legs /\ books \in [Legs -> Books]
  BY DEF Init, Legs, Books
<1>2. /\ exit \in [Legs -> Nat] /\ order \in [Legs -> Nat]
      /\ done \in [Legs -> Nat] /\ mdone \in [Legs -> Nat]
  BY DEF Init
<1>3. /\ ordAge \in [Legs -> 0..(Patience + 1)]
      /\ zeros \in [Legs -> 0..ZeroTicks] /\ mzeros \in [Legs -> 0..ZeroTicks]
  BY UnwindConstants DEF Init
<1>4. /\ status = "open" /\ immediate = FALSE /\ closes = 0 /\ pc = "idle"
      /\ todo = {} /\ phase = "orders" /\ lots = 0 /\ crashes = 0
      /\ mdone = done
  BY DEF Init
<1>5. \A l \in Legs : order[l] = 0 /\ mdone[l] = 0 /\ exit[l] = 0
  BY DEF Init
<1>6. \A l \in Legs : Entry[l] \in Nat
  BY UnwindConstants
<1>7. TypeOK
  <2>1. immediate \in BOOLEAN
    BY <1>4, Zenon
  <2>3. crashes \in 0..MaxCrashes
    BY <1>4, UnwindConstants
  <2>2. /\ status \in {"open", "unwinding", "closed"} /\ closes \in Nat
        /\ todo \subseteq Legs /\ phase \in {"orders", "ladder"} /\ lots \in Nat
    BY <1>4
  <2> QED
    BY <1>1, <1>2, <1>3, <1>4, <2>1, <2>2, <2>3 DEF TypeOK
<1>8. Resting
  <2>1. ASSUME NEW l \in Legs PROVE Remaining(l) = Entry[l]
    BY <1>5, <1>6 DEF Remaining
  <2>2. ASSUME NEW l \in Legs PROVE 0 <= Entry[l] /\ ~(order[l] > 0)
    BY <1>5, <1>6
  <2> QED
    BY <1>5, <2>1, <2>2 DEF Resting
<1>9. Started /\ InHand /\ Booked /\ ClosedIsFlat
  BY <1>4, <1>5 DEF Started, InHand, Booked, ClosedIsFlat
<1> QED
  BY <1>7, <1>8, <1>9 DEF UnwindInv

\* start_unwind changes neither the ledger nor the quantities.
LEMMA StartUnwindKeeps ==
  ASSUME UnwindInv, NEW imm \in BOOLEAN, StartUnwind(imm)
  PROVE  UnwindInv'
<1> USE UnwindConstants DEF UnwindInv, StartUnwind, ledger, flags, local, copy
<1>1. TypeOK'
  BY DEF TypeOK
<1>2. Started' /\ Resting'
  BY DEF Started, Resting, Remaining, TypeOK
<1>3. InHand' /\ Booked' /\ ClosedIsFlat'
  BY DEF InHand, Booked, ClosedIsFlat
<1> QED
  BY <1>1, <1>2, <1>3

\* A tick begins with the row's flags as its copy and ages the orders.
LEMMA BeginTickKeeps ==
  ASSUME UnwindInv, NEW d \in 1..MaxGap, NEW b \in [Legs -> BookViews],
         BeginTick(d, b)
  PROVE  UnwindInv'
<1> USE UnwindConstants DEF UnwindInv, BeginTick, row, flags
<1>1. ordAge' \in [Legs -> 0..(Patience + 1)]
  BY DEF TypeOK, Smaller
<1>2. TypeOK'
  BY <1>1 DEF TypeOK, Books
<1>3. mdone' = mdone
  BY DEF Started
<1>4. Started' /\ Resting'
  BY <1>3 DEF Started, Resting, Remaining, Style
<1>5. InHand' /\ Booked' /\ ClosedIsFlat'
  BY <1>3 DEF InHand, Booked, ClosedIsFlat
<1> QED
  BY <1>2, <1>4, <1>5

\* Turning to the next leg, or ending the tick, from a step that holds no
\* uncounted fill: whatever that step left resting still has to fit.
LEMMA TurnKeeps ==
  ASSUME UnwindInv, NextLeg \/ Forget,
         pc \in {"orders", "counted", "ladder", "sized"},
         UNCHANGED <<immediate, exit, done, crashes>>,
         zeros' \in [Legs -> 0..ZeroTicks],
         mzeros' \in [Legs -> 0..ZeroTicks],
         order' \in [Legs -> Nat], ordAge' \in [Legs -> 0..(Patience + 1)],
         \A l \in Legs : order'[l] <= Remaining(l),
         \A l \in Legs : order'[l] > 0 => Style(l) = "maker",
         status' \in {"unwinding", "closed"}, closes' \in Nat,
         status' = "closed" => \A l \in Legs : exit[l] >= Close[l]
  PROVE  UnwindInv'
<1> USE DEF UnwindInv
<1>1. mdone' = mdone /\ done' = mdone
  BY DEF NextLeg, Forget, Started, copy
<1>2. /\ pc' \in {"idle", "ladder"} /\ leg' \in Legs
      /\ phase' \in {"orders", "ladder"} /\ lots' \in Nat
      /\ todo' \subseteq Legs /\ books' \in [Legs -> Books]
  <2>1. CASE NextLeg /\ leg = "short"
    BY <2>1 DEF NextLeg, TypeOK, Legs
  <2>2. CASE Forget
    <3>1. [l \in Legs |-> "none"] \in [Legs -> Books]
      BY DEF Books
    <3> QED
      BY <2>2, <3>1 DEF Forget, Legs
  <2> QED
    BY <2>1, <2>2 DEF NextLeg
<1>3. TypeOK'
  BY <1>1, <1>2 DEF TypeOK
<1>4. Started' /\ Resting'
  BY <1>1 DEF Started, Resting, Remaining, Style
<1>5. InHand' /\ Booked' /\ ClosedIsFlat'
  BY <1>1, <1>2 DEF InHand, Booked, ClosedIsFlat
<1> QED
  BY <1>3, <1>4, <1>5

\* A fill of at most what the leg still has to exit, with nothing of the
\* leg left resting, is the only way lots reach the ledger.
LEMMA WriteFillKeeps ==
  ASSUME UnwindInv, pc \in {"marked", "expired", "sized"},
         NEW n \in Nat, n <= Remaining(leg), order[leg] = 0, WriteFill(n)
  PROVE  UnwindInv'
<1> USE DEF UnwindInv, WriteFill, row, flags, copy
<1>0. leg \in Legs /\ exit \in [Legs -> Nat] /\ mdone \in [Legs -> Nat]
  BY DEF TypeOK
<1>1. /\ exit' \in [Legs -> Nat]
      /\ \A l \in Legs : exit'[l] = exit[l] + (IF l = leg THEN n ELSE 0)
  BY <1>0
<1>2. TypeOK'
  BY <1>1 DEF TypeOK
<1>3. Started' /\ Resting' /\ InHand'
  BY DEF Started, Resting, InHand, Remaining, Style
<1>4. Booked'
  BY <1>0, <1>1 DEF Booked
<1>5. ClosedIsFlat'
  BY <1>0, <1>1, UnwindConstants DEF ClosedIsFlat
<1> QED
  BY <1>2, <1>3, <1>4, <1>5

\* The resting orders: looked at one by one, filled or converted.
LEMMA OrdersKeep == UnwindInv /\ Orders => UnwindInv'
<1> SUFFICES ASSUME UnwindInv, Orders PROVE UnwindInv'
  OBVIOUS
<1> USE DEF UnwindInv
<1>1. ASSUME NEW l \in Legs, KeepOrder(l) PROVE UnwindInv'
  <2> USE <1>1 DEF KeepOrder, row, ledger, flags, copy
  <2>1. TypeOK'
    BY DEF TypeOK
  <2>2. Started' /\ Resting'
    BY DEF Started, Resting, Remaining, Style
  <2>3. InHand' /\ Booked' /\ ClosedIsFlat'
    BY DEF InHand, Booked, ClosedIsFlat
  <2> QED
    BY <2>1, <2>2, <2>3
<1>2. ASSUME NEW l \in Legs, NEW to \in {"marked", "expired"}, Take(l, to)
      PROVE  UnwindInv'
  <2> USE <1>2 DEF Take, row, flags, copy
  <2>1. /\ order' \in [Legs -> Nat] /\ order'[l] = 0
        /\ \A k \in Legs : k # l => order'[k] = order[k]
        /\ ordAge' \in [Legs -> 0..(Patience + 1)]
        /\ order[l] \in Nat
    BY UnwindConstants DEF TypeOK
  <2>2. TypeOK'
    BY <2>1 DEF TypeOK
  <2>3. Started'
    BY DEF Started
  <2>5. Resting'
    BY <2>1, RemainingBounds DEF Resting, Remaining, Style
  <2>6. InHand'
    BY <2>1 DEF InHand, Resting, Remaining
  <2>4. Booked' /\ ClosedIsFlat'
    BY DEF Booked, ClosedIsFlat
  <2> QED
    BY <2>2, <2>3, <2>4, <2>5, <2>6
<1>3. CASE MakerFill
  BY <1>3, WriteFillKeeps DEF MakerFill, TypeOK, InHand
<1>4. ASSUME NEW n \in Walked(lots), ConvertToTaker(n) PROVE UnwindInv'
  <2>1. n \in Nat /\ Remaining(leg) \in Nat
    BY WalkedBounds, RemainingBounds DEF TypeOK
  <2>2. /\ Smaller(n, Remaining(leg)) \in Nat
        /\ Smaller(n, Remaining(leg)) <= Remaining(leg)
    BY <2>1, SmallerBounds
  <2>3. order[leg] = 0
    BY <1>4 DEF ConvertToTaker, InHand
  <2> QED
    BY <1>4, <2>2, <2>3, WriteFillKeeps DEF ConvertToTaker
<1>5. CASE ConvertFails
  <2> USE <1>5 DEF ConvertFails, row, ledger, flags, copy
  <2>1. TypeOK'
    BY DEF TypeOK
  <2>2. Started' /\ Resting' /\ InHand'
    BY DEF Started, Resting, InHand, Remaining, Style
  <2>3. Booked' /\ ClosedIsFlat'
    BY DEF Booked, ClosedIsFlat
  <2> QED
    BY <2>1, <2>2, <2>3
<1>6. CASE OrdersDone
  <2> USE <1>6 DEF OrdersDone, row, ledger, flags
  <2>1. CASE status = "unwinding"
    <3> USE <2>1
    <3>1. TypeOK'
      BY DEF TypeOK, Legs
    <3>2. Started' /\ Resting' /\ InHand'
      BY DEF Started, Resting, InHand, Remaining, Style
    <3>3. Booked' /\ ClosedIsFlat'
      BY DEF Booked, ClosedIsFlat, Started
    <3> QED
      BY <3>1, <3>2, <3>3
  <2>2. CASE status # "unwinding"
    <3>1. Forget /\ status = "closed" /\ zeros \in [Legs -> 0..ZeroTicks]
      BY <2>2 DEF Started, TypeOK
    <3>2. mzeros' \in [Legs -> 0..ZeroTicks]
      BY <3>1 DEF Forget
    <3> QED
      BY <3>1, <3>2, TurnKeeps DEF TypeOK, Resting, ClosedIsFlat
  <2> QED
    BY <2>1, <2>2
<1> QED
  BY <1>1, <1>2, <1>3, <1>4, <1>5, <1>6 DEF Orders, OrderCrossed, OrderExpires

\* add_unwind_done moves lots from the hand into the flags.
LEMMA CountFillKeeps == UnwindInv /\ CountFill => UnwindInv'
<1> SUFFICES ASSUME UnwindInv, CountFill PROVE UnwindInv'
  OBVIOUS
<1> USE DEF UnwindInv, CountFill, row, ledger
<1>1. /\ leg \in Legs /\ lots \in Nat /\ mdone \in [Legs -> Nat]
      /\ lots <= Remaining(leg) /\ order[leg] = 0
  BY DEF TypeOK, InHand
<1>2. /\ mdone' \in [Legs -> Nat]
      /\ \A l \in Legs : mdone'[l] = mdone[l] + (IF l = leg THEN lots ELSE 0)
  BY <1>1
<1>3. TypeOK'
  BY <1>2 DEF TypeOK
<1>4. Started' /\ InHand'
  BY DEF Started, InHand
<1>5. Resting'
  BY <1>1, <1>2, RemainingBounds DEF Resting, Remaining, Style
<1>6. Booked' /\ ClosedIsFlat'
  BY <1>1, <1>2 DEF Booked, ClosedIsFlat
<1> QED
  BY <1>3, <1>4, <1>5, <1>6

\* check_unwind_complete closes only what the ledger shows to be flat.
LEMMA CheckCompleteKeeps == UnwindInv /\ CheckComplete => UnwindInv'
<1> SUFFICES ASSUME UnwindInv, CheckComplete PROVE UnwindInv'
  OBVIOUS
<1> USE DEF UnwindInv, CheckComplete, ledger, flags
<1>1. \A l \in Legs : mdone[l] <= exit[l] /\ mdone[l] \in Nat /\ exit[l] \in Nat
  BY DEF Booked, TypeOK
<1>2. status \in {"unwinding", "closed"}
  BY DEF Started, TypeOK
<1>3. /\ status' \in {"unwinding", "closed"} /\ closes' \in Nat
      /\ status' = "closed" => \A l \in Legs : exit[l] >= Close[l]
  BY <1>1, <1>2, UnwindConstants DEF ClosedIsFlat, Complete, TypeOK
<1>4. CASE phase = "orders"
  <2> USE <1>4, <1>3 DEF local, copy
  <2>1. TypeOK'
    BY DEF TypeOK
  <2>2. Started' /\ Resting' /\ InHand'
    BY DEF Started, Resting, InHand, Remaining, Style
  <2>3. Booked' /\ ClosedIsFlat'
    BY DEF Booked, ClosedIsFlat
  <2> QED
    BY <2>1, <2>2, <2>3
<1>5. CASE phase # "orders"
  <2>1. NextLeg /\ mzeros' \in [Legs -> 0..ZeroTicks]
    BY <1>5 DEF NextLeg, Forget, copy, TypeOK
  <2> QED
    BY <1>3, <2>1, TurnKeeps DEF TypeOK, Resting
<1> QED
  BY <1>4, <1>5

\* Sizing a tranche: at most what the leg still has to exit.
LEMMA SizeKeeps ==
  ASSUME UnwindInv, pc = "ladder", NEW n \in Nat, n <= Remaining(leg),
         NEW streak \in 0..ZeroTicks, Size(n, streak)
  PROVE  UnwindInv'
<1> USE DEF UnwindInv, Size, row, ledger, copy
<1>1. zeros' \in [Legs -> 0..ZeroTicks] /\ done' = done
  BY DEF TypeOK, Started
<1>2. TypeOK'
  BY <1>1 DEF TypeOK
<1>3. Started' /\ Resting' /\ InHand'
  BY <1>1 DEF Started, Resting, InHand, Remaining, Style
<1>4. Booked' /\ ClosedIsFlat'
  BY DEF Booked, ClosedIsFlat
<1> QED
  BY <1>2, <1>3, <1>4

\* The tranches: sized, then rested or taken.
LEMMA TranchesKeep == UnwindInv /\ Tranches => UnwindInv'
<1> SUFFICES ASSUME UnwindInv, Tranches PROVE UnwindInv'
  OBVIOUS
<1> DEFINE R == Remaining(leg)
<1>1. /\ leg \in Legs /\ R \in Nat /\ mdone[leg] \in Nat /\ lots \in Nat
      /\ mzeros[leg] \in 0..ZeroTicks /\ mzeros \in [Legs -> 0..ZeroTicks]
      /\ Streak \in 0..ZeroTicks
  BY RemainingBounds, UnwindConstants DEF UnwindInv, TypeOK, Streak, Smaller
<1>2. CASE SkipLeg \/ MakerRests \/ TakerFails
  <2>1. /\ NextLeg /\ pc \in {"ladder", "sized"}
        /\ UNCHANGED <<row, ledger, flags, crashes>>
    BY <1>2 DEF SkipLeg, MakerRests, TakerFails
  <2>2. mzeros' \in [Legs -> 0..ZeroTicks]
    BY <1>1, <2>1 DEF NextLeg, Forget, copy, flags, UnwindInv, TypeOK
  <2>3. status \in {"unwinding", "closed"}
    BY <2>1 DEF UnwindInv, Started, TypeOK
  <2> QED
    BY <2>1, <2>2, <2>3, TurnKeeps
       DEF row, ledger, flags, UnwindInv, TypeOK, Resting, ClosedIsFlat
<1>3. CASE ImmediateTranche
  BY <1>1, <1>3, SizeKeeps DEF ImmediateTranche, Ladder
<1>4. ASSUME NEW depth \in 1..(Entry[leg] + Slip), SliceTranche(depth)
      PROVE  UnwindInv'
  <2>1. depth \in Nat /\ depth - mdone[leg] \in Nat /\ pc = "ladder"
    BY <1>1, <1>4, RemainingBounds, UnwindConstants DEF SliceTranche, Ladder
  <2>2. /\ Smaller(R, depth - mdone[leg]) \in Nat
        /\ Smaller(R, depth - mdone[leg]) <= R
    BY <1>1, <2>1, SmallerBounds
  <2>3. 0 \in 0..ZeroTicks
    BY UnwindConstants
  <2> QED
    BY <1>4, <2>1, <2>2, <2>3, SizeKeeps DEF SliceTranche
<1>5. CASE WaitThin
  <2>1. zeros' \in [Legs -> 0..ZeroTicks] /\ done' = done
    BY <1>1, <1>5 DEF WaitThin, UnwindInv, TypeOK, Started
  <2>2. NextLeg /\ pc = "ladder" /\ UNCHANGED <<row, ledger, crashes>>
    BY <1>5 DEF WaitThin, Ladder
  <2>3. mzeros' \in [Legs -> 0..ZeroTicks]
    BY <1>1, <2>1, <2>2 DEF NextLeg, Forget, copy
  <2>4. status \in {"unwinding", "closed"}
    BY <2>2 DEF UnwindInv, Started, TypeOK
  <2> QED
    BY <2>1, <2>2, <2>3, <2>4, TurnKeeps
       DEF row, ledger, UnwindInv, TypeOK, Resting, ClosedIsFlat
<1>6. CASE ExtendThin
  BY <1>1, <1>6, SizeKeeps DEF ExtendThin, Ladder
<1>7. CASE PostMaker
  <2>1. /\ NextLeg /\ pc = "sized" /\ Style(leg) = "maker"
        /\ UNCHANGED <<row, exit, flags, crashes>>
    BY <1>7 DEF PostMaker
  <2>2. lots <= Remaining(leg)
    BY <2>1 DEF UnwindInv, InHand
  <2>3. /\ order' \in [Legs -> Nat]
        /\ \A l \in Legs : order'[l] = IF l = leg THEN lots ELSE order[l]
        /\ ordAge' \in [Legs -> 0..(Patience + 1)]
    BY <1>1, <1>7, UnwindConstants DEF PostMaker, UnwindInv, TypeOK
  <2>4. mzeros' \in [Legs -> 0..ZeroTicks]
    BY <1>1, <2>1 DEF NextLeg, Forget, copy, flags, UnwindInv, TypeOK
  <2>5. status \in {"unwinding", "closed"}
    BY <2>1 DEF UnwindInv, Started, TypeOK
  <2>6. \A l \in Legs : /\ order'[l] <= Remaining(l)
                        /\ order'[l] > 0 => Style(l) = "maker"
    BY <2>1, <2>2, <2>3 DEF UnwindInv, Resting
  <2> QED
    BY <2>1, <2>3, <2>4, <2>5, <2>6, TurnKeeps
       DEF row, flags, UnwindInv, TypeOK, ClosedIsFlat
<1>8. ASSUME NEW n \in Walked(lots), TakerTranche(n) PROVE UnwindInv'
  <2>1. n \in Nat
    BY <1>1, WalkedBounds
  <2>2. Smaller(n, R) \in Nat /\ Smaller(n, R) <= R
    BY <1>1, <2>1, SmallerBounds
  <2>3. order[leg] = 0
    BY <1>1, <1>8 DEF TakerTranche, UnwindInv, Resting, TypeOK
  <2> QED
    BY <1>8, <2>2, <2>3, WriteFillKeeps DEF TakerTranche
<1> QED
  BY <1>2, <1>3, <1>4, <1>5, <1>6, <1>7, <1>8 DEF Tranches

\* A crash loses the tick, never what was committed: the fill in hand stays
\* in the ledger, uncounted.
LEMMA CrashKeeps == UnwindInv /\ Crash => UnwindInv'
<1> SUFFICES ASSUME UnwindInv, Crash PROVE UnwindInv'
  OBVIOUS
<1> USE DEF UnwindInv, Crash, row, ledger, flags
<1>1. Forget /\ mdone' = mdone /\ mzeros' = zeros
  BY DEF Forget, Started
<1>2. crashes' \in 0..MaxCrashes /\ crashes' # 0
  BY UnwindConstants DEF TypeOK
<1>3. leg' \in Legs /\ books' \in [Legs -> Books]
  BY <1>1 DEF Forget, Legs, Books
<1>4. TypeOK'
  BY <1>1, <1>2, <1>3 DEF TypeOK, Forget
<1>5. Started' /\ Resting' /\ InHand'
  BY <1>1 DEF Started, Resting, InHand, Remaining, Style, Forget
<1>6. Booked' /\ ClosedIsFlat'
  BY <1>1, <1>2 DEF Booked, ClosedIsFlat, Forget, TypeOK
<1> QED
  BY <1>4, <1>5, <1>6

\* Every step of the exit, and every stutter, preserves the invariant.
LEMMA StepKeeps == UnwindInv /\ [Next]_vars => UnwindInv'
<1> SUFFICES ASSUME UnwindInv, [Next]_vars PROVE UnwindInv'
  OBVIOUS
<1>1. CASE UNCHANGED vars
  BY <1>1 DEF vars, row, ledger, flags, local, copy, UnwindInv, TypeOK,
              Started, Resting, InHand, Booked, ClosedIsFlat, Remaining, Style
<1>2. CASE Next
  BY <1>2, StartUnwindKeeps, BeginTickKeeps, OrdersKeep, TranchesKeep,
     CountFillKeeps, CheckCompleteKeeps, CrashKeeps DEF Next, Engine
<1> QED
  BY <1>1, <1>2

(***************************************************************************)
(* The theorems.                                                           *)
(***************************************************************************)

\* The inductive invariant of the exit holds in every reachable state.
THEOREM UnwindInvariant == Spec => []UnwindInv
<1>1. Init => UnwindInv
  BY InitEstablishes
<1>2. UnwindInv /\ [Next]_vars => UnwindInv'
  BY StepKeeps
<1> QED
  BY <1>1, <1>2, PTL DEF Spec

\* Every variable of the exit keeps its type.
THEOREM UnwindTypeCorrect == Spec => []TypeOK
<1>1. UnwindInv => TypeOK
  BY DEF UnwindInv
<1> QED
  BY <1>1, UnwindInvariant, PTL

\* check_unwind_complete never closes a position the ledger shows open.
THEOREM ClosedFlat == Spec => []ClosedIsFlat
<1>1. UnwindInv => ClosedIsFlat
  BY DEF UnwindInv
<1> QED
  BY <1>1, UnwindInvariant, PTL

\* Without a crash no leg can be flipped, whatever the books do.
THEOREM ExitBounded == Spec => []ExitWithinEntry
<1>1. UnwindInv => ExitWithinEntry
  <2> SUFFICES ASSUME UnwindInv, crashes = 0, NEW l \in Legs
               PROVE  exit[l] + order[l] <= Entry[l]
    BY DEF ExitWithinEntry
  <2>1. /\ exit[l] \in Nat /\ order[l] \in Nat /\ lots \in Nat
        /\ order[l] <= Entry[l] - mdone[l]
        /\ mdone[l] \in Nat /\ Entry[l] \in Nat
    BY RemainingBounds DEF UnwindInv, TypeOK, Resting
  <2>2. CASE pc = "written" /\ l = leg
    BY <2>1, <2>2, RemainingBounds DEF UnwindInv, InHand, Booked
  <2>3. CASE ~(pc = "written" /\ l = leg)
    BY <2>1, <2>3 DEF UnwindInv, Booked
  <2> QED
    BY <2>2, <2>3
<1> QED
  BY <1>1, UnwindInvariant, PTL
=============================================================================
