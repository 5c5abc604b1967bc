----------------------------- MODULE EntryProofs -----------------------------
(***************************************************************************)
(* Machine-checked theorems about EntrySequence, for every value of its    *)
(* constants: the properties of EntryProps hold, and the commits of the    *)
(* engine implement HedgedEntry.  All of them rest on EntryInv being       *)
(* inductive, shown action by action.                                      *)
(***************************************************************************)
EXTENDS EntryProps, TLAPS

\* Elapsed time saturates just past its limit and never runs backwards.
LEMMA AfterSaturates ==
  ASSUME NEW limit \in Nat, NEW t \in 0..(limit + 1), NEW d \in Nat
  PROVE  After(t, d, limit) \in t..(limit + 1)
  BY DEF After

\* A walk returns something, at most what was asked, and all of it when
\* books are deep.
LEMMA WalkedBounds ==
  ASSUME NEW n \in Nat \ {0}, NEW lots \in Walked(n)
  PROVE  lots \in 1..n /\ (~ThinBooks => lots = n)
  BY EntryConstants DEF Walked

\* The clamps never enlarge the size and never admit an empty one.
LEMMA GatedBounds ==
  ASSUME NEW lots \in GatedSizes
  PROVE  lots \in 1..Target
  BY EntryConstants DEF GatedSizes

LEMMA InitEstablishes == Init => EntryInv
<1> SUFFICES ASSUME Init PROVE EntryInv
  OBVIOUS
<1> USE EntryConstants DEF Init, NoDeadline
<1>0. resting \in BOOLEAN
  BY Zenon
<1>1. TypeOK
  BY <1>0 DEF TypeOK, PcStates, Views, AgeCap
<1>2. WhereTheTickIs
  BY DEF WhereTheTickIs
<1>3. WhatTheRowSays
  BY DEF WhatTheRowSays, Unfilled
<1>4. LongTakenOnce /\ WholeFills
  BY DEF LongTakenOnce, WholeFills
<1> QED
  BY <1>1, <1>2, <1>3, <1>4 DEF EntryInv

\* Starting and ending a tick only moves the clocks.
LEMMA TickKeeps == EntryInv /\ Tick => EntryInv'
<1> SUFFICES ASSUME EntryInv, Tick PROVE EntryInv'
  OBVIOUS
<1> USE EntryConstants DEF EntryInv, TypeOK, WhereTheTickIs, WhatTheRowSays, LongTakenOnce,
             WholeFills, Unfilled, Naked, Hedged, NoDeadline, PcStates
<1>1. ASSUME NEW d \in 1..MaxGap, NEW s \in ShortViews, NEW l \in LongViews,
             BeginTick(d, s, l)
      PROVE  EntryInv'
  <2>1. d \in Nat /\ AgeCap \in Nat /\ s \in Views
    BY DEF AgeCap
  <2>2. After(ordAge, d, MakerPatience) \in ordAge..(MakerPatience + 1)
    BY <2>1, AfterSaturates
  <2>3. deadline # NoDeadline
          => After(deadline, d, LeggingCap) \in deadline..(LeggingCap + 1)
    BY <2>1, AfterSaturates
  <2>4. After(age, d, AgeCap) \in age..(AgeCap + 1)
    BY <2>1, AfterSaturates
  <2>5. ordAge' \in 0..(MakerPatience + 1)
    BY <1>1, <2>2 DEF BeginTick
  <2>6. deadline' \in {NoDeadline} \cup 0..(LeggingCap + 1)
    BY <1>1, <2>3 DEF BeginTick
  <2>7. deadline' = NoDeadline <=> deadline = NoDeadline
    BY <1>1, <2>3 DEF BeginTick
  <2>8. age' \in 0..(AgeCap + 1)
    BY <1>1, <2>4 DEF BeginTick
  <2>9. pc' \in {"advance", "gate"} /\ (pc' = "advance" => status = "seq_open")
    BY <1>1 DEF BeginTick, Goto
  <2>10. UNCHANGED <<status, size, short, long, resting, reposts, crashes>>
    BY <1>1 DEF BeginTick, row
  <2>11. sview' \in Views /\ lview' \in {"none", "hollow", "live"}
    BY <1>1, <2>1 DEF BeginTick
  <2>12. TypeOK'
    BY <2>5, <2>6, <2>8, <2>9, <2>10, <2>11
  <2>13. WhereTheTickIs' /\ WhatTheRowSays'
    BY <2>7, <2>9, <2>10
  <2>14. LongTakenOnce' /\ WholeFills'
    BY <1>1, <2>10 DEF BeginTick, Goto
  <2> QED
    BY <2>12, <2>13, <2>14
<1>2. CASE EndTick
  BY <1>2 DEF EndTick, row, order, view, Goto
<1> QED
  BY <1>1, <1>2 DEF Tick

\* start_entry.
LEMMA EnteringKeeps == EntryInv /\ Entering => EntryInv'
<1> SUFFICES ASSUME EntryInv, Entering PROVE EntryInv'
  OBVIOUS
<1> USE EntryConstants DEF EntryInv, TypeOK, WhereTheTickIs, WhatTheRowSays, LongTakenOnce,
             WholeFills, Unfilled, Naked, Hedged, NoDeadline, PcStates
<1>1. ASSUME NEW seq \in {"tt", "sm_lt"}, NEW lots \in GatedSizes,
             StartEntry(seq, lots)
      PROVE  EntryInv'
  <2>1. lots \in 1..Target
    BY GatedBounds
  <2>2. resting' \in BOOLEAN
    BY <1>1, Zenon DEF StartEntry
  <2> QED
    BY <1>1, <2>1, <2>2 DEF StartEntry, row, order, view, Goto, AgeCap
<1>2. CASE EntryBookMissing
  BY <1>2 DEF EntryBookMissing, row, order, view, Goto
<1>3. ASSUME NEW lots \in Walked(size), ShortTaker(lots) PROVE EntryInv'
  <2>1. status = "seq_open" /\ size \in 1..Target
    BY <1>3 DEF ShortTaker, Goto
  <2>2. lots \in 1..size /\ (~ThinBooks => lots = size)
    BY <2>1, WalkedBounds
  <2> QED
    BY <1>3, <2>1, <2>2 DEF ShortTaker, row, order, view, Goto
<1>4. CASE ShortTakerFails
  BY <1>4 DEF ShortTakerFails, row, order, view, Goto
<1>5. ASSUME NEW lots \in Walked(size), TtLongTaker(lots) PROVE EntryInv'
  <2>1. status = "seq_open" /\ size \in 1..Target
    BY <1>5 DEF TtLongTaker, Goto
  <2>2. lots \in 1..size /\ (~ThinBooks => lots = size)
    BY <2>1, WalkedBounds
  <2> QED
    BY <1>5, <2>1, <2>2 DEF TtLongTaker, row, order, view, Goto
<1>6. CASE TtLongFails
  BY <1>6 DEF TtLongFails, row, order, view, Goto
<1>7. CASE PostShortMaker
  BY <1>7 DEF PostShortMaker, row, order, view, Goto
<1> QED
  BY <1>1, <1>2, <1>3, <1>4, <1>5, <1>6, <1>7 DEF Entering

\* advance_resting and on_maker_filled.
LEMMA AdvancingKeeps == EntryInv /\ Advancing => EntryInv'
<1> SUFFICES ASSUME EntryInv, Advancing PROVE EntryInv'
  OBVIOUS
<1> USE EntryConstants DEF EntryInv, TypeOK, WhereTheTickIs, WhatTheRowSays, LongTakenOnce,
             WholeFills, Unfilled, Naked, Hedged, NoDeadline, PcStates
<1>1. CASE NothingToAdvance
  BY <1>1 DEF NothingToAdvance, row, order, view, Goto
<1>2. CASE MarkFilled
  <2>0. resting' \in BOOLEAN
    BY <1>2, Zenon DEF MarkFilled
  <2>1. TypeOK'
    BY <1>2, <2>0 DEF MarkFilled, row, order, view, Goto
  <2>2. WhereTheTickIs'
    BY <1>2 DEF MarkFilled, row, order, view, Goto
  <2>3. WhatTheRowSays'
    BY <1>2 DEF MarkFilled, row, order, view, Goto
  <2>4. LongTakenOnce' /\ WholeFills'
    BY <1>2 DEF MarkFilled, row, order, view, Goto
  <2> QED
    BY <2>1, <2>2, <2>3, <2>4
<1>3. CASE WriteShortFill
  BY <1>3 DEF WriteShortFill, row, order, view, Goto
<1>4. CASE ArmDeadline
  BY <1>4 DEF ArmDeadline, row, order, view, Goto
<1>5. ASSUME NEW lots \in Walked(Target), MakerLong(lots) PROVE EntryInv'
  <2>1. lots \in 1..Target /\ (~ThinBooks => lots = Target)
    BY WalkedBounds
  <2> QED
    BY <1>5, <2>1 DEF MakerLong, TakeLong, row, order, view, Goto
<1>6. CASE MakerLongFails
  BY <1>6 DEF MakerLongFails, row, order, view, Goto
<1>7. CASE Withdraw
  <2>0. resting' \in BOOLEAN
    BY <1>7, Zenon DEF Withdraw
  <2>1. TypeOK'
    BY <1>7, <2>0 DEF Withdraw, Stale, row, order, view, Goto
  <2>2. WhereTheTickIs'
    BY <1>7 DEF Withdraw, Stale, row, order, view, Goto
  <2>3. WhatTheRowSays'
    BY <1>7 DEF Withdraw, Stale, row, order, view, Goto
  <2>4. LongTakenOnce' /\ WholeFills'
    BY <1>7 DEF Withdraw, Stale, row, order, view, Goto
  <2> QED
    BY <2>1, <2>2, <2>3, <2>4
<1>8. CASE Repost
  BY <1>8 DEF Repost, row, order, view, Goto
<1> QED
  BY <1>1, <1>2, <1>3, <1>4, <1>5, <1>6, <1>7, <1>8 DEF Advancing

\* enforce_legging_cap and check_entry_patience.
LEMMA EnforcingKeeps == EntryInv /\ Enforcing => EntryInv'
<1> SUFFICES ASSUME EntryInv, Enforcing PROVE EntryInv'
  OBVIOUS
<1> USE EntryConstants DEF EntryInv, TypeOK, WhereTheTickIs, WhatTheRowSays, LongTakenOnce,
             WholeFills, Unfilled, Naked, Hedged, NoDeadline, PcStates
<1>1. CASE NoDeadlinePending
  BY <1>1 DEF NoDeadlinePending, row, order, view, Goto
<1>2. ASSUME NEW lots \in Walked(Target), RetryLong(lots) PROVE EntryInv'
  <2>1. lots \in 1..Target /\ (~ThinBooks => lots = Target)
    BY WalkedBounds
  <2> QED
    BY <1>2, <2>1 DEF RetryLong, TakeLong, row, order, view, Goto
<1>3. CASE RetryFails
  BY <1>3 DEF RetryFails, row, order, view, Goto
<1>4. ASSUME NEW lots \in Walked(Target), ForceLong(lots) PROVE EntryInv'
  <2>1. lots \in 1..Target /\ (~ThinBooks => lots = Target)
    BY WalkedBounds
  <2> QED
    BY <1>4, <2>1 DEF ForceLong, TakeLong, row, order, view, Goto
<1>5. CASE ForceFails
  BY <1>5 DEF ForceFails, row, order, view, Goto
<1>6. CASE ForceGivesUp
  BY <1>6 DEF ForceGivesUp, row, order, view, Goto
<1>7. CASE ClearDeadline
  BY <1>7 DEF ClearDeadline, row, order, view, Goto
<1>8. CASE FinishOpen
  BY <1>8 DEF FinishOpen, row, order, view, Goto
<1>9. CASE PatienceHolds
  BY <1>9 DEF PatienceHolds, row, order, view, Goto
<1>10. CASE PatienceExpires
  <2>0. resting' \in BOOLEAN
    BY <1>10, Zenon DEF PatienceExpires
  <2>1. TypeOK'
    BY <1>10, <2>0 DEF PatienceExpires, row, order, view, Goto
  <2>2. WhereTheTickIs'
    BY <1>10 DEF PatienceExpires, row, order, view, Goto
  <2>3. WhatTheRowSays'
    BY <1>10 DEF PatienceExpires, row, order, view, Goto
  <2>4. LongTakenOnce' /\ WholeFills'
    BY <1>10 DEF PatienceExpires, row, order, view, Goto
  <2> QED
    BY <2>1, <2>2, <2>3, <2>4
<1>11. CASE Defer
  BY <1>11 DEF Defer, row, order, view, Goto
<1> QED
  BY <1>1, <1>2, <1>3, <1>4, <1>5, <1>6, <1>7, <1>8, <1>9, <1>10, <1>11 DEF Enforcing

\* A crash forgets where the tick was; the row alone still satisfies the
\* invariant.
LEMMA CrashKeeps == EntryInv /\ Crash => EntryInv'
  BY EntryConstants
     DEF Crash, EntryInv, TypeOK, WhereTheTickIs, WhatTheRowSays, LongTakenOnce,
         WholeFills, Unfilled, Naked, Hedged, NoDeadline, PcStates, row, order, view

LEMMA StutterKeeps == EntryInv /\ UNCHANGED vars => EntryInv'
  BY DEF vars, EntryInv, TypeOK, WhereTheTickIs, WhatTheRowSays, LongTakenOnce,
         WholeFills, Unfilled, Naked, Hedged, row, order, view

\* EntryInv holds in every reachable state.
THEOREM EntryInvariant == Spec => []EntryInv
<1>1. EntryInv /\ [Next]_vars => EntryInv'
  BY TickKeeps, EnteringKeeps, AdvancingKeeps, EnforcingKeeps, CrashKeeps,
     StutterKeeps DEF Next, Engine
<1> QED
  BY InitEstablishes, <1>1, PTL DEF Spec

\* The model's types, the saturation of its clocks included.
THEOREM TypeCorrect == Spec => []TypeOK
<1>1. EntryInv => TypeOK
  BY DEF EntryInv
<1> QED
  BY EntryInvariant, <1>1, PTL

\* No position is declared open with a leg missing, crashes included.
THEOREM OpenHedged == Spec => []OpenIsHedged
<1>1. EntryInv => OpenIsHedged
  BY DEF EntryInv, WhatTheRowSays, OpenIsHedged, Hedged
<1> QED
  BY EntryInvariant, <1>1, PTL

\* No entry is given up while it holds a fill, crashes included.
THEOREM CancelledFlat == Spec => []CancelledIsFlat
<1>1. EntryInv => CancelledIsFlat
  BY DEF EntryInv, WhatTheRowSays, CancelledIsFlat, Unfilled
<1> QED
  BY EntryInvariant, <1>1, PTL

\* The short leg is booked once, never beyond the gated size.
THEOREM ShortOnce == Spec => []ShortFilledOnce
<1>1. EntryInv => ShortFilledOnce
  BY DEF EntryInv, WhatTheRowSays, ShortFilledOnce, Unfilled
<1> QED
  BY EntryInvariant, <1>1, PTL

\* Until the first crash the long leg is taken at most once.
THEOREM LongOnce == Spec => []LongOnceWithoutCrash
<1>1. EntryInv => LongOnceWithoutCrash
  BY DEF EntryInv, LongTakenOnce, LongOnceWithoutCrash
<1> QED
  BY EntryInvariant, <1>1, PTL

\* The conditions under which an open position is delta-neutral.
THEOREM Balanced == Spec => []BalancedWhenUnclamped
<1>1. EntryInv => BalancedWhenUnclamped
  BY DEF EntryInv, WholeFills, WhatTheRowSays, Hedged, BalancedWhenUnclamped
<1> QED
  BY EntryInvariant, <1>1, PTL

\* The legging cap is never pushed back.
THEOREM CapMonotone == Spec => CapNeverExtended
<1> DEFINE Kept == deadline # NoDeadline /\ deadline' # NoDeadline
                     => deadline' >= deadline
<1>1. ASSUME EntryInv, Next PROVE Kept
  <2> USE <1>1 DEF EntryInv, TypeOK, NoDeadline
  <2>1. CASE Tick
    <3>1. CASE EndTick
      BY <3>1 DEF EndTick
    <3>2. ASSUME NEW d \in 1..MaxGap, NEW s \in ShortViews,
                 NEW l \in LongViews, BeginTick(d, s, l)
          PROVE  Kept
      <4>1. d \in Nat /\ LeggingCap \in Nat
        BY EntryConstants
      <4>2. deadline # NoDeadline
              => After(deadline, d, LeggingCap) \in deadline..(LeggingCap + 1)
        BY <4>1, AfterSaturates
      <4> QED
        BY <3>2, <4>2 DEF BeginTick
    <3> QED
      BY <2>1, <3>1, <3>2 DEF Tick
  <2>2. CASE Entering
    <3>1. ASSUME NEW seq \in {"tt", "sm_lt"}, NEW lots \in GatedSizes,
                 StartEntry(seq, lots)
          PROVE  Kept
      BY <3>1 DEF StartEntry
    <3>2. TtLongFails => Kept
      BY DEF TtLongFails, Goto, WhereTheTickIs
    <3> QED
      BY <2>2, <3>1, <3>2 DEF Entering, EntryBookMissing, ShortTaker,
         ShortTakerFails, TtLongTaker, PostShortMaker
  <2>3. CASE Advancing
    <3>1. ArmDeadline => Kept
      BY DEF ArmDeadline, Goto, WhereTheTickIs
    <3> QED
      BY <2>3, <3>1 DEF Advancing, NothingToAdvance, MarkFilled,
         WriteShortFill, MakerLong, MakerLongFails, TakeLong, Withdraw, Repost
  <2>4. CASE Enforcing
    BY <2>4 DEF Enforcing, NoDeadlinePending, RetryLong, RetryFails, ForceLong,
       ForceFails, ForceGivesUp, ClearDeadline, FinishOpen, PatienceHolds,
       PatienceExpires, Defer, TakeLong
  <2>5. CASE Crash
    BY <2>5 DEF Crash
  <2> QED
    BY <1>1, <2>1, <2>2, <2>3, <2>4, <2>5 DEF Next, Engine
<1>2. EntryInv /\ [Next]_vars => [Kept]_vars
  BY <1>1
<1> QED
  BY EntryInvariant, <1>2, PTL DEF Spec, CapNeverExtended

(***************************************************************************)
(* Refinement: every commit is a step of HedgedEntry or leaves its         *)
(* variables alone.                                                        *)
(***************************************************************************)
LEMMA NextImplements ==
  ASSUME EntryInv, Next
  PROVE  [Promise!HNext]_(Promise!hvars)
<1> USE DEF EntryInv, TypeOK, WhereTheTickIs, WhatTheRowSays, Unfilled, Naked,
        Hedged, Goto, Promise!hvars
<1>1. CASE Tick
  BY <1>1 DEF Tick, BeginTick, EndTick, row
<1>2. CASE Entering
  <2>1. ASSUME NEW seq \in {"tt", "sm_lt"}, NEW lots \in GatedSizes,
               StartEntry(seq, lots)
        PROVE  Promise!Begin
    BY <2>1 DEF StartEntry, Promise!Begin
  <2>2. EntryBookMissing \/ ShortTakerFails => Promise!GiveUp
    BY DEF EntryBookMissing, ShortTakerFails, Promise!GiveUp
  <2>3. ASSUME NEW lots \in Walked(size), ShortTaker(lots)
        PROVE  Promise!FillShort
    <3>1. status = "seq_open" /\ size \in Nat \ {0}
      BY <2>3, EntryConstants DEF ShortTaker
    <3>2. lots > 0
      BY <3>1, WalkedBounds
    <3> QED
      BY <2>3, <3>1, <3>2 DEF ShortTaker, Promise!FillShort
  <2>4. ASSUME NEW lots \in Walked(size), TtLongTaker(lots)
        PROVE  Promise!FillLong
    <3>1. status = "seq_open" /\ size \in Nat \ {0}
      BY <2>4, EntryConstants DEF TtLongTaker
    <3>2. lots > 0
      BY <3>1, WalkedBounds
    <3> QED
      BY <2>4, <3>1, <3>2 DEF TtLongTaker, Promise!FillLong
  <2>5. TtLongFails \/ PostShortMaker => UNCHANGED Promise!hvars
    BY DEF TtLongFails, PostShortMaker, row
  <2> QED
    BY <1>2, <2>1, <2>2, <2>3, <2>4, <2>5 DEF Entering, Promise!HNext
<1>3. ASSUME NEW lots \in Walked(Target), TakeLong(lots),
             status = "seq_open", short > 0
      PROVE  Promise!FillLong
  <2>1. lots \in 1..Target
    BY EntryConstants, WalkedBounds
  <2> QED
    BY <1>3, <2>1, EntryConstants DEF TakeLong, Promise!FillLong
<1>4. CASE Advancing
  <2>1. WriteShortFill => Promise!FillShort
    BY DEF WriteShortFill, Promise!FillShort
  <2>2. ASSUME NEW lots \in Walked(Target), MakerLong(lots)
        PROVE  Promise!FillLong
    BY <1>3, <2>2 DEF MakerLong
  <2>3. NothingToAdvance \/ MarkFilled \/ ArmDeadline \/ MakerLongFails
          \/ Withdraw \/ Repost => UNCHANGED Promise!hvars
    BY DEF NothingToAdvance, MarkFilled, ArmDeadline, MakerLongFails, Withdraw,
           Repost, row
  <2> QED
    BY <1>4, <2>1, <2>2, <2>3 DEF Advancing, Promise!HNext
<1>5. CASE Enforcing
  <2>1. ASSUME NEW lots \in Walked(Target), RetryLong(lots)
        PROVE  Promise!FillLong
    BY <1>3, <2>1 DEF RetryLong, NoDeadline
  <2>2. ASSUME NEW lots \in Walked(Target), ForceLong(lots)
        PROVE  Promise!FillLong
    <3>1. deadline # NoDeadline
      BY <2>2, EntryConstants DEF ForceLong, NoDeadline
    <3> QED
      BY <1>3, <2>2, <3>1 DEF ForceLong
  <2>3. FinishOpen => Promise!Settle
    BY DEF FinishOpen, Promise!Settle
  <2>4. Defer => Promise!GiveUp
    BY DEF Defer, Promise!GiveUp
  <2>5. NoDeadlinePending \/ RetryFails \/ ForceFails \/ ForceGivesUp
          \/ ClearDeadline \/ PatienceHolds \/ PatienceExpires
          => UNCHANGED Promise!hvars
    BY DEF NoDeadlinePending, RetryFails, ForceFails, ForceGivesUp,
           ClearDeadline, PatienceHolds, PatienceExpires, row
  <2> QED
    BY <1>5, <2>1, <2>2, <2>3, <2>4, <2>5 DEF Enforcing, Promise!HNext
<1>6. CASE Crash
  BY <1>6 DEF Crash, row
<1> QED
  BY <1>1, <1>2, <1>4, <1>5, <1>6 DEF Next, Engine

\* The engine implements HedgedEntry: short first and once, open only when
\* hedged, cancelled only when flat, whatever crashes come.
THEOREM EntryImplementsPromise == Spec => ImplementsHedgedEntry
<1>1. Init => Promise!HInit
  BY DEF Init, Promise!HInit
<1>2. EntryInv /\ [Next]_vars => [Promise!HNext]_(Promise!hvars)
  BY NextImplements DEF vars, row, Promise!hvars
<1> QED
  BY EntryInvariant, <1>1, <1>2, PTL
     DEF Spec, ImplementsHedgedEntry, Promise!HSpec
=============================================================================
