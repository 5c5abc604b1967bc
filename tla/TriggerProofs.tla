---------------------------- MODULE TriggerProofs -----------------------------
(***************************************************************************)
(* Triggers, for any spacings and streak lengths, with any number of       *)
(* crashes and an operator's command at any moment: what the flags, and    *)
(* every stale copy of them, count is what the monitor has counted.        *)
(***************************************************************************)
EXTENDS TriggerProps, TLAPS

TriggerType ==
  /\ flags \in Flags /\ copy \in Flags /\ cmdCopy \in Flags
  /\ counted \in [thin : Nat, inverted : Nat]

\* The streaks in f are no longer than what has been counted.
Earned(f) == f.comp <= counted.thin /\ f.inv <= counted.inverted

TriggerInv ==
  /\ TriggerType
  /\ Earned(flags) /\ Earned(copy) /\ Earned(cmdCopy)
  /\ StreaksAreEarned

-----------------------------------------------------------------------------
LEMMA SmallerGrows ==
  ASSUME NEW a \in Nat, NEW b \in Nat, NEW n \in Nat \ {0}, a <= b
  PROVE  /\ Smaller(a + 1, n) \in Nat
         /\ Smaller(a + 1, n) <= Smaller(b + 1, n)
BY DEF Smaller

LEMMA ExitKeepsStreaks ==
  ASSUME NEW f \in Flags, NEW r
  PROVE  ExitFor(f, r) \in Flags /\ ExitFor(f, r).comp = f.comp /\ ExitFor(f, r).inv = f.inv
BY DEF ExitFor, Flags

LEMMA NoFlagsType == NoFlags \in Flags /\ NoFlags.comp = 0 /\ NoFlags.inv = 0
BY DEF NoFlags, Flags

\* What lies within the old counts lies within the new ones: they only grow, up to
\* the streak lengths, and no streak in the flags counts beyond those.
CountsCapped == counted.thin <= CompN /\ counted.inverted <= InvN

\* One check counted into a copy of the flags that was earned.
LEMMA CountedTogether ==
  ASSUME TriggerType, CountsCapped, Earned(copy)
  PROVE  /\ Streaks \in Flags
         /\ Counted \in [thin : Nat, inverted : Nat]
         /\ Streaks.comp <= Counted.thin /\ Streaks.inv <= Counted.inverted
         /\ counted.thin <= Counted.thin /\ counted.inverted <= Counted.inverted
         /\ Counted.thin <= CompN /\ Counted.inverted <= InvN
<1> DEFINE c == IF spread = "thin" THEN Smaller(copy.comp + 1, CompN) ELSE 0
           i == IF spread = "inverted" THEN Smaller(copy.inv + 1, InvN) ELSE 0
           t == IF spread = "thin" THEN Smaller(counted.thin + 1, CompN) ELSE counted.thin
           v == IF spread = "inverted" THEN Smaller(counted.inverted + 1, InvN) ELSE counted.inverted
<1>1. /\ copy \in Flags /\ copy.comp \in Nat /\ copy.inv \in Nat
      /\ counted.thin \in Nat /\ counted.inverted \in Nat
      /\ CompN \in Nat \ {0} /\ InvN \in Nat \ {0}
  BY TriggerConstants DEF TriggerType, Flags
<1>2. c \in Nat /\ t \in Nat /\ c <= t /\ counted.thin <= t /\ t <= CompN
  BY <1>1 DEF Smaller, Earned, CountsCapped
<1>3. i \in Nat /\ v \in Nat /\ i <= v /\ counted.inverted <= v /\ v <= InvN
  BY <1>1 DEF Smaller, Earned, CountsCapped
<1>4. Streaks = [copy EXCEPT !.comp = c, !.inv = i] /\ Counted = [thin |-> t, inverted |-> v]
  BY DEF Streaks, Counted
<1> HIDE DEF c, i, t, v
<1>5. Streaks \in Flags /\ Streaks.comp = c /\ Streaks.inv = i
  BY <1>1, <1>2, <1>3, <1>4 DEF Flags
<1> QED
  BY <1>2, <1>3, <1>4, <1>5

LEMMA TriggersInitially == Init => TriggerInv /\ CountsCapped
BY TriggerConstants, NoFlagsType DEF Init, TriggerInv, TriggerType, CountsCapped, Earned, StreaksAreEarned

LEMMA CompressionKeeps ==
  TriggerInv /\ CountsCapped /\ CompressionCheck => TriggerInv' /\ CountsCapped'
<1> SUFFICES ASSUME TriggerInv, CountsCapped, CompressionCheck PROVE TriggerInv' /\ CountsCapped'
  OBVIOUS
<1>1. flags' = Streaks /\ counted' = Counted /\ cmdCopy' = cmdCopy
  BY DEF CompressionCheck, command
<1>2. /\ copy' = copy
      /\ \/ flags'.comp >= CompN /\ why' = "compression"
         \/ flags'.inv >= InvN /\ why' = "inverted"
         \/ why' = "none"
  BY DEF CompressionCheck, Here, Fire, EndOf, Follow
<1>3. /\ Streaks \in Flags
      /\ Counted \in [thin : Nat, inverted : Nat]
      /\ Streaks.comp <= Counted.thin /\ Streaks.inv <= Counted.inverted
      /\ counted.thin <= Counted.thin /\ counted.inverted <= Counted.inverted
      /\ Counted.thin <= CompN /\ Counted.inverted <= InvN
  BY CountedTogether DEF TriggerInv
<1>4. TriggerType' /\ CountsCapped'
  BY <1>1, <1>2, <1>3 DEF TriggerInv, TriggerType, CountsCapped
<1>5. Earned(flags)'
  BY <1>1, <1>3 DEF Earned
<1>6. ASSUME NEW f \in Flags, Earned(f)
      PROVE  f.comp <= Counted.thin /\ f.inv <= Counted.inverted
  BY <1>3, <1>6 DEF Earned, Flags, TriggerInv, TriggerType
<1>7. Earned(copy)' /\ Earned(cmdCopy)'
  BY <1>1, <1>2, <1>6 DEF Earned, TriggerInv, TriggerType
<1>8. StreaksAreEarned'
  <2>1. Streaks.comp \in Nat /\ Streaks.inv \in Nat /\ Counted.thin \in Nat /\ Counted.inverted \in Nat
    BY <1>3 DEF Flags
  <2> QED
    BY <1>1, <1>2, <1>3, <2>1, TriggerConstants DEF StreaksAreEarned
<1> QED
  BY <1>4, <1>5, <1>7, <1>8 DEF TriggerInv

\* Every other step counts nothing, and leaves in flags and the copies what one of
\* them held, or nothing.
LEMMA CopiesKeep ==
  ASSUME TriggerInv, CountsCapped, counted' = counted,
         flags' \in Flags /\ copy' \in Flags /\ cmdCopy' \in Flags,
         \E f \in {flags, copy, cmdCopy} : flags'.comp = f.comp /\ flags'.inv = f.inv,
         copy' \in {flags, copy, NoFlags}, cmdCopy' \in {flags, cmdCopy, NoFlags},
         why' = why \/ why' \notin {"compression", "inverted"}
  PROVE  TriggerInv' /\ CountsCapped'
<1>1. counted.thin \in Nat /\ counted.inverted \in Nat
  BY DEF TriggerInv, TriggerType
<1>2. Earned(flags)' /\ Earned(copy)' /\ Earned(cmdCopy)'
  BY <1>1, NoFlagsType DEF TriggerInv, Earned
<1> QED
  BY <1>2 DEF TriggerInv, TriggerType, CountsCapped, StreaksAreEarned

LEMMA EngineKeeps ==
  TriggerInv /\ CountsCapped /\ Engine => TriggerInv' /\ CountsCapped'
<1> SUFFICES ASSUME TriggerInv, CountsCapped, Engine PROVE TriggerInv' /\ CountsCapped'
  OBVIOUS
<1> USE DEF row, tick, command, market, history
<1>0. flags \in Flags /\ copy \in Flags /\ cmdCopy \in Flags
  BY DEF TriggerInv, TriggerType
<1>1. ASSUME NEW s \in Spreads, NEW d \in Listed, NEW a \in BOOLEAN, BeginTriggers(s, d, a)
      PROVE  TriggerInv' /\ CountsCapped'
  <2>1. counted' = counted /\ flags' = flags /\ copy' = flags /\ cmdCopy' = cmdCopy /\ why' = "none"
    BY <1>1 DEF BeginTriggers
  <2> QED
    BY <1>0, <2>1, CopiesKeep
<1>2. ASSUME \/ \E check \in Checks : Skip(check) \/ Stamp(check)
             \/ FloorUnchanged \/ FloorChanged \/ ListingsChecked
             \/ NoSlope \/ \E below \in BOOLEAN : Slope(below)
      PROVE  TriggerInv' /\ CountsCapped'
  <2>1. /\ counted' = counted /\ flags' = flags /\ cmdCopy' = cmdCopy
        /\ copy' \in {copy, NoFlags}
        /\ why' = why \/ why' \in {"none", "floor", "decay"}
    BY <1>2 DEF Skip, Stamp, FloorUnchanged, FloorChanged, ListingsChecked, NoSlope, Slope, EndOf, Fire
  <2> QED
    BY <1>0, <2>1, NoFlagsType, CopiesKeep
<1>3. CASE StartUnwindFlags
  <2>1. /\ counted' = counted /\ flags' = ExitFor(copy, why) /\ cmdCopy' = cmdCopy /\ copy' = copy /\ why' = why
    BY <1>3 DEF StartUnwindFlags
  <2>2. flags' \in Flags /\ flags'.comp = copy.comp /\ flags'.inv = copy.inv
    BY <1>0, <2>1, ExitKeepsStreaks
  <2> QED
    BY <1>0, <2>1, <2>2, CopiesKeep
<1>4. CASE StartUnwindStatus
  <2>1. /\ counted' = counted /\ flags' = flags /\ cmdCopy' = cmdCopy
        /\ copy' \in {copy, NoFlags} /\ why' = "none"
    BY <1>4 DEF StartUnwindStatus, EndOf
  <2> QED
    BY <1>0, <2>1, NoFlagsType, CopiesKeep
<1> QED
  BY <1>1, <1>2, <1>3, <1>4, CompressionKeeps DEF Engine

LEMMA OthersKeep ==
  TriggerInv /\ CountsCapped /\ (CmdRead \/ CmdFlags \/ CmdStatus \/ Crash \/ UNCHANGED vars)
    => TriggerInv' /\ CountsCapped'
<1> SUFFICES ASSUME TriggerInv, CountsCapped, CmdRead \/ CmdFlags \/ CmdStatus \/ Crash \/ UNCHANGED vars
             PROVE  TriggerInv' /\ CountsCapped'
  OBVIOUS
<1> USE DEF row, tick, command, market, history
<1>0. flags \in Flags /\ copy \in Flags /\ cmdCopy \in Flags
  BY DEF TriggerInv, TriggerType
<1>1. CASE CmdFlags
  <2>1. /\ counted' = counted /\ flags' = ExitFor(cmdCopy, "manual") /\ cmdCopy' = NoFlags
        /\ copy' = copy /\ why' = why
    BY <1>1 DEF CmdFlags
  <2>2. flags' \in Flags /\ flags'.comp = cmdCopy.comp /\ flags'.inv = cmdCopy.inv
    BY <1>0, <2>1, ExitKeepsStreaks
  <2> QED
    BY <1>0, <2>1, <2>2, NoFlagsType, CopiesKeep
<1>2. CASE CmdRead \/ CmdStatus \/ Crash \/ UNCHANGED vars
  <2>1. /\ counted' = counted /\ flags' = flags /\ cmdCopy' \in {cmdCopy, flags}
        /\ copy' \in {copy, NoFlags} /\ why' \in {why, "none"}
    BY <1>2 DEF CmdRead, CmdStatus, Crash, vars
  <2> QED
    BY <1>0, <2>1, NoFlagsType, CopiesKeep
<1> QED
  BY <1>1, <1>2

\* The inductive invariant of the monitors' counts: the flags and every copy of
\* them stay within what has been counted.
THEOREM TriggerInvariant == Spec => [](TriggerInv /\ CountsCapped)
<1>1. TriggerInv /\ CountsCapped /\ [Next]_vars => (TriggerInv /\ CountsCapped)'
  BY EngineKeeps, OthersKeep DEF Next
<1> QED
  BY <1>1, TriggersInitially, PTL DEF Spec

\* A compression or inversion exit stands on that many counted checks, whatever
\* crashes and stale writes fell between them (v3_exec.py:979).
THEOREM ExitsStandOnStreaks == Spec => []StreaksAreEarned
  BY TriggerInvariant, PTL DEF TriggerInv
=============================================================================
