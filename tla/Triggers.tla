------------------------------- MODULE Triggers -------------------------------
(***************************************************************************)
(* The monitors of one open position (scripts/v3_exec.py, step 3 of tick:  *)
(* trigger_compression, trigger_floor, trigger_listings, trigger_decay,    *)
(* then start_unwind), at the granularity of the engine's commits, with    *)
(* the operator's unwind command in a process of its own.                  *)
(*                                                                         *)
(* All four monitors of a tick work on the row as it was read before the   *)
(* first of them: copy is that pos["flags"], and start_unwind's test of    *)
(* pos["status"] sees "open" whatever an earlier monitor has started.      *)
(***************************************************************************)
EXTENDS Integers

Checks == {"compression", "floor", "listings", "decay"}
Spreads == {"unknown", "wide", "thin", "inverted"}

CONSTANTS
  Gap,        \* Gap[check]: its guard's spacing, in ticks
  CompN,      \* COMPRESSION_N
  InvN,       \* INVERTED_N
  MaxCrashes, \* bound: crashes and aborted ticks in one behaviour
  Operator,   \* does an operator issue "unwind --pos"?
  Listed      \* bound: what the listings feed may say of the coin (TRUE: flagged)

ASSUME TriggerConstants ==
  /\ Gap \in [Checks -> Nat \ {0}]
  /\ CompN \in Nat \ {0} /\ InvN \in Nat \ {0}
  /\ MaxCrashes \in Nat /\ Operator \in BOOLEAN /\ Listed \subseteq BOOLEAN

VARIABLES
  status,    \* exec_positions.status
  reason,    \* exec_positions.unwind_reason
  flags,     \* of flags: the streaks, and the exit start_unwind recorded
  since,     \* since[check]: ticks since its guard was stamped
  slopes,    \* how many of the last two decay slopes were below the limit
  at,        \* the monitor the tick is in, or "idle"
  step,      \* how far that monitor is
  why,       \* the reason it unwinds for
  copy,      \* pos["flags"] of this tick
  cmd,       \* where the operator's command is
  cmdCopy,   \* the flags the command read
  spread,    \* live spread against the median, as the feeds show it
  delisted,  \* does the listings feed flag the coin?
  ahead,     \* is another open position monitored before this one?
  counted,   \* history: how many compressed, and how many inverted, spreads
             \* the compression monitor has counted in the position's life
  eventSeen, \* history: trigger_floor has seen a parameter change
  crashes

row     == <<status, reason>>
tick    == <<at, step, why, copy>>
command == <<cmd, cmdCopy>>
market  == <<spread, delisted, ahead>>
history == <<counted, eventSeen>>
vars    == <<row, flags, since, slopes, tick, command, market, history, crashes>>

Smaller(a, b) == IF a < b THEN a ELSE b
NoFlags == [comp |-> 0, inv |-> 0, exit |-> "none"]

Flags == [comp : Nat, inv : Nat, exit : {"none", "ladder", "immediate"}]

Init ==
  /\ status = "open" /\ reason = "none"
  /\ flags = NoFlags
  /\ since = Gap /\ slopes = 0
  /\ at = "idle" /\ step = "start" /\ why = "none" /\ copy = NoFlags
  /\ cmd = "none" /\ cmdCopy = NoFlags
  /\ spread = "unknown" /\ delisted = FALSE /\ ahead = FALSE
  /\ counted = [thin |-> 0, inverted |-> 0] /\ eventSeen = FALSE
  /\ crashes = 0

\* trigger_listings has one guard for all positions, so a position monitored
\* earlier in the same tick takes the day's check.
Elapsed(taken) ==
  [c \in Checks |->
     IF c = "listings" /\ taken /\ since[c] + 1 >= Gap[c] THEN 0
     ELSE Smaller(since[c] + 1, Gap[c])]

BeginTriggers(s, d, a) ==
  /\ at = "idle" /\ status = "open"
  /\ spread' = s /\ delisted' = d /\ ahead' = a
  /\ at' = "compression" /\ step' = "start" /\ why' = "none" /\ copy' = flags
  /\ since' = Elapsed(a)
  /\ UNCHANGED <<row, flags, slopes, command, history, crashes>>

\* The monitors run in a fixed order; each is isolated from the others.
Follow == [compression |-> "floor", floor |-> "listings",
           listings |-> "decay", decay |-> "idle"]

EndOf(check) ==
  /\ at' = Follow[check] /\ step' = "start" /\ why' = "none"
  /\ copy' = IF Follow[check] = "idle" THEN NoFlags ELSE copy

Fire(r) ==
  /\ step' = "fire" /\ why' = r
  /\ UNCHANGED <<at, copy>>

Here(check, s) == at = check /\ step = s

(***************************************************************************)
(* guard: the check is stamped before it is done.                          *)
(***************************************************************************)
Skip(check) ==
  /\ Here(check, "start")
  /\ since[check] < Gap[check] \/ (check = "compression" /\ spread = "unknown")
  /\ UNCHANGED <<row, flags, since, slopes, command, market, history, crashes>>
  /\ EndOf(check)

Stamp(check) ==
  /\ Here(check, "start")
  /\ since[check] >= Gap[check]
  /\ check = "compression" => spread # "unknown"
  /\ since' = [since EXCEPT ![check] = 0] /\ step' = "stamped"
  /\ UNCHANGED <<row, flags, slopes, at, why, copy, command, market, history, crashes>>

(***************************************************************************)
(* The monitors.                                                           *)
(***************************************************************************)
\* Mutant: an inverted spread is below the fraction of the median as well, and
\* both streaks count it.
MutStreaks ==
  [copy EXCEPT
     !.comp = IF spread \in {"thin", "inverted"} THEN Smaller(@ + 1, CompN) ELSE 0,
     !.inv  = IF spread = "inverted" THEN Smaller(@ + 1, InvN) ELSE 0]

\* The new streaks; comparisons with CompN and InvN look no further.
Streaks ==
  [copy EXCEPT
     !.comp = IF spread = "thin" THEN Smaller(@ + 1, CompN) ELSE 0,
     !.inv  = IF spread = "inverted" THEN Smaller(@ + 1, InvN) ELSE 0]

Counted ==
  [thin     |-> IF spread = "thin" THEN Smaller(counted.thin + 1, CompN) ELSE counted.thin,
   inverted |-> IF spread = "inverted" THEN Smaller(counted.inverted + 1, InvN)
                ELSE counted.inverted]

\* Mutant: streaks that do not fire are not written back.
MutCompressionCheck ==
  /\ Here("compression", "stamped")
  /\ counted' = Counted
  /\ UNCHANGED <<row, since, slopes, command, market, eventSeen, crashes>>
  /\ IF Streaks.comp >= CompN THEN flags' = Streaks /\ Fire("compression")
     ELSE IF Streaks.inv >= InvN THEN flags' = Streaks /\ Fire("inverted")
     ELSE UNCHANGED flags /\ EndOf("compression")

CompressionCheck ==
  /\ Here("compression", "stamped")
  /\ flags' = Streaks /\ counted' = Counted
  /\ UNCHANGED <<row, since, slopes, command, market, eventSeen, crashes>>
  /\ IF flags'.comp >= CompN THEN Fire("compression")
     ELSE IF flags'.inv >= InvN THEN Fire("inverted")
     ELSE EndOf("compression")

FloorUnchanged ==
  /\ Here("floor", "stamped")
  /\ UNCHANGED <<row, flags, since, slopes, command, market, history, crashes>>
  /\ EndOf("floor")

FloorChanged ==
  /\ Here("floor", "stamped")
  /\ eventSeen' = TRUE
  /\ Fire("floor")
  /\ UNCHANGED <<row, flags, since, slopes, command, market, counted, crashes>>

\* trigger_listings looks for the coin in list rows keyed by base_coin.  The feed
\* answers with an object, {"rows": [{token_symbol, ...}]}, so no row is looked at
\* and the check ends there, whatever the feed says of the coin.
ListingsChecked ==
  /\ Here("listings", "stamped")
  /\ UNCHANGED <<row, flags, since, slopes, command, market, history, crashes>>
  /\ EndOf("listings")

NoSlope ==
  /\ Here("decay", "stamped")
  /\ UNCHANGED <<row, flags, since, slopes, command, market, history, crashes>>
  /\ EndOf("decay")

Slope(below) ==
  /\ Here("decay", "stamped")
  /\ slopes' = IF below THEN Smaller(slopes + 1, 2) ELSE 0
  /\ UNCHANGED <<row, flags, since, command, market, history, crashes>>
  /\ IF slopes' = 2 THEN Fire("decay") ELSE EndOf("decay")

(***************************************************************************)
(* start_unwind: two commits, the flags first.                             *)
(***************************************************************************)
Immediate(r) == r = "floor"

ExitFor(f, r) ==
  [f EXCEPT !.exit = IF Immediate(r) THEN "immediate" ELSE "ladder"]

StartUnwindFlags ==
  /\ step = "fire" /\ step' = "flagged"
  /\ flags' = ExitFor(copy, why)
  /\ UNCHANGED <<row, since, slopes, at, why, copy, command, market, history, crashes>>

StartUnwindStatus ==
  /\ step = "flagged"
  /\ status' = "unwinding" /\ reason' = why
  /\ UNCHANGED <<flags, since, slopes, command, market, history, crashes>>
  /\ EndOf(at)

(***************************************************************************)
(* cmd_unwind, in another process, once.                                   *)
(***************************************************************************)
CmdRead ==
  /\ Operator /\ cmd = "none" /\ status = "open"
  /\ cmd' = "read" /\ cmdCopy' = flags
  /\ UNCHANGED <<row, flags, since, slopes, tick, market, history, crashes>>

CmdFlags ==
  /\ cmd = "read" /\ cmd' = "flagged"
  /\ flags' = ExitFor(cmdCopy, "manual") /\ cmdCopy' = NoFlags
  /\ UNCHANGED <<row, since, slopes, tick, market, history, crashes>>

CmdStatus ==
  /\ cmd = "flagged" /\ cmd' = "done"
  /\ status' = "unwinding" /\ reason' = "manual"
  /\ UNCHANGED <<flags, since, slopes, tick, cmdCopy, market, history, crashes>>

\* The engine dies, or an exception ends the tick.
Crash ==
  /\ at # "idle"
  /\ crashes < MaxCrashes /\ crashes' = crashes + 1
  /\ at' = "idle" /\ step' = "start" /\ why' = "none" /\ copy' = NoFlags
  /\ UNCHANGED <<row, flags, since, slopes, command, market, history>>

Engine ==
  \/ \E s \in Spreads, d \in Listed, a \in BOOLEAN : BeginTriggers(s, d, a)
  \/ \E check \in Checks : Skip(check) \/ Stamp(check)
  \/ CompressionCheck
  \/ FloorUnchanged \/ FloorChanged
  \/ ListingsChecked
  \/ NoSlope \/ \E below \in BOOLEAN : Slope(below)
  \/ StartUnwindFlags \/ StartUnwindStatus

Next == Engine \/ CmdRead \/ CmdFlags \/ CmdStatus \/ Crash

\* The run loop ticks again and again.
Spec == Init /\ [][Next]_vars /\ WF_vars(Engine)
=============================================================================
