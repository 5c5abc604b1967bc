----------------------------- MODULE TriggerProps -----------------------------
(***************************************************************************)
(* Correctness properties of Triggers.                                     *)
(***************************************************************************)
EXTENDS Triggers

\* However often the streaks are read, rewritten from a stale copy or left behind
\* by a crash, no check is counted twice: a compression exit stands on CompN
\* checks that counted a compressed spread, an inversion exit on InvN inverted.
StreaksAreEarned ==
  /\ why = "compression" => counted.thin >= CompN
  /\ why = "inverted" => counted.inverted >= InvN

\* A spread that stays compressed ends in an unwind, after crashes too.
CompressionUnwinds ==
  <>[](spread = "thin") => <>(status = "unwinding")

(***************************************************************************)
(* What the repository says of the program and the code does not do.       *)
(***************************************************************************)

\* "floor-param change: immediate": the exit of a position for which trigger_floor
\* saw a change is immediate.
EventExitIsImmediate ==
  at = "idle" /\ status = "unwinding" /\ eventSeen => flags.exit = "immediate"

\* "delisting/suspension, lifecycle flag on held coin: immediate": a coin that stays
\* flagged, while no other position takes the daily check, is unwound.
DelistingUnwinds ==
  <>[](delisted /\ ~ahead) => <>(status = "unwinding")
=============================================================================
