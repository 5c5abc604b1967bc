----------------------------- MODULE EntryProps ------------------------------
(***************************************************************************)
(* Correctness properties of EntrySequence.                                *)
(***************************************************************************)
EXTENDS EntrySequence

\* finish_open only ever runs behind two recorded fills: a position the
\* triggers and the unwind ladder manage always has both of its legs.
OpenIsHedged == status = "open" => short > 0 /\ long > 0

\* A deferred or aborted entry holds nothing: the patience check, which
\* looks only at the orders, can never cancel a row whose short leg has
\* filled, however the tick that filled it ended.
CancelledIsFlat == status = "cancelled" => short = 0 /\ long = 0

\* One short fill per position, of at most the gated size, and none while
\* an order for it still rests: marking the order before writing the fill
\* makes a repeated tick unable to book the same order twice.
ShortFilledOnce ==
  /\ short <= size
  /\ resting => short = 0

\* Without a crash the retries inside the cap, the forced taker and the
\* immediate taker take the long leg once between them.
LongOnceWithoutCrash == crashes = 0 => long <= Target

\* When no clamp cut the size, no book was thin and no crash intervened,
\* the two legs of an open position are equal.
BalancedWhenUnclamped ==
  status = "open" /\ size = Target /\ crashes = 0 /\ ~ThinBooks
    => short = long

(***************************************************************************)
(* The inductive invariant behind the above.  Unfilled, Naked and Hedged   *)
(* are the three situations of an entry; WhereTheTickIs ties them to the   *)
(* commit the tick has reached, WhatTheRowSays to what a restart finds.    *)
(***************************************************************************)
Unfilled == short = 0 /\ long = 0
Naked    == short > 0 /\ long = 0
Hedged   == short > 0 /\ long > 0

WhereTheTickIs ==
  /\ pc \notin {"idle", "gate"} => status = "seq_open"
  /\ pc \in {"tt", "sm_lt", "marked", "withdrawn", "deferring"}
       => Unfilled /\ ~resting /\ deadline = NoDeadline
  /\ pc \in {"short_taken", "short_made"}
       => Naked /\ ~resting /\ deadline = NoDeadline
  /\ pc = "armed" => Naked /\ deadline = 0
  /\ pc = "force_failed" => deadline # NoDeadline
  /\ pc \in {"long_taken", "cleared"} => Hedged
  /\ pc = "cleared" => deadline = NoDeadline
  /\ pc = "withdrawn" => reposts < RepostMax

WhatTheRowSays ==
  /\ short <= size
  /\ status \in {"none", "cancelled"} => Unfilled
  /\ status = "open" => Hedged
  /\ status = "seq_open" => size > 0 /\ (Unfilled \/ Naked \/ Hedged)
  /\ resting => status = "seq_open" /\ Unfilled /\ deadline = NoDeadline
  /\ deadline # NoDeadline => status = "seq_open" /\ short > 0

\* A long fill of a tick that was never interrupted is followed by the
\* opening of the position before anything else can take the leg again.
LongTakenOnce ==
  crashes = 0 =>
    /\ long <= Target
    /\ long > 0 /\ status = "seq_open" => pc \in {"long_taken", "cleared"}

\* Deep books and no clamp leave only whole fills.
WholeFills ==
  crashes = 0 /\ size = Target /\ ~ThinBooks
    => short \in {0, Target} /\ long \in {0, Target}

EntryInv ==
  TypeOK /\ WhereTheTickIs /\ WhatTheRowSays /\ LongTakenOnce /\ WholeFills

\* The 90 s cap cannot be pushed back: while one entry is naked its deadline
\* only runs on, or is dropped, whatever retries and restarts happen.
CapNeverExtended ==
  [][deadline # NoDeadline /\ deadline' # NoDeadline => deadline' >= deadline]_vars

\* With a live long book and no crash every entry ends: the maker fills, or
\* the reposts run out and the patience of the last order cancels it.
EntrySettles == status = "seq_open" ~> status \in {"open", "cancelled"}

\* The commits of the engine implement the promise of HedgedEntry.
Promise == INSTANCE HedgedEntry WITH status <- status, short <- short, long <- long
ImplementsHedgedEntry == Promise!HSpec

(***************************************************************************)
(* What the repository says of the program and the code does not do.       *)
(***************************************************************************)

\* "past the cap it force-takes": between ticks, a filled short without its
\* long is always under a deadline that will force the long leg.
NakedShortIsUnderCap ==
  pc = "idle" /\ status = "seq_open" /\ short > 0 /\ long = 0
    => deadline # NoDeadline

=============================================================================
