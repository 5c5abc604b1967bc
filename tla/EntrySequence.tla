---------------------------- MODULE EntrySequence ----------------------------
(***************************************************************************)
(* One pair's entry sequence in the M3 execution engine                    *)
(* (scripts/v3_exec.py), at the granularity of the engine's SQLite         *)
(* commits.                                                                *)
(*                                                                         *)
(* What survives a restart is the database row: status, the fills, the     *)
(* resting short order, the 90 s deadline.  What a crash loses is where    *)
(* the handler was (pc) and the tick's book snapshot (sview, lview).  Each *)
(* action is the work between two commits, so Crash may fall between any   *)
(* two of them.  Quantities are lots, times are engine ticks.              *)
(***************************************************************************)
EXTENDS Integers

CONSTANTS
  Target,         \* lots of size_usd, the configured size per leg
  LeggingCap,     \* LEGGING_CAP_S, in ticks
  MakerPatience,  \* MAKER_PATIENCE_S, in ticks
  Cooldown,       \* COOLDOWN_S, in ticks
  RepostMax,      \* REPOST_MAX
  MaxGap,         \* bound: the longest gap between two ticks, in ticks
  MaxCrashes,     \* bound: crashes and aborted ticks in one behaviour
  ShortViews,     \* what a snapshot may show of the short venue's book
  LongViews,      \* what a snapshot may show of the long venue's book
  ThinBooks,      \* may a walk of the book fill less than was asked?
  Clamps          \* may the sizing clamps cut the size below Target?

Views == {"none", "hollow", "touch", "crossed", "away"}

ASSUME EntryConstants ==
  /\ Target \in Nat \ {0}
  /\ LeggingCap \in Nat /\ MakerPatience \in Nat /\ Cooldown \in Nat
  /\ RepostMax \in Nat /\ MaxGap \in Nat \ {0} /\ MaxCrashes \in Nat
  /\ ShortViews \subseteq Views
  /\ LongViews \subseteq {"none", "hollow", "live"}
  /\ ThinBooks \in BOOLEAN /\ Clamps \in BOOLEAN

VARIABLES
  status,    \* exec_positions.status of the pair's latest row
  size,      \* the gated size the short leg is posted or taken with
  short,     \* lots of entry fills recorded for the short leg (paper_fills)
  long,      \* lots of entry fills recorded for the long leg
  resting,   \* does exec_orders hold a resting short order?
  ordAge,    \* ticks since its ts_post
  reposts,   \* its repost counter
  deadline,  \* ticks since flags.pending_deadline was armed, or NoDeadline
  age,       \* ticks since the row's ts_open, saturating
  pc,        \* where the running tick is; "idle" between ticks
  sview,     \* the tick's snapshot of the short book
  lview,     \* the tick's snapshot of the long book
  crashes

row   == <<status, size, short, long>>
order == <<resting, ordAge, reposts>>
view  == <<sview, lview>>
vars  == <<row, order, deadline, age, pc, view, crashes>>

NoDeadline == -1
AgeCap == Cooldown + MakerPatience + MaxGap
\* Elapsed time only matters up to the first value past the longest limit.
After(t, d, limit) == IF t + d > limit THEN limit + 1 ELSE t + d

\* ds.walk through take_taker: a partial fill is still ok.
Walked(lots) == IF ThinBooks THEN 1..lots ELSE {lots}
\* start_entry's 0.7 x pair_cap clamp and m5_gate's sizing clamp.
GatedSizes == IF Clamps THEN 1..Target ELSE {Target}

PcStates == {"idle", "gate", "tt", "sm_lt", "short_taken", "advance",
             "marked", "short_made", "armed", "withdrawn", "enforce",
             "force_failed", "long_taken", "cleared", "patience", "deferring"}

TypeOK ==
  /\ status \in {"none", "seq_open", "open", "cancelled"}
  /\ size \in 0..Target
  /\ short \in Nat
  /\ long \in Nat
  /\ resting \in BOOLEAN
  /\ ordAge \in 0..(MakerPatience + 1)
  /\ reposts \in 0..RepostMax
  /\ deadline \in {NoDeadline} \cup 0..(LeggingCap + 1)
  /\ age \in 0..(AgeCap + 1)
  /\ pc \in PcStates
  /\ sview \in Views
  /\ lview \in {"none", "hollow", "live"}
  /\ crashes \in 0..MaxCrashes

Init ==
  /\ status = "none" /\ size = 0 /\ short = 0 /\ long = 0
  /\ resting = FALSE /\ ordAge = 0 /\ reposts = 0
  /\ deadline = NoDeadline /\ age = 0
  /\ pc = "idle" /\ sview = "none" /\ lview = "none"
  /\ crashes = 0

Goto(from, to) == pc = from /\ pc' = to

(***************************************************************************)
(* The tick: restore the row, fetch the books, advance a seq_open row,     *)
(* then consider a new entry.                                              *)
(***************************************************************************)
BeginTick(d, s, l) ==
  /\ Goto("idle", IF status = "seq_open" THEN "advance" ELSE "gate")
  /\ sview' = s /\ lview' = l
  /\ ordAge' = IF resting THEN After(ordAge, d, MakerPatience) ELSE 0
  /\ deadline' = IF deadline = NoDeadline THEN NoDeadline
                 ELSE After(deadline, d, LeggingCap)
  /\ age' = After(age, d, AgeCap)
  /\ UNCHANGED <<row, resting, reposts, crashes>>

\* The pair is active, on cooldown, or one of the gates says no.
EndTick ==
  /\ Goto("gate", "idle")
  /\ UNCHANGED <<row, order, deadline, age, view, crashes>>

(***************************************************************************)
(* start_entry, up to the row new_position inserts.  Gates and clamps are  *)
(* an admission with some size.                                            *)
(***************************************************************************)
StartEntry(seq, lots) ==
  /\ Goto("gate", seq)
  /\ status = "none" \/ (status = "cancelled" /\ age >= Cooldown)
  /\ status' = "seq_open" /\ size' = lots /\ short' = 0 /\ long' = 0
  /\ resting' = FALSE /\ ordAge' = 0 /\ reposts' = 0
  /\ deadline' = NoDeadline /\ age' = 0
  /\ UNCHANGED <<view, crashes>>

BothMids == sview # "none" /\ lview # "none"

EntryBookMissing ==
  /\ pc \in {"tt", "sm_lt"} /\ pc' = "idle"
  /\ ~BothMids
  /\ status' = "cancelled"
  /\ UNCHANGED <<size, short, long, order, deadline, age, view, crashes>>

\* tt: both legs taker, short first.
ShortTaker(lots) ==
  /\ Goto("tt", "short_taken")
  /\ BothMids /\ sview # "hollow"
  /\ short' = lots
  /\ UNCHANGED <<status, size, long, order, deadline, age, view, crashes>>

\* Mutant: the early return after a failed short taker is missing.
MutShortFailureIgnored ==
  /\ Goto("tt", "short_taken")
  /\ BothMids /\ sview = "hollow"
  /\ UNCHANGED <<row, order, deadline, age, view, crashes>>

ShortTakerFails ==
  /\ Goto("tt", "idle")
  /\ BothMids /\ sview = "hollow"
  /\ status' = "cancelled"
  /\ UNCHANGED <<size, short, long, order, deadline, age, view, crashes>>

TtLongTaker(lots) ==
  /\ Goto("short_taken", "cleared")
  /\ lview = "live"
  /\ long' = lots
  /\ UNCHANGED <<status, size, short, order, deadline, age, view, crashes>>

TtLongFails ==
  /\ Goto("short_taken", "idle")
  /\ lview # "live"
  /\ deadline' = 0
  /\ UNCHANGED <<row, order, age, view, crashes>>

\* sm_lt: the short leg is posted at the touch with the gated size.
PostShortMaker ==
  /\ Goto("sm_lt", "idle")
  /\ BothMids
  /\ resting' = TRUE /\ ordAge' = 0 /\ reposts' = 0
  /\ UNCHANGED <<row, deadline, age, view, crashes>>

(***************************************************************************)
(* advance_resting and on_maker_filled.                                    *)
(***************************************************************************)
Stale == sview = "away" /\ reposts < RepostMax

NothingToAdvance ==
  /\ Goto("advance", "enforce")
  /\ ~resting \/ (sview # "crossed" /\ ~Stale)
  /\ UNCHANGED <<row, order, deadline, age, view, crashes>>

\* order_fill marks the order before it writes the fill.
MarkFilled ==
  /\ Goto("advance", "marked")
  /\ resting /\ sview = "crossed"
  /\ resting' = FALSE /\ ordAge' = 0 /\ reposts' = 0
  /\ UNCHANGED <<row, deadline, age, view, crashes>>

WriteShortFill ==
  /\ Goto("marked", "short_made")
  /\ short' = short + size
  /\ UNCHANGED <<status, size, long, order, deadline, age, view, crashes>>

ArmDeadline ==
  /\ Goto("short_made", "armed")
  /\ deadline' = 0
  /\ UNCHANGED <<row, order, age, view, crashes>>

\* take_taker is asked for size_usd, not for the gated size.
TakeLong(lots) ==
  /\ lview = "live"
  /\ long' = long + lots
  /\ UNCHANGED <<status, size, short, order, deadline, age, view, crashes>>

\* Mutant: the filled long leg falls through to the legging check.
MutFallsThrough(lots) == Goto("armed", "enforce") /\ TakeLong(lots)

MakerLong(lots) == Goto("armed", "long_taken") /\ TakeLong(lots)

MakerLongFails ==
  /\ Goto("armed", "enforce")
  /\ lview # "live"
  /\ UNCHANGED <<row, order, deadline, age, view, crashes>>

Withdraw ==
  /\ Goto("advance", "withdrawn")
  /\ resting /\ Stale
  /\ resting' = FALSE /\ ordAge' = 0
  /\ UNCHANGED <<row, reposts, deadline, age, view, crashes>>

\* Mutant: the repost counter is not carried to the new order.
MutRepostUncounted ==
  /\ Goto("withdrawn", "enforce")
  /\ resting' = TRUE /\ ordAge' = 0 /\ reposts' = 0
  /\ UNCHANGED <<row, deadline, age, view, crashes>>

Repost ==
  /\ Goto("withdrawn", "enforce")
  /\ resting' = TRUE /\ ordAge' = 0 /\ reposts' = reposts + 1
  /\ UNCHANGED <<row, deadline, age, view, crashes>>

(***************************************************************************)
(* enforce_legging_cap: retry inside the cap, force past it.  The deadline *)
(* is dropped after the forced attempt whether or not it filled.           *)
(***************************************************************************)
NoDeadlinePending ==
  /\ Goto("enforce", "patience")
  /\ deadline = NoDeadline
  /\ UNCHANGED <<row, order, deadline, age, view, crashes>>

RetryLong(lots) ==
  /\ Goto("enforce", "long_taken")
  /\ deadline \in 0..LeggingCap
  /\ TakeLong(lots)

\* Mutant: a failed retry arms the deadline anew.
MutRetryRearms ==
  /\ Goto("enforce", "patience")
  /\ deadline \in 0..LeggingCap /\ lview # "live"
  /\ deadline' = 0
  /\ UNCHANGED <<row, order, age, view, crashes>>

RetryFails ==
  /\ Goto("enforce", "patience")
  /\ deadline \in 0..LeggingCap /\ lview # "live"
  /\ UNCHANGED <<row, order, deadline, age, view, crashes>>

ForceLong(lots) ==
  /\ Goto("enforce", "long_taken")
  /\ deadline > LeggingCap
  /\ TakeLong(lots)

ForceFails ==
  /\ Goto("enforce", "force_failed")
  /\ deadline > LeggingCap /\ lview # "live"
  /\ UNCHANGED <<row, order, deadline, age, view, crashes>>

ForceGivesUp ==
  /\ Goto("force_failed", "patience")
  /\ deadline' = NoDeadline
  /\ UNCHANGED <<row, order, age, view, crashes>>

MutNotOpened ==
  /\ Goto("long_taken", "gate")
  /\ UNCHANGED <<row, order, deadline, age, view, crashes>>

ClearDeadline ==
  /\ Goto("long_taken", "cleared")
  /\ deadline' = NoDeadline
  /\ UNCHANGED <<row, order, age, view, crashes>>

FinishOpen ==
  /\ Goto("cleared", "gate")
  /\ status' = "open"
  /\ UNCHANGED <<size, short, long, order, deadline, age, view, crashes>>

(***************************************************************************)
(* check_entry_patience: the age of the order now resting, not of the      *)
(* entry.                                                                  *)
(***************************************************************************)
PatienceHolds ==
  /\ Goto("patience", "gate")
  /\ ~resting \/ ordAge <= MakerPatience
  /\ UNCHANGED <<row, order, deadline, age, view, crashes>>

PatienceExpires ==
  /\ Goto("patience", "deferring")
  /\ resting /\ ordAge > MakerPatience
  /\ resting' = FALSE /\ ordAge' = 0 /\ reposts' = 0
  /\ UNCHANGED <<row, deadline, age, view, crashes>>

Defer ==
  /\ Goto("deferring", "gate")
  /\ status' = "cancelled"
  /\ UNCHANGED <<size, short, long, order, deadline, age, view, crashes>>

\* The process dies, or an exception ends the tick ("TICK ERR").
Crash ==
  /\ pc # "idle" /\ pc' = "idle"
  /\ crashes < MaxCrashes /\ crashes' = crashes + 1
  /\ UNCHANGED <<row, order, deadline, age, view>>

Entering ==
  \/ \E seq \in {"tt", "sm_lt"}, lots \in GatedSizes : StartEntry(seq, lots)
  \/ EntryBookMissing
  \/ \E lots \in Walked(size) : ShortTaker(lots)
  \/ ShortTakerFails
  \/ \E lots \in Walked(size) : TtLongTaker(lots)
  \/ TtLongFails
  \/ PostShortMaker

Advancing ==
  \/ NothingToAdvance
  \/ MarkFilled \/ WriteShortFill \/ ArmDeadline
  \/ \E lots \in Walked(Target) : MakerLong(lots)
  \/ MakerLongFails
  \/ Withdraw \/ Repost

Enforcing ==
  \/ NoDeadlinePending
  \/ \E lots \in Walked(Target) : RetryLong(lots)
  \/ RetryFails
  \/ \E lots \in Walked(Target) : ForceLong(lots)
  \/ ForceFails \/ ForceGivesUp
  \/ ClearDeadline \/ FinishOpen
  \/ PatienceHolds \/ PatienceExpires \/ Defer

Tick ==
  \/ \E d \in 1..MaxGap, s \in ShortViews, l \in LongViews : BeginTick(d, s, l)
  \/ EndTick

Engine == Tick \/ Entering \/ Advancing \/ Enforcing
Next == Engine \/ Crash

\* The run loop calls tick() again and again; nothing forces a crash.
Spec == Init /\ [][Next]_vars /\ WF_vars(Engine)
=============================================================================
