------------------------------ MODULE EntryGate -------------------------------
(***************************************************************************)
(* How a position comes to be: the entry loop of the engine's tick, the M5 *)
(* portfolio gate over both paper books, and the desk, another process,    *)
(* that pins an extra candidate and starts a window of its own beside any  *)
(* engine that runs.  The windows share one database and no lock.  The     *)
(* life of a position after start_entry is abstracted to its status        *)
(* (EntrySequence and UnwindLadder detail it), the tripwire chain to its   *)
(* verdict (TripwireChain does).  Sizes are lots, times ticks of the clock. *)
(***************************************************************************)
EXTENDS Integers, Sequences, FiniteSets, FiniteSetsExt, SequencesExt

CONSTANTS Static,     \* pl.PAIRS: a sequence of candidates
          Pinnable,   \* candidates the desk may pin
          Hands,      \* engine windows started by hand
          DeskWindow, \* the window `open` starts
          Freezable,  \* bound: venues whose freezes are followed
          FeeVenues,  \* venues of the TAKER fee map
          Rwa,        \* RWA_BASES
          P0Books,    \* what the P0 book may hold at the start
          Caps,       \* 25 bps depths met as pair cap; NoCap is a missing book
          NoCap,
          VenueCap,   \* VENUE_CAP of each venue
          MaxLev,     \* MAX_LEVERAGE x EQUITY_USD
          MaxPin,     \* DESK_PIN_MAX_USD
          PinTtl,     \* DESK_PIN_TTL_H
          Cooldown,   \* COOLDOWN_S
          Amort,      \* AMORT_DAYS, the age up to which a pair is new
          MaxClock,   \* bound: ticks of the clock
          MaxRows,    \* bound: engine positions of a behaviour
          MaxPaper    \* bound: positions of the P0 book

Windows    == Hands \cup {DeskWindow}
Candidates == Range(Static) \cup Pinnable
Name(p)    == <<p.coin, p.short, p.long>>
LegVenues  == UNION {{p.short, p.long} : p \in Candidates}
Active     == {"seq_open", "open", "unwinding"}   \* PENDING
Counted    == {"open", "unwinding"}               \* what _book_positions reads
NoPin      == [p |-> Head(Static), made |-> -1]

ASSUME EntryGateAssumption ==
  /\ Static # <<>> /\ Static \in Seq(Range(Static))
  /\ \A i, j \in DOMAIN Static : Name(Static[i]) = Name(Static[j]) => i = j
  /\ NoCap \in Int /\ NoCap < 0 /\ Caps \subseteq Nat \cup {NoCap}
  /\ {PinTtl, Cooldown, Amort, MaxClock, MaxRows, MaxPaper} \subseteq Nat
  /\ \A p \in Candidates : p.size \in Nat \ {0} /\ p.seq \in {"tt", "sm_lt"}
  /\ MaxLev \in Nat /\ \A v \in LegVenues : VenueCap[v] \in Nat
  /\ \A B \in P0Books : IsFiniteSet(B) /\ \A b \in B :
       DOMAIN b = {"p", "opened", "status", "later"} /\ b.p.size \in Nat /\ ~b.later

VARIABLES
  rows,     \* exec_positions
  paper,    \* positions of the P0 book
  clock,
  killed,   \* the kill file says halt (FloorWatch details it)
  frozen,   \* venues with a freeze in kv
  pin,      \* pin.json and when it was made
  epc,      \* where each window's tick is
  view,     \* the active rows as each tick read them
  queue,    \* candidates each still has to consider
  act,      \* names active when its loop began
  offer,    \* the size its gate granted
  dpc,      \* the desk between preflight, write and its window
  combo,    \* what it is opening
  overtaken, \* ghost: the gate admitted an entry while another was in sequence
  crossed   \* ghost: a window inserted a row inside the entry loop of another,
            \* or wrote the status of a row another had ended

outside   == <<paper, clock, killed, frozen>>
deskState == <<pin, dpc, combo>>
engine    == <<epc, view, queue, act, offer>>
ghosts    == <<overtaken, crossed>>
gateVars  == <<rows, outside, deskState, engine, ghosts>>

GateInit ==
  /\ rows = {} /\ paper \in P0Books
  /\ clock = 0 /\ killed = FALSE /\ frozen = {}
  /\ pin = NoPin
  /\ epc = [e \in Windows |-> "idle"] /\ view = [e \in Windows |-> {}]
  /\ queue = [e \in Windows |-> <<>>] /\ act = [e \in Windows |-> {}]
  /\ offer = [e \in Windows |-> 0]
  /\ dpc = "idle" /\ combo = Head(Static)
  /\ overtaken = FALSE /\ crossed = FALSE

(***************************************************************************)
(* The books as the gates read them.                                       *)
(***************************************************************************)
Attempts(n) == {r \in rows : Name(r.p) = n}
Held        == {r \in rows : r.status \in Active}
ActiveNames == {Name(r.p) : r \in Held}

\* active_positions, a dict by pair: of two rows of a pair the newer one stays.
ByPair == {r \in Held : \A q \in Held : Name(q.p) = Name(r.p) => q.id <= r.id}

\* pair_on_cooldown: the newest ended row decides, by when it was opened, and so
\* any that is recent enough does.
OnCooldown(n) ==
  \E r \in Attempts(n) : r.status \in {"cancelled", "closed"} /\ clock - r.opened < Cooldown

\* _pair_history_age_days, over both books and any status.
IsNew(n) ==
  LET opens == {r.opened : r \in Attempts(n)} \cup {b.opened : b \in {q \in paper : Name(q.p) = n}}
  IN  opens = {} \/ clock - Min(opens) < Amort

\* _book_positions: configured sizes, entries in sequence left out.
PaperOpen     == {b \in paper : b.status \in Counted}
BookPositions == {r \in rows : r.status \in Counted} \cup PaperOpen

SizeOf(S)      == MapThenSumSet(LAMBDA r : r.p.size, S)
Deployed       == SizeOf(BookPositions)
Exposure(v)    == SizeOf({r \in BookPositions : v \in {r.p.short, r.p.long}})
SameCoin(c)    == {r \in BookPositions : r.p.coin = c}
RwaPositions   == {r \in BookPositions : r.p.coin \in Rwa}

\* start_entry's clamp and the gate's own sizing; a cap of 0 clamps nothing.
Gated(p, cap) ==
  LET mult == IF IsNew(Name(p)) THEN 5 ELSE 7
  IN  IF cap > 0 THEN Min({p.size, (7 * cap) \div 10, (mult * cap) \div 10}) ELSE p.size

\* Mutant: the P0 book is left out of the projected leverage.
MutGateAllows(p, size) ==
  SizeOf({r \in rows : r.status \in Counted}) + size <= MaxLev

\* m5_gate after the kill file: venue caps, correlation, RWA, leverage.
GateAllows(p, size) ==
  /\ \A v \in {p.short, p.long} : Exposure(v) + size <= VenueCap[v]
  /\ Cardinality(SameCoin(p.coin)) < 2
  /\ p.coin \in Rwa /\ Deployed > 0
       => 10 * (SizeOf(RwaPositions) + size) <= 3 * (Deployed + size)
  /\ Deployed + size <= MaxLev

(***************************************************************************)
(* The pin: validate_pin is run by the desk and by every tick.             *)
(***************************************************************************)
ValidPin(k) ==
  /\ k # NoPin
  /\ clock - k.made <= PinTtl
  /\ k.p.short # k.p.long /\ {k.p.short, k.p.long} \subseteq FeeVenues
  /\ k.p.size <= MaxPin

\* Mutant: a pinned pair is added to its static entry.
MutEnginePairs(pinned) == IF pinned /\ ValidPin(pin) THEN <<pin.p>> \o Static ELSE Static

\* engine_pairs: with --pin-desk the pin comes first and replaces the static entry.
EnginePairs(pinned) ==
  LET same == {i \in DOMAIN Static : Name(Static[i]) = Name(pin.p)}
      rest == IF same = {} THEN Static ELSE RemoveAt(Static, CHOOSE i \in same : TRUE)
  IN  IF pinned /\ ValidPin(pin) THEN <<pin.p>> \o rest ELSE Static

(***************************************************************************)
(* The tick of window e.                                                   *)
(***************************************************************************)
\* A window is started with --pin-desk or without, the desk's always with.
EBegin(e) ==
  /\ epc[e] = "idle"
  /\ e = DeskWindow => dpc = "window"
  /\ epc' = [epc EXCEPT ![e] = "advance"] /\ view' = [view EXCEPT ![e] = ByPair]
  /\ \E pinned \in BOOLEAN :
       /\ e = DeskWindow => pinned
       /\ queue' = [queue EXCEPT ![e] = EnginePairs(pinned)]
  /\ UNCHANGED <<rows, outside, deskState, act, offer, ghosts>>

StatusSteps == {<<"seq_open", "open">>, <<"seq_open", "cancelled">>,
                <<"open", "unwinding">>, <<"unwinding", "closed">>}

\* What the gate granted is given back by an ended position.
Became(r, s) ==
  [r EXCEPT !.status = s, !.granted = IF s \in Active THEN @ ELSE 0]

\* UPDATE ... WHERE pos_id=?, whatever the row has become since it was read.
Write(r, s) == rows' = (rows \ {r}) \cup {Became(r, s)}

\* Steps 2 and 3 of the tick: sequences, ladders and triggers, each on the row as
\* this tick read it.
EAdvance(e) ==
  /\ epc[e] = "advance"
  /\ \E v \in view[e], s \in StatusSteps, r \in rows :
       /\ v.status = s[1] /\ r.id = v.id
       /\ Write(r, s[2])
       /\ view' = [view EXCEPT ![e] = (@ \ {v}) \cup {Became(r, s[2])}]
       /\ crossed' = (crossed \/ r.status \notin Active)
  /\ UNCHANGED <<outside, deskState, epc, queue, act, offer, overtaken>>

\* The rows are read again between the steps.
EReread(e) ==
  /\ epc[e] = "advance"
  /\ view' = [view EXCEPT ![e] = ByPair]
  /\ UNCHANGED <<rows, outside, deskState, epc, queue, act, offer, ghosts>>

\* Step 4: the kill file and the active pairs are read once for the loop.
EConsider(e) ==
  /\ epc[e] = "advance"
  /\ view' = [view EXCEPT ![e] = {}]
  /\ IF killed
       THEN epc' = [epc EXCEPT ![e] = "idle"] /\ queue' = [queue EXCEPT ![e] = <<>>] /\ UNCHANGED act
       ELSE epc' = [epc EXCEPT ![e] = "enter"] /\ act' = [act EXCEPT ![e] = ActiveNames]
            /\ UNCHANGED queue
  /\ UNCHANGED <<rows, outside, deskState, offer, ghosts>>

Candidate(e) == Head(queue[e])
NextOne(e)   == queue' = [queue EXCEPT ![e] = Tail(@)]

\* Mutant: only closed positions put their pair on cooldown.
MutHeldBack(e, p) ==
  \/ Name(p) \in act[e]
  \/ \E r \in Attempts(Name(p)) : r.status = "closed" /\ clock - r.opened < Cooldown
  \/ {p.short, p.long} \cap frozen # {}

\* The guards before the chain.
HeldBack(e, p) ==
  \/ Name(p) \in act[e]
  \/ OnCooldown(Name(p))
  \/ {p.short, p.long} \cap frozen # {}

\* The guards let the candidate into the chain, which awaits.
EPick(e) ==
  /\ epc[e] = "enter" /\ queue[e] # <<>> /\ ~HeldBack(e, Candidate(e))
  /\ epc' = [epc EXCEPT ![e] = "chain"]
  /\ UNCHANGED <<rows, outside, deskState, view, queue, act, offer, ghosts>>

\* Held back, failed by the chain, or denied by the gate.
ESkip(e) ==
  /\ queue[e] # <<>>
  /\ (epc[e] = "enter" /\ HeldBack(e, Candidate(e))) \/ epc[e] = "chain"
  /\ epc' = [epc EXCEPT ![e] = "enter"] /\ NextOne(e)
  /\ UNCHANGED <<rows, outside, deskState, view, act, offer, ghosts>>

\* start_entry: the gate reads both books ...
EGate(e) ==
  /\ epc[e] = "chain" /\ ~killed
  /\ \E cap \in Caps :
       LET size == Gated(Candidate(e), cap)
       IN  GateAllows(Candidate(e), size) /\ offer' = [offer EXCEPT ![e] = size]
  /\ overtaken' = (overtaken \/ \E r \in rows : r.status = "seq_open")
  /\ epc' = [epc EXCEPT ![e] = "gated"]
  /\ UNCHANGED <<rows, outside, deskState, view, queue, act, crossed>>

\* ... and new_position inserts the row, whatever another process has written since.
EInsert(e) ==
  /\ epc[e] = "gated" /\ Cardinality(rows) < MaxRows
  /\ LET row == [id |-> Cardinality(rows) + 1, p |-> Candidate(e), granted |-> offer[e],
                 status |-> "seq_open", opened |-> clock]
     IN  rows' = rows \cup {row} /\ view' = [view EXCEPT ![e] = {row}]
  /\ crossed' = (crossed \/ \E f \in Windows \ {e} : epc[f] \in {"enter", "chain", "gated", "entering"})
  /\ epc' = [epc EXCEPT ![e] = "entering"] /\ offer' = [offer EXCEPT ![e] = 0] /\ NextOne(e)
  /\ UNCHANGED <<outside, deskState, act, overtaken>>

\* What start_entry leaves of a new row: a taker pair opens within the tick unless a
\* book dies, a maker pair stays in sequence.
Outcomes(p) == {"cancelled", "seq_open"} \cup (IF p.seq = "tt" THEN {"open"} ELSE {})

EEntered(e) ==
  /\ epc[e] = "entering"
  /\ \E v \in view[e], r \in rows : \E s \in Outcomes(v.p) :
       /\ r.id = v.id
       /\ IF s = "seq_open" THEN UNCHANGED <<rows, crossed>>
          ELSE Write(r, s) /\ crossed' = (crossed \/ r.status \notin Active)
  /\ epc' = [epc EXCEPT ![e] = "enter"] /\ view' = [view EXCEPT ![e] = {}]
  /\ UNCHANGED <<outside, deskState, queue, act, offer, overtaken>>

\* The loop is done, or the window ends or dies in the middle of a tick; the rows stay.
ELeave(e) ==
  /\ epc[e] # "idle"
  /\ epc' = [epc EXCEPT ![e] = "idle"] /\ queue' = [queue EXCEPT ![e] = <<>>]
  /\ act' = [act EXCEPT ![e] = {}] /\ view' = [view EXCEPT ![e] = {}]
  /\ offer' = [offer EXCEPT ![e] = 0]
  /\ UNCHANGED <<rows, outside, deskState, ghosts>>

Engine(e) ==
  \/ EBegin(e) \/ EAdvance(e) \/ EReread(e) \/ EConsider(e)
  \/ EPick(e) \/ ESkip(e) \/ EGate(e) \/ EInsert(e) \/ EEntered(e) \/ ELeave(e)

\* cmd_unwind, in a process of its own.
CmdUnwind ==
  /\ \E r \in rows : r.status = "open" /\ Write(r, "unwinding")
  /\ UNCHANGED <<outside, deskState, engine, ghosts>>

(***************************************************************************)
(* The desk: preflight, write and validate, a window of its own.           *)
(***************************************************************************)
\* Any freeze key refuses, even an expired one; so does the pair's cooldown.
Refused(p) ==
  \/ killed
  \/ {p.short, p.long} \cap frozen # {}
  \/ Name(p) \in ActiveNames
  \/ OnCooldown(Name(p))

DPreflight ==
  /\ dpc = "idle"
  /\ \E p \in Pinnable : ~Refused(p) /\ combo' = p
  /\ dpc' = "write"
  /\ UNCHANGED <<rows, outside, pin, engine, ghosts>>

\* A pin its own validation refuses is removed again; a good one is left for a window
\* started by hand (--no-run) or for the window the desk starts and waits for,
\* whichever engines are running.
DWrite ==
  /\ dpc = "write"
  /\ LET new == [p |-> combo, made |-> clock]
     IN  IF ValidPin(new) THEN pin' = new /\ dpc' \in {"idle", "window"}
                          ELSE pin' = NoPin /\ dpc' = "idle"
  /\ combo' = Head(Static)
  /\ UNCHANGED <<rows, outside, engine, ghosts>>

DWindowEnds ==
  /\ dpc = "window" /\ epc[DeskWindow] = "idle"
  /\ dpc' = "idle"
  /\ UNCHANGED <<rows, outside, pin, combo, engine, ghosts>>

DeskOpens == DPreflight \/ DWrite \/ DWindowEnds

(***************************************************************************)
(* The other processes: kill evaluations, freezes, the P0 ledger, time.    *)
(***************************************************************************)
KillEval ==
  /\ killed' = ~killed
  /\ UNCHANGED <<rows, paper, clock, frozen, deskState, engine, ghosts>>

Freezes ==
  /\ \E v \in Freezable : frozen' \in {frozen \cup {v}, frozen \ {v}}
  /\ UNCHANGED <<rows, paper, clock, killed, deskState, engine, ghosts>>

\* paper_ledger.py open looks for a duplicate in its own book and asks no M5 gate.
P0Opens ==
  /\ Cardinality(paper) < MaxPaper
  /\ \E p \in Range(Static) :
       /\ \A b \in paper : b.status = "open" => Name(b.p) # Name(p)
       /\ paper' = paper \cup {[p |-> p, opened |-> clock, status |-> "open", later |-> TRUE]}
  /\ UNCHANGED <<rows, clock, killed, frozen, deskState, engine, ghosts>>

P0Closes ==
  /\ \E b \in PaperOpen : paper' = (paper \ {b}) \cup {[b EXCEPT !.status = "closed"]}
  /\ UNCHANGED <<rows, clock, killed, frozen, deskState, engine, ghosts>>

Others == KillEval \/ Freezes \/ P0Opens \/ P0Closes

Clock ==
  /\ clock < MaxClock /\ clock' = clock + 1
  /\ UNCHANGED <<rows, paper, killed, frozen, deskState, engine, ghosts>>

GateNext == (\E e \in Windows : Engine(e)) \/ DeskOpens \/ CmdUnwind \/ Others \/ Clock

GateSpec == GateInit /\ [][GateNext]_gateVars

(***************************************************************************)
(* Properties.                                                             *)
(***************************************************************************)
PairsHeldOnce ==
  \A r, q \in rows :
    r.status \in Active /\ q.status \in Active /\ Name(r.p) = Name(q.p) => r = q

\* One active position per pair, although each loop reads the active pairs once, the
\* pin may name a pair that is also static and ticks overlap: what makes two is only
\* an insertion inside another window's entry loop, or the status of an ended row
\* written back.
OnePositionPerPair == ~crossed => PairsHeldOnce

\* Two attempts at a pair are at least a cooldown apart, whichever window made them
\* and however the first one ended, unless one was inserted inside the loop of the
\* other.
AttemptsAreSpaced ==
  ~crossed =>
    \A r, q \in rows :
      r.id < q.id /\ Name(r.p) = Name(q.p) => q.opened - r.opened >= Cooldown

\* The P0 positions of the start that are still open: `open` passes no gate, so what
\* it adds later may break any limit.
PaperKept       == {b \in PaperOpen : ~b.later}
Granted(S)      == MapThenSumSet(LAMBDA r : r.granted, S)
WithinLeverage  == Granted(Held) + SizeOf(PaperKept) <= MaxLev
WithinVenueCaps ==
  \A v \in LegVenues :
    Granted({r \in Held : v \in {r.p.short, r.p.long}})
      + SizeOf({b \in PaperKept : v \in {b.p.short, b.p.long}}) <= VenueCap[v]
AtMostTwoLong   ==
  \A p \in Candidates :
    Cardinality({r \in Held : r.p.coin = p.coin} \cup {b \in PaperKept : b.p.coin = p.coin}) <= 2

\* Leverage, venue and correlation limits hold for the sizes the gate granted and the
\* P0 book of the start, pins and both books' opens and closes included, although it
\* sums configured sizes: as long as no entry was admitted behind one still in
\* sequence, which the gate does not count, and no window inserted inside the loop of
\* another.
LimitsHold == ~overtaken /\ ~crossed => WithinLeverage /\ WithinVenueCaps /\ AtMostTwoLong
=============================================================================
