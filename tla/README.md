# Arboretum: a verification project

Arboretum harvests funding-rate differences between perpetual-futures venues: it
holds a short on the venue that pays and a long of the same size on the venue that
charges. Its core is `scripts/v3_exec.py`, an engine that ticks every few seconds
over a SQLite database (`v3.db`), opens such pairs, watches them and unwinds them in
paper or dry-run mode. Around it are an entry gate, a chain of tripwires, daily event
jobs, a paper ledger, a scanner with its history scans, a desk for the operator, and
an older bot, the Harvester. This directory holds TLA+ modules translated from that
code, TLC configurations that check them on small instances, and machine-checked
proofs of the properties that matter most.

## 1. Inventory

| Part | Source | State | Operations | What is hard |
|---|---|---|---|---|
| M3 entry sequence | `v3_exec.py` 445-710 | `exec_positions`, `exec_orders`, `paper_fills`, `flags.pending_deadline` | start_entry, advance_resting, on_maker_filled, enforce_legging_cap, check_entry_patience, finish_open | every helper commits; the engine may die or abort the tick between any two commits |
| M3 unwind ladder | `v3_exec.py` 713-961 | `flags` JSON (`unwind_done_qty`, `zero_fill_streak`), orders, fills, `exec_drift` | start_unwind, progress_unwind, unwind_tranche, maker_to_taker, add_unwind_done, check_unwind_complete | progress is kept in the row and in the tick's copy of it; whole-object writes; the 98% rule |
| M3 exit triggers | `v3_exec.py` 965-1095, 1167-1185 | guards in `kv`, streaks in `flags` | compression, floor, listings, decay; `unwind --pos` from another process | four monitors act on one stale read; two-commit start_unwind |
| M2 tripwire chain | `v3_tripwires.py` | `tripwire_log`, `floor_params_*` | six checks in order before an entry | a hard stop, checks that raise, a log that may fail; TW5 also writes baselines, freezes, events |
| M4 event jobs | `v3_events.py` | `events`, `m4_*`, the same baselines and freezes | floor watch, listings, health, e1r | processes of their own on the same keys, a commit per event |
| M5 kill switch, gate, trickle | `v3_portfolio.py` | `kill_switch.json`, `pnl_log`, reads positions | kill_eval, kill_halt, m5_gate, trickle | decisions on a file up to an hour old; what counts as exposure; stamp and rows in two commits |
| Store | `v3_store.py`, `v3_backfill.py` | `kv`, `events`, `funding_obs` | kv_get, kv_set, ev (each commits), insert_funding, restamp | no transaction spans a read and a write; the interval of a row is known, inferred or unknown |
| Connectors | `v3_connectors.py` | module-level HTTP session | get_funding, cross_check, init, close | fallbacks; an interval inferred from four rows; who closes the session |
| Adapter seam | `v3_exec_adapter.py` | intents log | place_taker (walk of the book), place_maker, on_maker_fill, the parity report | a partial walk is `ok`; the log is written apart from the ledger the report compares it with |
| Venue adapters, settings | `v3_venue_adapters.py`, `v3_settings.py` | cached settings, intents | SignedRestClient, _require_real | several gates read at different times |
| Scanner, history scans | `v3_scanner.py`, `funding_history_scan*.py`, `sharpe_floorscan.py` | `arb_candidates`, watchlist, cache and checkpoint files | discover, collect, the pagers, the spread models | repeated and killed runs; venues page in five ways and settle meanwhile |
| Depth sampler | `depth_sampler.py` | none | fetch, walk, book_metrics | `walk` is under everything that has a price |
| Desk | `v3_desk.py` | pin file | scan, show, open (pin), basis, dash | the pin file is an input of the engine, written beside its tick; `open` starts an engine of its own; basis asks every leg twice |
| P0 paper ledger | `paper_ledger.py`, `drift_job.py`, `recover_pos5.py` | `paper_v3.db`: `positions`, `fills`, `accruals` | open, close, accrue | two jobs at once, each reading before it inserts, late accruals, a position closed in between |
| Backup | `db_backup.py`, `restore_state_merge.py` | dumps | backup, restore, merge | dumps are read table by table; a merge swaps the file under its users |
| Harvester (legacy bot) | `upload/code_extracted/` | `active_opps`, router reports | harvester_loop, monitor_loop, router, recovery | two asyncio loops share a dict across awaits; partial, lost and late orders |
| Reports, probes, research scripts | `scripts/` | none | read-only | none |

How they interact. `tick()` opens the database, fetches a snapshot of all books and
then, in order, advances every `unwinding` or `seq_open` row, runs the four monitors on
the `open` rows, and considers new entries: kill file, active pair, cooldown, venue
freezes, tripwire chain, M5 gate, start_entry. Several engines may run at once: the desk's `open` ends by
starting one. All communication with other processes
(the M4 jobs, the desk, the drift job, the operator's `unwind`) goes through the two
databases and two files. There is no lock: a commit is the unit of atomicity, and each
helper commits. Nothing of a tick survives its end except what was committed; an
exception ends the tick (`TICK ERR`) and the loop goes on. The Harvester is one process
and shares nothing with the rest; there the unit of atomicity is what runs between two
`await`s.

What can go wrong, line by line, is the `hazards` list of `PROJECT.json`, each with the
properties that watch it or the reason why none does.

## 2. Modules and what they model

### The life of one position

`EntrySequence` (with `EntryProps`, `HedgedEntry`, `EntryProofs`, `MCEntry`) is one
pair's entry. An action is the work between two commits, `pc` says where the handler is,
and `Crash` may happen wherever a tick is running. The variables are what the database
holds (`status`, `short`/`long` = lots of entry fills, `resting`/`ordAge`/`reposts` = the
short maker order, `deadline`) and what the tick holds (`pc`, `sview`, `lview`). A book
view is the outcome of the code's comparisons: `none` (no book), `hollow` (a mid but
nothing to walk), `touch`, `crossed` and `away` (best ask below our limit). Both entry
modes are there (`tt` and `sm_lt`), with the clamps as a choice of the gated size and a
thin book as a partial walk. `HedgedEntry` is the promise: short first and once, long
only behind it, open only with both, given up only while flat. `ImplementsHedgedEntry`
is the refinement: `HedgedEntry` is instantiated with the status, short and long of the
detailed specification, and its specification is the property.

`UnwindLadder` (with `UnwindProps`, `UnwindProofs`, `MCUnwind`) is one position's exit,
again commit by commit. `done`/`zeros` are the flags in the row, `mdone`/`mzeros` the
tick's copy, and every write is of the whole object the code writes, so lost updates are
in the model. `Entry` are the quantities of the snapshot, `Close` the smallest quantity
that counts as 98%. The depth of the rungs and the result of a walk are choices; `Slip`
lets a walk return more than was asked for, as a price move between sizing and walking
does.

`Triggers` (with `TriggerProps`, `TriggerProofs`, `MCTriggers`) has the four monitors of an open position,
in their order and each behind its guard (`since` counts ticks since the stamp). `copy` is
`pos["flags"]` as read at the top of the step; every monitor uses it, so a later one may
overwrite what an earlier one started. `start_unwind` is two commits. `cmd_unwind` runs
beside the engine, at any moment. The listings guard is global: `ahead` says that another
position took the day's check first. What trigger_listings does behind it is nothing: it
looks for rows in a list, the feed sends an object, so `delisted`, what the feed says of the
coin, is never read. `counted` remembers what compression checks have counted in the life of
the position, so that the streaks can be held against it.

### How a position comes to be

`EntryGate` is the tick over several pairs and both books, for any number of windows
(processes of `v3_exec.py run`): those started by hand, with `--pin-desk` or without, and
the one the desk's `open` starts beside them as its last step. A window reads the active
rows, advances them by id whatever they have become, reads the active pairs once, and takes
its candidates through cooldown, freezes and chain, m5_gate's sizing and limits, and the
insertion, each a step of its own between which every other process may move. The desk
runs its preflight, writes the pin, validates what it wrote, and opens its window. P0's
`open` inserts positions without asking the gate, its `close` ends them. What happens to a
row after start_entry is its status only. `granted` is the clamped size start_entry wrote,
while the gate sums configured sizes: `LimitsHold` compares the two. (The long leg of a
maker entry may take more than was granted, `v3_exec.py:589`; that is EntrySequence's
matter.) Two ghosts say when the code's own gaps have been used: `crossed`, a row was
inserted inside another window's entry loop or the status of an ended row written back;
`overtaken`, the gate admitted an entry while another was in sequence.

`TripwireChain` is run_chain: checks in order, the hard stop of the first, the skipped
rows, the verdict, a log commit that fails. `Tripwires` is what the checks measure, on
quoted books, rates and rows; `BookWalk` is `walk` and the paper adapter's place_taker, under
it and under `AdapterSeam`. TW5 is in `FloorWatch`.

`FloorWatch` (with `FloorProps`, `FloorProofs`): three probers of the venues' funding
parameters share one baseline per venue and coin; who meets a difference absorbs it and
then reports it, in further commits, as freezes and events. The kill file is derived from
the events and refreshed when an hour old; the entry path looks at freezes, the chain
and the file. Time is in hours and passes when no process is at work.

`EventJobs`: run_listings with its baseline, the events written one by one, deaths, stale
feeds and failed fetches in between. `Sessions`: the HTTP session that four programs hand between the fetcher
modules, with the chain in the middle of each.

### Books and files

`PaperLedger` has `open`, `close` and any number of drift jobs on `paper_v3.db`. A job reads
a position's last accrual and works out the hours due (`JobRead`), awaits, and inserts them
(`JobInsert`): what it writes is stale when another job or a restore came in between.
`StateBackup` extends this with the dump that reads table after table, the rollback that
removes the file, and the restore; `windows` are the times at which the dumps ran that
the live file descends from. `TrickleLog` is the hourly trickle with its stamp and
rows in two commits, and v3.db through dump, loss, restore and the merge that swaps the
file. `PortfolioProofs` is about these three and about `EntryGate`.

### Data

`HistoryPager`: the five ways venues page, one action per page, while the venue settles
and requests fail. A page is a set of settlement times, an end of what the venue has, and
what the pull has collected is a bag of them, so that a row taken twice shows; their order
in the list is left to `FundingSpread`. `HistoryCache`: what the scans resume from, over
v1, v2 and the Sharpe checkpoint, with kills in the middle of a dump. `FundingSpread`: the
spread models and the statistics on them, with the interval inferred from the rows as they
come; `backward` are the legs whose rows come newest first (bybit and okx in the first
scan, which does not sort them). `FundingStore`: the intervals of the rows of funding_obs as
they are loaded, fetched and re-stamped, in any order and as often as the operator runs it.
`Connectors`: get_funding with its fallback, the
inferred interval, cross_check. `Discover`: the daily poll, its candidates and the
watchlist. `RealSend`: settings, client and intents up to a request that leaves. `Desk`:
basis in its two passes, the first over what Sharpe shows, the second asking every leg of
every kept row again, each request a step that may fail or bring another value.
`AdapterSeam`: the live shadow under the engine, a step per log row and per ledger row, with
orders that rest, are crossed, withdrawn or converted, deaths and a full disk at each step,
and the join of the parity report over both logs. `ServiceProofs` is about these but for the
seam, about the chain and its measurements, the sessions and the listings.

### Harvester

`Harvester` (with `HarvesterProofs`, `MCHarvester`): both loops of the bot over one dictionary, a step per
stretch between two awaits; the router places two legs at once and each may be filled,
filled in part, fail, or answer late or never; the recovery protocol reduces what was
filled, and takes an unwind or a recovery that filled in part for filled. A restart forgets
the dictionary, and the venue keeps the position. `faults` and `astray` count the lost
replies and restarts, and the orders that ended otherwise than the router takes them to,
`raced` says that an iteration was lost behind a filled unwind; the loops go on behind all
of them, entries included, up to `MaxAfter` in a behaviour.

### Compositions for TLC

`MCServices` and `MCData` compose modules that share no state. A behaviour runs the one
`part` its initial state names while all others stand still, so the states of the parts
add up where they would multiply; the checks of each part are those it would have alone.
Where components do share state they are in one module (`EntryGate`: engines, desk and
both books; `FloorWatch`: engine, M4 watcher, kill file; `StateBackup`: ledger, jobs and
dump; `Triggers`: engine and operator). `FloorWatch` runs as a part of `MCServices`.

## 3. Runs

| Run | Question | Bounds and why they are enough |
|---|---|---|
| `entry_crash` | Do the commits of an entry implement the hedged entry, wherever the engine dies? | two lots (so half fills exist), cap 2 < patience 3 < cooldown 4 ticks, two reposts, gaps to 2 ticks (a gap can jump over the cap), two crashes (the second during the recovery from the first), all books, thin books, clamps |
| `entry_settles` | Does an entry end, and balanced? | the same limits; live and deep long book, no crash, since both properties are conditional on that |
| `entry_stranded` | (violation) is a naked short retried until it is hedged? | as above without crashes |
| `unwind_crash` | Does an exit close flat, and never exit more than the entry? | three lots of which two are 98%, so that a complete leg has a residue; one maker leg, one taker leg; one lot of slip; one crash |
| `unwind_exposure` | Does an exit end? | both books live, however thin; one crash, which `ExposureIsUnwound` allows and `UnwindCompletes` excludes |
| `triggers` | Do the monitors unwind on what they have counted, and do they in the end? | guards 1 and 2 ticks apart (compression is due more often than the rest), three thin or two inverted checks, one crash, operator on |
| `trigger_downgrade` | (violation) does a floor change exit immediately? | no crash, no operator |
| `delisting` | (violation) is a flagged coin unwound? | as above, the feed free to flag the coin or not; under `WF(Engine)`, so the engine ticks for ever |
| `harvester` | Do the venues hold what the bot believes? | two opportunities, one dated; a ccxt leg whose orders may rest, an HL leg that fills in part; room for two allocations and not three; one lost reply, restart or order astray, and one entry behind it or behind a lost iteration |
| `services` | Sessions, chain, listings; does a floor change shut its venue and halt entries? | four sessions (a program holds at most three at once), one chain (chains share only the freeze), three coins, three faults; two venues, one of them shared with the candidate pair, 1 h < 2 h < 3 h for 1 h < 6 h < 24 h, one change per venue, one killed process |
| `data` | The entry gate, the books, the data layer, the desk | two pages of two rows and a third that the budget cuts off; two coins, venues and runs of a scan; five hours; two pairs of one coin and two pins, two rows, a clock of one cooldown, in two parts: two windows and the desk over an empty P0 book (`pairs`), and one window with the desk's pin, clamps, limits and a P0 book that opens and closes (`limits`), each ending with the insertion the properties except; two ledger and two log rows of the shadow, one operation cut; two rows of basis that share a leg; two jobs, positions and hours, a dump and a rollback (only one of the two once there are two positions), and two of each with one position in the first hour: that is what it takes to restore a torn dump of a restored book; three hours of trickle |
| `interval` | (violation) is the inferred interval the venue's? | the instance of `data` with one dump and one rollback |

`CHECK_DEADLOCK FALSE` is set where the system may stop: a closed position
(UnwindLadder), a started unwind (Triggers; the engine of `delisting` never stops), a command that has answered or a bounded
part that is done (services, data, interval).

Every property of a passing run has a mutant in `PROJECT.json`: an operator named
`Mut...`, next to the definition it replaces, that a plausible slip in the code would
give, and under which TLC finds the property violated.

### What the passing runs show

- Entry: `ImplementsHedgedEntry` (the refinement), `LongOnceWithoutCrash`,
  `CapNeverExtended`, `BalancedWhenUnclamped`, `EntrySettles`.
- Exit: `ExitWithinEntry`, `ClosedIsFlat`, `UnwindCompletes`, `ExposureIsUnwound`;
  `StreaksAreEarned` (an exit stands on enough counted checks, stale copies or not),
  `CompressionUnwinds`.
- Floor watch: `NoSilentChange` (absorbed is reported), `KillWithinTheHour`,
  `ChangeShutsVenue`.
- Entry gate: `OnePositionPerPair` and `AttemptsAreSpaced` over several windows, desk and
  operator: nothing breaks them but an insertion inside another window's loop, or the
  status of an ended row written back; `LimitsHold` (leverage, venue caps and correlation
  for the sizes granted and the P0 positions of the start, unless an entry overtook one
  still in sequence or was inserted so).
- Services: `PassMeansAllSix`, `SessionsAreHandedOver`, `NoMissedDelisting`,
  `DelistingIsReported`.
- Books: `CarryWithinHolding` (n jobs book at most n times the holding), `TablesBelongTogether`, `HourBookedOnce`.
- Data: `PullIsFaithful`, `ResumesSoundly`, `FiguresMeanWhatTheySay` (the loops against
  reference definitions), `RightRowsStayRight`, `DepthIsMeasured` (the walk against the
  best way to fill), `QuarantineIsRight`, `ParityIsExplained` (what the parity report counts
  against the shadow is a cut, a clamp or a conversion), `RealSendNeedsAllGates`,
  `BasisRowsAgree`, `RepeatedPollAgrees`.
- Harvester: `VenueMatchesBooks`, `NoCrossedExecutions`, `StaleIsUnwound`.

### Fairness
- EntrySequence, UnwindLadder: `WF(Engine)`. `main` calls `tick()` again and again, and
  a handler that has begun runs to its next commit. No fairness on books, crossings or
  crashes: progress must come from the counters and clocks.
- Triggers: `WF(Engine)`, as above. Nothing makes an operator or a crash appear.
- EventJobs: `WF` of each step of the listing job (cron starts it daily, what runs goes
  on); none of faults, which are bounded.
- Harvester: weak fairness of both loops' steps, which asyncio schedules, and of the
  answers to orders, which the timeouts bound; strong fairness of time, which passes
  between steps and is not always enabled; none of faults or signals.
- All other modules: none, their properties are safety.

### Disagreements between code and documents

With a run:
1. `entry_stranded`: the forced taker past the 90 s cap drops the deadline even when it
   fails, and nothing retries the naked short again.
2. `trigger_downgrade`: decay, fired in the tick of a floor change, rewrites the immediate
   exit as a ladder exit.
3. `interval`: "median interval hours" is the default on venues that list their
   settlements newest first, since every step is negative. The first history scan infers
   in the same way (`funding_history_scan.py:180`, "events: sorted") from the rows of
   bybit and okx, which it never sorts: both are always taken for 8 h.
4. `delisting`: `download/15_p3_exec_engine.md:69` has an immediate exit for a coin the
   listings feed flags; trigger_listings takes list rows with `base_coin`
   (`v3_exec.py:1030`), the feed sends `{"rows": [...]}` with `token_symbol`
   (`scripts/sharpe_openapi.json:10370`), and no exit ever comes.

Met while modelling and in the models, without a run of their own:

- Engine. The long leg of a maker entry uses the configured, not the clamped size
  (`v3_exec.py:589`). A residue below 2% posts an order that rests for ever (`:959`).
  check_unwind_complete has no status guard (`:768`), so a residue filled in the closing
  tick writes a second drift row. A crash after the long fill makes the next tick take the
  leg again; one between the last flags and the close leaves a flat row unwinding for ever
  (`:841`). Thin and inverted spreads reset each other's streak (`:991`). `unwind --pos`
  between a tick's read and write of the flags loses the exit snapshot (`:1285`). An
  unwinding position is not monitored (`:1170`), so an exit begun as a ladder is never
  turned into an immediate one. freeze_active deletes by key what it judged by value
  (`:327`). "3 consecutive" checks (`download/15_p3_exec_engine.md:66`) are three counted
  ones: a crash, a command or another monitor that writes an old copy back takes checks out
  of the row, and thin checks with a lost wide one in between add up.
- Floor watch. Another prober consumes a change of a held leg and the held position is not
  unwound (`v3_events.py:347`); the M4 watcher's freeze is in a format that never expires
  (`:348`).
- Entry gate. Two windows can enter one pair: the duplicate guards
  (`download/15_p3_exec_engine.md:154`, `download/22_p5_headless_desk_scope.md:133`) are read
  once per loop, the desk's `open` starts a window beside a running one
  (`v3_desk.py:1154`), and no lock keeps them apart (`v3_exec.py:1317`). "Across BOTH books"
  (`download/16_p4_events_portfolio.md:21`) holds for the engine's entries only: P0's `open`
  asks no gate (`paper_ledger.py:279`). m5_gate leaves out entries in sequence
  (`v3_portfolio.py:282`), which `LimitsHold` has to except; a pair cap of 0 clamps nothing (`:275`); the cooldown runs
  from the opening though `v3_desk.py:242` calls it post-close; the desk refuses on any
  freeze key, also an expired one.
- Chain and events. A book walked to its end counts as a slip, though the header of
  `v3_tripwires.py` says that the notional is filled; the interval is not compared when it
  is unknown; a check that raises does not stop the chain. The listings guard is stamped
  before the fetch, an empty feed resets the baseline, and the held alert comes only
  when both venues are gone.
- Books. "Incremental funding carry since the last accrual row" (`drift_job.py:5`) is booked
  twice by two jobs that run together, since each reads before it inserts (`:159`, `:165`).
  Two `open` at once can open a pair twice; a thin book ends the whole `open`; a
  dump is not one transaction; a tool that opens the missing file creates it and blocks
  the restore; run_close accrues nothing for its last stretch.
- Data. The HL pager jumps an hour; the v1 cache keeps failed pulls and the Sharpe
  checkpoint an empty answer for a failed coin; the per-event zero-fill model divides by
  the interval; restamp looks at one row of a series. Its docstring (`v3_backfill.py:90`)
  says that intervals are stamped from the live book; a row it has not seen keeps what the
  fetch gave it. An unmet gate of a real send raises
  after a row that is not dry. Coins below the floor on first sight are never watched
  later, and a crash between the commit and the file loses a day's watchlist unless the
  poll is repeated that day.
- Seam. "Source-level wiring (all 4 seam points)" (`download/20_p4a_adapter_seam.md:56`) and
  drill "plus any organic fills must stay 1:1" (`:110`): a resting order that is converted
  never reaches the adapter (`v3_exec.py:613-637`), and the taker tranche of an unwind is
  clamped after the adapter has logged it (`:891`); both count against the shadow.
- Harvester. "Unwind with ACTUAL filled sizes" (`main.py:176`): an unwind or a recovery that
  fills in part is taken for filled (`ccxt_adapter.py:122`), the rest of the position stays
  at the venue and out of the books, and so does what an unwind filled on one leg leaves; a
  lost iteration (`main.py:133`) unwinds a position twice. The adapter reads `level` of the HL answer, never `levels`;
  `MAX_OPP_AGE_SECONDS` is never read; both legs take the whole allocation while
  can_allocate asks for one; a reduce-only recovery cannot re-open; the next funding time is taken for an expiry; `active_opps`
  is in memory only.

Met while reading, in parts no module covers: `open --short v` or `--long v` alone is
ignored (`v3_desk.py:201`, `download/22_p5_headless_desk_scope.md:111`).

## 4. Proofs

Every theorem holds for all values of the constants that satisfy the named assumption of
the module it is about. An assumption says what kind of thing a constant is (limits are
natural numbers, a fee is one per venue, a page has more than one row), and the order of
the code's periods where an argument needs it (`FloorConstants`: the kill file is
refreshed sooner than a freeze ends). Two say more, and both are bounds of the model:
`PagerBounds`, that fewer settlements than a page fall into one pull (a page is 100 to 1000
rows and a pull takes seconds), and `TripBounds`, that a book which is walked has a level.
`LimitsKept` starts from books that satisfy the limits: the code never checks a book it
finds.

The pattern is always the same: an inductive invariant, one lemma per action that it is
kept, and a temporal step. What follows says why the invariant is what it is.

### A position: EntryProofs, UnwindProofs, TriggerProofs

`EntryProofs`: `EntryInvariant`, from which follow `TypeCorrect`, `OpenHedged`,
`CancelledFlat`, `ShortOnce`, `LongOnce`, `Balanced`; the action property `CapMonotone`;
and `EntryImplementsPromise`, that the commits implement `HedgedEntry` step by step. None
of these is inductive: "open only when hedged" depends on every path into `FinishOpen`,
and a restart enters the handlers with only the row. `EntryInv` therefore has two halves:
`WhereTheTickIs` ties each commit point to what has been filled, and `WhatTheRowSays`
states what any later tick may conclude from the row alone: a resting order means nothing
is filled and no deadline runs, a deadline means the short leg is filled. The second half
is what a crash cannot destroy, and it is why the patience check, which looks only at
orders, never cancels a filled row.

`UnwindProofs`: `UnwindInvariant`, and from it `UnwindTypeCorrect`, `ClosedFlat`,
`ExitBounded`. The lots a tick holds between two
commits, the flags and the ledger are three accounts of one thing. `Booked` ties them: the
flags never run ahead of the ledger, crash or not, and without a crash they differ exactly
by the fill in hand. `InHand` and `Resting` say that what is in hand or resting still fits
into what the leg has to exit. `ClosedFlat` then follows even with crashes, since
completeness is judged by the flags, the smaller account.

`TriggerProofs`: `ExitsStandOnStreaks`. A streak is counted in the tick's copy of the flags
and stands in the row only after a later commit; crashes drop copies, other monitors and the
operator's command write older ones back. The invariant says of the row, of the tick's copy
and of the command's copy alike that its streaks are `Earned`: no longer than what has been
counted. Each check counts one more of its kind and writes a copy whose streak is one longer
than an earned one; whatever is rewritten from wherever was earned when it was read, and
what has been counted never shrinks. Counting stops at the length of the streak
(`CountsCapped`), as nothing reads further.

### Floors: FloorProofs

`NoChangeIsSilent`, `KillFileIsTimely` and `ChangedVenueIsShut`. A prober absorbs a
difference first and reports it in later commits, so the invariant keeps the book of what
a running prober still owes: `Reported` (events) and `ShutSince` (freezes: each noted
change has one, no older than its note, or it is of this hour and owed). `KillKnows` says
what the kill file has seen, `ChainIsOpen` that an entry between the chain and its gate
stands before no older change of its venues, since no hour passes in between.

### Gate and books: PortfolioProofs

`PairsAreHeldOnce`, `CooldownSpacesAttempts`: every window reads the active pairs once,
before it goes through its list, while the other windows, the desk and the operator change
rows. The list names no pair twice, the pin included (`PairsAreDistinct`). As long as nothing
has crossed, the names a window read cover every active row of the pairs it has not come to
(`ActCovers`), and the candidate it has let into the chain is off its cooldown (`Rested`):
rows become active only by an insertion, an insertion of another window while this one is in
its loop is a crossing, and so is a write that revives an ended row. Rows are numbered as
they are inserted (`Numbered`), so a write finds the row it read. The exception is what
the code does not exclude; see Disagreements.

`LimitsKept`: the gate sums configured sizes over both books and grants a clamped size,
and rows end or move in between. Each limit compares a sum over a set of rows; the proof
shows that what was granted is at most what was counted (`RowGrant`), that a row which
goes on or ends leaves each sum at most as large, and that a grant fits under the limit
because the gate counted every row in the set, unless one was still in sequence. What P0
opens later is counted by the gate and excepted from the claim, since nothing limits it.

`CarryIsEarned`, `RowsBelong`: a job computes hours from its own clock and the position's
last row, inserts them later, and other jobs insert in between, or a restore brings back an
older file under it. So the account is kept per job: the hours one job has booked never
outrun the holding, and n jobs book at most n times. `Sane` is said of every copy of the
database at the time it was read. `DumpFits` says what a half-read dump is to the live file
(older, table by table), `JobsFit` what a job's list is to it, `SavedFit` that every
complete dump was sane. `TornIn` follows a torn position through restores; an earlier form
of the property, which looked only at the newest dump, was false: TLC restores a dump
taken of a book that was itself restored from a torn one, and the invariant could not be
closed for the same reason. The model now keeps the windows of a file's ancestors.

`TrickleBooksOnce`: stamp and rows are two commits. `TrickleInv` counts, for every hour,
its bookings against the restores so far, and for the hours that can still be written
(later than the stamp, or being written) one less.

### Services and data: ServiceProofs

- Chain: a verdict looks only at logged rows, where "skipped" is not "fail"; that only a
  stopped chain skips, and a stopped one has a failed first row, makes a PASS stand on six.
- Sessions: the invariant is the three ways the variables can stand, outside every block,
  inside, and the chain from its own command line. A stale variable never survives `Enter`.
- Listings: while a diff is written, what the new baseline will drop is already written
  or still to be; a death forgets the diff and leaves the old baseline.
- Discovery: a poll of today found what a poll would find now, as `NewCoins` does not look
  at today's rows.
- Real send: loaded settings were valid when loaded, a client is one of a shipped venue,
  and an order keeps the settings it left with.
- Desk: `LegsAgree`; a row of the second pass takes its rate and price from what was fetched
  for its leg, once for all rows, or from the first pass (`RowsFromContext`).
- Caches: `DoneIsAnswered` (v2: a coin set aside was answered or tried), and
  `CheckpointFollows` (Sharpe: the file is the cache but for the coin being written).
- Store: `RestampSticks`, an action property: a load or a fetch inserts only what is not
  there, and restamp writes the venue's interval or skips the series. Connectors: `QuarantineRight`, where one missing settlement
  makes one gap of four twice as long and leaves the median.
- Pager: `PullTiles`. Each kind has its own account of what lies on the near side of the
  cursor (`ForwardAt`, `BybitAt`, `OkxAt`, `DydxAt`, `BitgetAt`). A page is an upper or lower
  end of a set, so the union of ends is an end; bitget's numbered pages shift when the
  venue settles, and overlap rather than skip because they shift by less than a page.
- Walk: `DepthMeasured`. The fold over the levels is the pair of sums of what each level
  gives, which is what the better ones left open up to what it holds; and two walks of one
  size whose slips are within the gate lie at most that far apart.
- Spread: `FiguresMean`. Each of the four loops of the scans is a fold; `CumulateSteps`,
  `PrefixSteps`, `EpisodeSteps` and `FillSteps` lay it out as the sequence of its states,
  and an invariant of the loop says what it holds after each step: the last, the highest
  and the worst fall of the carry so far (`Falls`), the runs so far and whether the last
  one is open (`Told`), each leg's last print and the spread up to the hour (`FilledAt`).
  The theorem is about any two histories: the state machine only adds that rates are whole
  numbers and that histories are finite.

### Harvester: HarvesterProofs

`BooksAreTrue`, `LoopsStayApart`. `LoopShape` says which opportunity each loop may have in
flight (the harvest loop one that is not tracked, the monitor the tracked one its index
points at); `BookShape` that the list is without repetition and what the monitor is to drop
lies before its index, so that neither an append nor the removal moves the index under it.
`LotsMatch` accounts for the lots of an execution in each of its stages, under `Sound`: no
reply was lost, no order ended astray and no iteration was lost. `RestIsAstray` says that a
remainder rests only behind an order astray, so that a late fill is one too.

### Lemmas

`SumLemmas`: sums over finite sets as the community modules compute them, in the order
CHOOSE picks. The prover's library gives induction only through an operator parameter,
which cannot be instantiated; `SubsetInduction` and `UpToInduction` say it of a set of
subsets, or of numbers, in its place, and from them follow that a sum does not depend on
the order, grows by what is added, and that a finite set of integers has a least and a
greatest element. `RankExists` and `PlaceExists` put finitely many integers in order (the sorted
days and hours, the median gap), and `FoldExists` gives every fold over the positions of a
sequence its table of states, on which the proofs of the loops stand.

### Proved and not proved

Proved for all constants: of the entry `LongOnceWithoutCrash`, `BalancedWhenUnclamped`,
`CapNeverExtended`, `ImplementsHedgedEntry`; of the exit `ClosedIsFlat`, `ExitWithinEntry`,
`StreaksAreEarned`; `NoSilentChange`, `KillWithinTheHour`,
`ChangeShutsVenue`; `OnePositionPerPair`, `AttemptsAreSpaced`, `LimitsHold`;
`CarryWithinHolding`, `TablesBelongTogether`, `HourBookedOnce`; `PassMeansAllSix`,
`SessionsAreHandedOver`, `NoMissedDelisting`, `RepeatedPollAgrees`,
`RealSendNeedsAllGates`, `BasisRowsAgree`, `ResumesSoundly`, `RightRowsStayRight`,
`QuarantineIsRight`, `PullIsFaithful`, `DepthIsMeasured`,
`FiguresMeanWhatTheySay`;
`VenueMatchesBooks`, `NoCrossedExecutions`.

These are all the safety properties of the passing runs but one: `ParityIsExplained` is only
model-checked, since its join counts bags of rows. Only model-checked, too, is liveness,
which is out of the prover's reach: `EntrySettles`, `UnwindCompletes`, `ExposureIsUnwound`,
`CompressionUnwinds`, `DelistingIsReported`, `StaleIsUnwound`.

## 5. Abstractions

- Quantities are lots and times are ticks or hours; prices appear only as the outcome of
  the code's comparisons, except in BookWalk and what stands on it. The 1e-6 tolerance of
  the repost check is folded into `away`. Quotients are compared by multiplying through,
  so nothing is rounded that the code does not round.
- The engine's cost ledger (`cost_bps`, drift ratios), fees and funding are left out of
  the entry and the ladder.
- The ladder's legacy USD rule, reached only by a row without entry snapshot, is left
  out; the notional bookkeeping beside the quantities too.
- FloorWatch takes a prober's comparison and replacement of a baseline as one step, and
  freeze_active's read and delete likewise. An exception inside a monitor is taken as a
  killed tick.
- EntryGate takes the chain as its verdict and the freezes and kill file as free
  variables: any order of their changes is explored, more than the code can make.
- Read-only commands (Connectors, Tripwires) are one step from any
  input of the instance to their answer; their hard part is the data and the failures.
- EntryGate's windows take the outcome of a row's sequence or ladder as one status step, and
  a candidate's pair cap as any of `Caps`. FundingStore counts intervals in hours; the
  rounding of a fetched distance (`v3_backfill.py:158`) is exact on its grid of whole hours.
- Harvester: the funding-squeeze factor of the gate is one more reason to refuse a
  signal; a size falls back on the allocation only for a leg without a fill, which a
  held position never has; an unwind that finds no price ends like one that fails: the
  position is kept and retried.
- Ages saturate just past the largest limit they are compared with. `MaxGap`,
  `MaxCrashes`, `MaxChanges`, `MaxFaults`, `MaxMishaps`, `MaxAfter`, `MaxRows`, `MaxPaper`,
  `MaxClock`, `MaxRuns`, `MaxOps`, `MaxCuts`, `Slip` and
  the like are bounds of the model, not of the code; each says so where it is declared.

## 6. Not modelled, and what is left

Not modelled: reports, probes, snapshots and research scripts (read-only, without state);
signatures, URLs, symbol tables and parsers (conversions and I/O; models take their
results as inputs); the one-off rebuild of old accruals; e1r, whose rows nothing reads; the
health job, whose baseline only feeds kill source 3 (a free Boolean where the kill file is
evaluated); the desk's choice of a combination, a filter and a sort;
the persistence of the Harvester's history and its skew figures.

Left of the plan, in this order:
1. `PositionLife`: EntrySequence, Triggers and UnwindLadder composed into the life of one
   row, shown to implement `seq_open -> open -> unwinding -> closed`.
2. Two engine processes in one entry sequence or ladder (EntryGate has them at the level of
   statuses); freeze_active's race with the M4 watcher.
