---------------------------- MODULE PaperLedger ----------------------------
(***************************************************************************)
(* The P0 paper book: `paper_ledger.py open` and `close`, the drift job     *)
(* that accrues carry.  Each is a process of its own on one SQLite file,    *)
(* paper_v3.db (p0), with the tables positions, fills and accruals.  One    *)
(* commit is one step; an await of the code is a step boundary, and so is    *)
(* what lies between a read of the file and the commit that uses it.  Time   *)
(* is counted in hours.                                                      *)
(***************************************************************************)
EXTENDS Integers, SequencesExt

CONSTANTS Pairs,      \* the hand-picked pairs of the P0 basket
          Jobs,       \* drift jobs that may run at the same time
          MaxTime,    \* bound: hours modelled
          MaxPos      \* bound: positions ever opened

ASSUME LedgerBounds == IsFiniteSet(Jobs) /\ MaxTime \in Nat /\ MaxPos \in Nat \ {0}

VARIABLES now,        \* the clock, in hours
          p0,         \* paper_v3.db
          opener,     \* the `open` command: where it is, pairs still to do
          job         \* per drift job: where it is, its `now`, the positions to
                      \* do, the hours it has worked out for the first of them

None == -1
ledgerVars == <<now, p0, opener, job>>

\* CREATE TABLE IF NOT EXISTS: opening a missing file makes an empty database.
EmptyP0 == [ex |-> TRUE, positions |-> <<>>, fills |-> {}, accruals |-> {}]
db(d, empty) == IF d.ex THEN d ELSE empty

OpenIds(d) == {i \in DOMAIN d.positions : d.positions[i].ts_close = None}
Dup(d, p) == \E i \in OpenIds(d) : d.positions[i].pair = p

Idle == [at |-> "idle", now |-> 0, todo |-> {}, due |-> 0]
LedgerInit ==
  /\ now = 0 /\ p0 = EmptyP0
  /\ opener = [at |-> "idle", todo |-> {}]
  /\ job = [j \in Jobs |-> Idle]

----------------------------------------------------------------------------
(* paper_ledger.py open                                                     *)

OpenStart ==
  /\ opener.at = "idle"
  /\ opener' = [at |-> "next", todo |-> Pairs]
  /\ p0' = db(p0, EmptyP0)
  /\ UNCHANGED <<now, job>>

\* The duplicate test comes first; what follows awaits books and the chain.
OpenNext ==
  /\ opener.at = "next" /\ opener.todo # {}
  /\ \E p \in opener.todo :
       opener' = [at |-> IF Dup(p0, p) THEN "next" ELSE p,
                  todo |-> opener.todo \ {p}]
  /\ UNCHANGED <<now, p0, job>>

\* What the gates say of the fetched data.  Marks that disagree are logged
\* and nothing else.  A book too thin to walk on one side leaves a None that
\* the log line formats: a TypeError that ends the whole command.
Verdicts == {"pass", "refused", "thin book"}

Entered(d, p) ==
  LET id == Len(d.positions) + 1 IN
  [d EXCEPT !.positions = Append(@, [pair |-> p, ts_open |-> now, ts_close |-> None]),
            !.fills = @ \cup {id}]

OpenVerdict ==
  /\ opener.at \in Pairs
  /\ \E v \in Verdicts :
       /\ v = "pass" => Len(p0.positions) < MaxPos
       /\ p0' = IF v = "pass" THEN Entered(p0, opener.at) ELSE p0
       /\ opener' = IF v = "thin book" THEN [at |-> "idle", todo |-> {}]
                                       ELSE [opener EXCEPT !.at = "next"]
  /\ UNCHANGED <<now, job>>

OpenEnd ==
  /\ opener.at = "next" /\ opener.todo = {}
  /\ opener' = [opener EXCEPT !.at = "idle"]
  /\ UNCHANGED <<now, p0, job>>

run_close ==
  /\ \E i \in OpenIds(p0) : p0' = [p0 EXCEPT !.positions[i].ts_close = now]
  /\ UNCHANGED <<now, opener, job>>

----------------------------------------------------------------------------
(* drift_job.py                                                             *)

\* The open positions and `now` are read once, before the first await.
JobStart(j) ==
  /\ job[j].at = "idle"
  /\ p0' = db(p0, EmptyP0)
  /\ OpenIds(p0') # {}
  /\ job' = [job EXCEPT ![j] = [at |-> "spread", now |-> now, todo |-> OpenIds(p0'), due |-> 0]]
  /\ UNCHANGED <<now, opener>>

AccrualsOf(d, i) == {a \in d.accruals : a.pos = i}
last_accrual_ts(d, i) ==
  Max({a.ts : a \in AccrualsOf(d, i)} \cup {d.positions[i].ts_open})

\* Mutant: every job counts from the opening of the position.
MutHoursDue(d, i, t) == Max({t - d.positions[i].ts_open, 0})

\* Whole hours since the last row, never negative, at the job's own clock.
HoursDue(d, i, t) == Max({t - last_accrual_ts(d, i), 0})

\* The spread has been awaited; the position may have closed meanwhile.  The hours
\* are reckoned from the rows there are now.  No spread or no time, no row.
JobRead(j) ==
  /\ job[j].at = "spread" /\ job[j].todo # {}
  /\ LET i == Min(job[j].todo)
         hours == HoursDue(p0, i, job[j].now) IN
       \E known \in BOOLEAN :
         job' = IF known /\ hours > 0
                  THEN [job EXCEPT ![j].at = "insert", ![j].due = hours]
                  ELSE [job EXCEPT ![j].todo = @ \ {i}]
  /\ UNCHANGED <<now, p0, opener>>

\* The row is stamped with the time of writing, whatever was written since the
\* read; `by` tells the rows of two jobs apart, as their keys do.
JobInsert(j) ==
  /\ job[j].at = "insert"
  /\ LET i == Min(job[j].todo) IN
       /\ p0' = [p0 EXCEPT !.accruals =
                   @ \cup {[pos |-> i, ts |-> now, hours |-> job[j].due, by |-> j]}]
       /\ job' = [job EXCEPT ![j].at = "spread", ![j].todo = @ \ {i}, ![j].due = 0]
  /\ UNCHANGED <<now, opener>>

\* The drift rows and the summary change nothing any other part reads.
JobEnd(j) ==
  /\ job[j].at = "spread" /\ job[j].todo = {}
  /\ job' = [job EXCEPT ![j] = Idle]
  /\ UNCHANGED <<now, p0, opener>>

----------------------------------------------------------------------------
ClockTicks == /\ now < MaxTime /\ now' = now + 1
        /\ UNCHANGED <<p0, opener, job>>

LedgerNext ==
  \/ OpenStart \/ OpenNext \/ OpenVerdict \/ OpenEnd \/ run_close
  \/ \E j \in Jobs : JobStart(j) \/ JobRead(j) \/ JobInsert(j) \/ JobEnd(j)
  \/ ClockTicks
=============================================================================
