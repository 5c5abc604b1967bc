---------------------------- MODULE TrickleLog ----------------------------
(***************************************************************************)
(* The hourly P&L trickle of v3_portfolio.py and the file it writes, v3.db,  *)
(* through dump, rollback, restore and the layered merge that swaps the     *)
(* file under its users.  The positions of both books change freely here:   *)
(* PaperLedger and EntryGate model what changes them.  Time is in hours.    *)
(***************************************************************************)
EXTENDS Integers, SequencesExt

CONSTANTS Positions,  \* positions of both books
          MaxHours,   \* bound: hours modelled
          MaxCopies,    \* bound: dumps, and restores with merges
          MaxLosses   \* bound: rollbacks

ASSUME TrickleBounds ==
  /\ IsFiniteSet(Positions) /\ MaxHours \in Nat /\ MaxCopies \in Nat /\ MaxLosses \in Nat

VARIABLES atHour,     \* the clock
          held,       \* positions open or unwinding in either book
          v3,         \* v3.db: the stamp, the rows, a repaired engine row
          trickling,  \* the trickle has stamped and not yet written: its ts
          copying,    \* the running dump of v3.db
          dumped,     \* its newest complete dump
          used        \* dumps, restores and rollbacks so far

trickleVars == <<atHour, held, v3, trickling, copying, dumped, used>>

Never == -1
EmptyV3 == [ex |-> TRUE, kv |-> Never, pnl_log |-> <<>>, repaired |-> FALSE]

\* iterdump reads the tables in name order.
TableOrder == <<"exec_positions", "kv", "pnl_log">>
NoCopy == [at |-> 0, img |-> EmptyV3]

TrickleInit ==
  /\ atHour = 0 /\ held = {} /\ v3 = EmptyV3 /\ trickling = Never
  /\ copying = NoCopy /\ dumped = {}
  /\ used = [dumps |-> 0, restores |-> 0, losses |-> 0]

\* Opening a missing file makes an empty database.
Connected == IF v3.ex THEN v3 ELSE EmptyV3

\* Mutant: the guard compares with the wrong sign, so it never holds back.
MutDue(d) == d.kv = Never \/ atHour - d.kv >= 0

Due(d) == d.kv = Never \/ atHour - d.kv >= 1

\* The cadence stamp is committed before any row.
TrickleStamp ==
  /\ trickling = Never /\ Due(Connected)
  /\ v3' = [Connected EXCEPT !.kv = atHour]
  /\ trickling' = atHour
  /\ UNCHANGED <<atHour, held, copying, dumped, used>>

\* One row for each position held when the books are read, in one commit; all
\* rows carry the time read just after the stamp.
TrickleRows ==
  /\ trickling # Never
  /\ v3' = [v3 EXCEPT !.pnl_log =
              @ \o SetToSeq({[pos |-> p, ts |-> trickling] : p \in held})]
  /\ trickling' = Never
  /\ UNCHANGED <<atHour, held, copying, dumped, used>>

ReadV3(t) ==
  CASE t = "exec_positions" -> [copying.img EXCEPT !.repaired = v3.repaired]
    [] t = "kv"             -> [copying.img EXCEPT !.kv = v3.kv]
    [] t = "pnl_log"        -> [copying.img EXCEPT !.pnl_log = v3.pnl_log]

dump_state ==
  LET n == copying.at + 1  img == ReadV3(TableOrder[n]) IN
  /\ v3.ex
  /\ n = 1 => used.dumps < MaxCopies
  /\ used' = IF n = 1 THEN [used EXCEPT !.dumps = @ + 1] ELSE used
  /\ IF n = Len(TableOrder)
       THEN dumped' = {img} /\ copying' = NoCopy
       ELSE dumped' = dumped /\ copying' = [at |-> n, img |-> img]
  /\ UNCHANGED <<atHour, held, v3, trickling>>

\* The sandbox is rolled back: the file and the processes are gone.
Rollback ==
  /\ used.losses < MaxLosses
  /\ used' = [used EXCEPT !.losses = @ + 1]
  /\ v3' = [EmptyV3 EXCEPT !.ex = FALSE]
  /\ trickling' = Never /\ copying' = NoCopy
  /\ UNCHANGED <<atHour, held, dumped>>

\* db_backup.py refuses to overwrite a file, empty or not.
restoreV3 ==
  /\ ~v3.ex /\ used.restores < MaxCopies
  /\ v3' \in dumped
  /\ used' = [used EXCEPT !.restores = @ + 1]
  /\ UNCHANGED <<atHour, held, trickling, copying, dumped>>

Mergeable(d) == ~d.repaired
merge ==
  /\ used.restores < MaxCopies /\ copying = NoCopy
  /\ \E d \in dumped : Mergeable(d) /\ v3' = d
  /\ trickling' = Never
  /\ used' = [used EXCEPT !.restores = @ + 1]
  /\ UNCHANGED <<atHour, held, copying, dumped>>

\* recover_pos5.py inserts, once, an engine row with the status "OPEN", which
\* is none of the engine's.
recover ==
  /\ v3.ex /\ ~v3.repaired
  /\ v3' = [v3 EXCEPT !.repaired = TRUE]
  /\ UNCHANGED <<atHour, held, trickling, copying, dumped, used>>

BooksChange == /\ held' \in SUBSET Positions /\ held' # held
               /\ UNCHANGED <<atHour, v3, trickling, copying, dumped, used>>
AnHour ==  /\ atHour < MaxHours /\ atHour' = atHour + 1
               /\ UNCHANGED <<held, v3, trickling, copying, dumped, used>>

TrickleNext == \/ TrickleStamp \/ TrickleRows \/ dump_state \/ Rollback \/ restoreV3
               \/ merge \/ recover \/ BooksChange \/ AnHour
TrickleSpec == TrickleInit /\ [][TrickleNext]_trickleVars

----------------------------------------------------------------------------
\* An hour of a position is booked once.  A dump reads the stamp before the
\* rows, so each restore may let the newest hour be booked once more.
HourBookedOnce ==
  \A p \in Positions, t \in 0..atHour :
    Cardinality({k \in DOMAIN v3.pnl_log : v3.pnl_log[k] = [pos |-> p, ts |-> t]})
      <= 1 + used.restores

=============================================================================
