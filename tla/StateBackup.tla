---------------------------- MODULE StateBackup ----------------------------
(***************************************************************************)
(* Backup, rollback and restore of the paper book.  db_backup.py dumps      *)
(* paper_v3.db with iterdump: one SELECT per table, in name order, with no  *)
(* transaction around them, so commits of the other processes fall between  *)
(* two tables.  A rollback of the sandbox removes the untracked file and    *)
(* every process; the dumps survive in git.                                 *)
(***************************************************************************)
EXTENDS PaperLedger

CONSTANTS MaxDumps,   \* bound: dumps started
          MaxWipes    \* bound: rollbacks

ASSUME BackupBounds == MaxDumps \in Nat /\ MaxWipes \in Nat

VARIABLES dump,       \* the running dump: tables read so far, content, start
          saved,      \* the newest complete dump, none before the first
          taken,      \* dumps and rollbacks so far
          windows     \* ghost: when the dumps ran that the file descends from

backupVars == <<dump, saved, taken, windows>>
bookVars == <<now, p0, opener, job, dump, saved, taken, windows>>

\* Mutant: the order in which the code creates them, positions first.
MutDumpOrder == <<"positions", "fills", "accruals">>

\* The order in which iterdump reads the tables: by name.
DumpOrder == <<"accruals", "fills", "positions">>
NoDump == [at |-> 0, img |-> EmptyP0, start |-> None]

BookInit ==
  /\ LedgerInit
  /\ dump = NoDump /\ saved = {} /\ windows = {}
  /\ taken = [dumps |-> 0, wipes |-> 0]

\* The next table, as it is now.
ReadTable(t) ==
  CASE t = "accruals"  -> [dump.img EXCEPT !.accruals = p0.accruals]
    [] t = "fills"     -> [dump.img EXCEPT !.fills = p0.fills]
    [] t = "positions" -> [dump.img EXCEPT !.positions = p0.positions]

\* A missing file is skipped.  Older dumps beyond `keep` are pruned, never the
\* one just written.
DumpTable ==
  LET n == dump.at + 1
      img == ReadTable(DumpOrder[n])
      start == IF n = 1 THEN now ELSE dump.start IN
  /\ p0.ex
  /\ n = 1 => taken.dumps < MaxDumps
  /\ taken' = IF n = 1 THEN [taken EXCEPT !.dumps = @ + 1] ELSE taken
  /\ IF n = Len(DumpOrder)
       THEN saved' = {[db |-> img, ran |-> windows \cup {<<start, now>>}]} /\ dump' = NoDump
       ELSE saved' = saved /\ dump' = [at |-> n, img |-> img, start |-> start]
  /\ UNCHANGED <<ledgerVars, windows>>

\* The sandbox is rolled back: the file and every process are gone.
Wipe ==
  /\ taken.wipes < MaxWipes
  /\ taken' = [taken EXCEPT !.wipes = @ + 1]
  /\ p0' = [EmptyP0 EXCEPT !.ex = FALSE]
  /\ opener' = [at |-> "idle", todo |-> {}]
  /\ job' = [j \in Jobs |-> Idle]
  /\ dump' = NoDump /\ windows' = {}
  /\ UNCHANGED <<now, saved>>

\* `refusing to overwrite`: a tool that has recreated the file blocks this.
restore ==
  /\ ~p0.ex
  /\ \E s \in saved : p0' = s.db /\ windows' = s.ran
  /\ UNCHANGED <<now, opener, job, dump, saved, taken>>

BookNext == \/ LedgerNext /\ UNCHANGED backupVars
            \/ DumpTable \/ Wipe \/ restore

BookSpec == BookInit /\ [][BookNext]_bookVars

----------------------------------------------------------------------------
PosIds == DOMAIN p0.positions
EndOf(i) == IF p0.positions[i].ts_close = None THEN now ELSE p0.positions[i].ts_close
HoursAccrued(i) == MapThenSumSet(LAMBDA a : a.hours, AccrualsOf(p0, i))

\* A drift job reads the last row and inserts its own later, so jobs that run
\* together may each book the same hours; but n of them never book more than n
\* times the holding, whenever they read, write or restart, after a close or after
\* a restore (drift_job.py: hours since the last row, at the job's own clock).
CarryWithinHolding ==
  \A i \in PosIds :
    HoursAccrued(i) <= Cardinality(Jobs) * (EndOf(i) - p0.positions[i].ts_open)

\* A fill or an accrual always belongs to a position of the same database, in
\* the live file and in one restored from a dump taken while others wrote:
\* the dump reads the child tables before `positions`.
RowsHaveTheirPosition ==
  /\ p0.fills \subseteq PosIds
  /\ \A a \in p0.accruals : a.pos \in PosIds

\* A position without fills can only come from a dump that was running when it
\* was opened: the ledger commits both together, the dump reads them apart.  It
\* stays in later dumps and restores.
TornOnlyByDump ==
  \A i \in PosIds : i \notin p0.fills =>
    \E w \in windows : p0.positions[i].ts_open \in w[1]..w[2]

\* Both: rows of the three tables belong together in the live file and in every
\* restored one, and what a restore may tear is known (db_backup.py:45).
TablesBelongTogether == RowsHaveTheirPosition /\ TornOnlyByDump
=============================================================================
