---------------------------- MODULE HistoryCache ----------------------------
(***************************************************************************)
(* The files the history scans resume from.  The funding scans fetch their  *)
(* coins concurrently and rewrite one JSON file now and then (main of       *)
(* funding_history_scan and of its v2); the Sharpe scan goes coin by coin   *)
(* and replaces its checkpoint after each (sharpe_floorscan).  A run may be *)
(* killed anywhere, a pull may fail or come back short, and the next run    *)
(* may look for other coins on other venues.                                *)
(***************************************************************************)
EXTENDS Integers, FiniteSets, FiniteSetsExt, Functions

CONSTANTS Coins, Venues,
          Slots,     \* the semaphore (4 in v1, 5 in v2)
          SaveEvery, \* collected coins between two saves (10, 20)
          MaxRuns    \* bound: runs of the scan

ASSUME CacheBounds == /\ IsFiniteSet(Coins) /\ IsFiniteSet(Venues)
                      /\ {Slots, SaveEvery, MaxRuns} \subseteq Nat \ {0}
                      /\ "torn" \notin Coins

VARIABLES scan,      \* the program: v1, v2 or sharpe
          cand,      \* coin -> the venues this run wants; {} is no candidate
          cache,     \* coin -> venue -> history, as the process holds it
          file,      \* what the file holds: a cache, or torn
          busy,      \* coins being fetched
          done,      \* coins whose task ended
          count,     \* coins counted in this run
          tried,     \* <<coin, venue>> this run asked for
          saving,    \* a dump has truncated the file and not finished
          runs, scanAt

cacheVars == <<scan, cand, cache, file, busy, done, count, tried, saving, runs, scanAt>>

Torn == [c \in {"torn"} |-> <<>>]
NoCache == <<>>                      \* the empty function

\* A pull's answer: enough rows for the evaluation (30), too few, or none.
Histories == {"good", "few", "none"}

CacheInit ==
  /\ scan \in {"v1", "v2", "sharpe"}
  /\ cand = [c \in Coins |-> {}]
  /\ cache = NoCache /\ file = NoCache /\ busy = {} /\ done = {} /\ count = 0
  /\ tried = {} /\ saving = FALSE /\ runs = 0 /\ scanAt = "idle"

\* A run begins: it picks its coins and loads the file; a file that does not
\* parse is an empty cache.
StartScan ==
  /\ scanAt = "idle" /\ runs < MaxRuns
  /\ cand' \in {f \in [Coins -> SUBSET Venues] : \E c \in Coins : f[c] # {}}
  /\ cache' = IF file = Torn THEN NoCache ELSE file
  /\ busy' = {} /\ done' = {c \in Coins : cand'[c] = {}} /\ count' = 0 /\ tried' = {}
  /\ runs' = runs + 1 /\ scanAt' = "collecting"
  /\ UNCHANGED <<scan, file, saving>>

Has(c, v) == c \in DOMAIN cache /\ v \in DOMAIN cache[c]

\* Mutant: v2 keeps v1's rule, a venue's key is enough.
MutCached(c) ==
  IF scan = "sharpe" THEN c \in DOMAIN cache
  ELSE \A v \in cand[c] : Has(c, v)

\* The test that spares a coin its pulls: v1 looks for the venue's key, v2 for
\* 30 rows; the Sharpe scan takes every coin of its checkpoint for pulled.
Cached(c) ==
  IF scan = "sharpe" THEN c \in DOMAIN cache
  ELSE \A v \in cand[c] : Has(c, v) /\ (scan = "v2" => cache[c][v] = "good")

Waiting == Coins \ (busy \cup done)

\* collect gets a slot; a cached coin gives it back at once (v1 counts it).
BeginCoin(c) ==
  /\ scanAt = "collecting" /\ ~saving
  /\ c \in Waiting
  /\ Cardinality(busy) < IF scan = "sharpe" THEN 1 ELSE Slots
  /\ IF Cached(c) THEN done' = done \cup {c} /\ UNCHANGED busy
                  ELSE busy' = busy \cup {c} /\ UNCHANGED done
  /\ count' = IF Cached(c) /\ scan = "v1" THEN count + 1 ELSE count
  /\ UNCHANGED <<scan, cand, cache, file, tried, saving, runs, scanAt>>

\* Its pulls are over, an exception being no rows: the new histories replace
\* all the coin had.  The funding scans now and then begin to rewrite their
\* file in place; the Sharpe scan writes a file beside its own after each coin.
Collected(c, h) ==
  /\ scanAt = "collecting" /\ ~saving
  /\ c \in busy
  /\ cache' = [x \in DOMAIN cache \cup {c} |-> IF x = c THEN h ELSE cache[x]]
  /\ busy' = busy \ {c} /\ done' = done \cup {c}
  /\ tried' = tried \cup {c} \X DOMAIN h
  /\ count' = count + 1
  /\ saving' = (scan = "sharpe" \/ count' % SaveEvery = 0)
  /\ file' = IF saving' /\ scan # "sharpe" THEN Torn ELSE file
  /\ UNCHANGED <<scan, cand, runs, scanAt>>

Collect == \E c \in Coins : \E h \in [cand[c] -> Histories] : Collected(c, h)

\* The dump reaches the end of the file; the Sharpe scan renames its own over
\* the checkpoint (os.replace).
SaveEnds ==
  /\ saving
  /\ file' = cache /\ saving' = FALSE
  /\ scanAt' = IF scanAt = "last save" THEN "finished" ELSE scanAt
  /\ UNCHANGED <<scan, cand, cache, busy, done, count, tried, runs>>

\* Every task ended: the funding scans save once more.
AllCollected ==
  /\ scanAt = "collecting" /\ ~saving /\ done = Coins
  /\ IF scan = "sharpe" THEN scanAt' = "finished" /\ UNCHANGED <<file, saving>>
                        ELSE scanAt' = "last save" /\ file' = Torn /\ saving' = TRUE
  /\ UNCHANGED <<scan, cand, cache, busy, done, count, tried, runs>>

\* The run ends, or is killed wherever it is.
EndOrKill ==
  /\ scanAt # "idle"
  /\ scanAt' = "idle" /\ cache' = NoCache /\ busy' = {} /\ saving' = FALSE
  /\ UNCHANGED <<scan, cand, file, done, count, tried, runs>>

CacheNext == StartScan \/ (\E c \in Coins : BeginCoin(c)) \/ Collect \/ SaveEnds
             \/ AllCollected \/ EndOrKill
CacheSpec == CacheInit /\ [][CacheNext]_cacheVars
-----------------------------------------------------------------------------
\* When a v2 scan finishes, every history it wanted is either good or was asked
\* for in this very run: a failure a run before, a short answer, a torn file or
\* a kill never leaves a gap that is taken for data
\* (funding_history_scan_v2.py:424).  v1 and the Sharpe scan do leave one.
FailuresAreRetried ==
  scan = "v2" /\ scanAt = "finished" =>
    \A c \in Coins : \A v \in cand[c] :
      /\ Has(c, v)
      /\ cache[c][v] = "good" \/ <<c, v>> \in tried

\* The Sharpe checkpoint is never torn, and whenever the scan is killed it holds
\* all that was pulled: only the coin being pulled is lost
\* (sharpe_floorscan.py:213).
CheckpointLosesOneCoin ==
  scan = "sharpe" => /\ file # Torn
                     /\ scanAt # "idle" =>
                          /\ \A c \in DOMAIN file : cache[c] = file[c]
                          /\ Cardinality(DOMAIN cache \ DOMAIN file) <= 1

\* Both: what a scan resumes from (funding_history_scan_v2.py:408,
\* sharpe_floorscan.py:199) neither loses what was pulled nor keeps a gap.
ResumesSoundly == FailuresAreRetried /\ CheckpointLosesOneCoin
=============================================================================
