----------------------------- MODULE EventJobs -----------------------------
(***************************************************************************)
(* The daily M4 job of v3_events.py over Sharpe's listing feed: the diff    *)
(* with its baseline and the alert on held coins.  Each event and each kv   *)
(* write is a commit of its own and the process may die between any two.    *)
(***************************************************************************)
EXTENDS Integers

CONSTANTS Names,      \* coins of the listing feed
          MaxFaults   \* bound: deaths, stale feeds and failed fetches

ASSUME EventBounds == MaxFaults \in Nat

VARIABLES listed,     \* the venues' real listings
          due,        \* the cadence guard lets the job run
          stage,      \* idle, diff, held
          live,       \* the feed as this run fetched it
          report,     \* names whose event is still to be written
          baseline,   \* kv m4_listing_baseline
          gone,       \* names with an E3_DELIST_GONE event since the baseline took them
          tracked,    \* history: names a baseline has held
          faults

eventVars == <<listed, due, stage, live, report, baseline, gone, tracked, faults>>

EventInit ==
  /\ listed \in SUBSET Names /\ due = TRUE /\ stage = "idle"
  /\ live = {} /\ report = {} /\ baseline = {} /\ gone = {} /\ tracked = {}
  /\ faults = 0

----------------------------------------------------------------------------
(* run_listings                                                             *)

\* guard stamps before the fetch, so a fetch that fails or a feed that is stale
\* costs the day.
Fetch ==
  /\ stage = "idle" /\ due
  /\ due' = FALSE
  /\ live' = listed /\ stage' = "diff"
  /\ report' = IF baseline = {} THEN {} ELSE baseline \ listed
  /\ UNCHANGED <<listed, baseline, gone, tracked, faults>>

NoFeed ==
  /\ stage = "idle" /\ due /\ faults < MaxFaults
  /\ due' = FALSE /\ faults' = faults + 1
  /\ UNCHANGED <<listed, stage, live, report, baseline, gone, tracked>>

\* E3_DELIST_GONE, one commit each.  E2 events for new names change nothing
\* the system reads back.
Delisted ==
  /\ stage = "diff" /\ report # {}
  /\ \E b \in report : gone' = gone \cup {b} /\ report' = report \ {b}
  /\ UNCHANGED <<listed, due, stage, live, baseline, tracked, faults>>

\* Mutant: the baseline is replaced before the events are written.
MutReady == stage = "diff" /\ live # baseline

\* The events are written first.
Ready == stage = "diff" /\ report = {}

\* An absent or empty baseline is set without any event.
SetBaseline ==
  /\ Ready
  /\ baseline' = live
  /\ tracked' = tracked \cup live /\ gone' = gone \ live
  /\ stage' = IF report = {} THEN "held" ELSE stage
  /\ UNCHANGED <<listed, due, live, report, faults>>

\* The alert on held coins reads Sharpe's coverage and writes events only.
HeldAlerts ==
  /\ stage = "held" /\ stage' = "idle"
  /\ UNCHANGED <<listed, due, live, report, baseline, gone, tracked, faults>>

Dies ==
  /\ stage # "idle" /\ faults < MaxFaults
  /\ stage' = "idle" /\ report' = {} /\ faults' = faults + 1
  /\ UNCHANGED <<listed, due, live, baseline, gone, tracked>>

\* Mutant: a stamp that is never found old enough.
MutDayPasses == ~due /\ stage = "diff" /\ due' = TRUE
       /\ UNCHANGED <<listed, stage, live, report, baseline, gone, tracked, faults>>

DayPasses == ~due /\ due' = TRUE
       /\ UNCHANGED <<listed, stage, live, report, baseline, gone, tracked, faults>>

Market ==
  /\ listed' \in {listed \cup {b} : b \in Names} \cup {listed \ {b} : b \in Names}
  /\ UNCHANGED <<due, stage, live, report, baseline, gone, tracked, faults>>

EventNext == \/ Fetch \/ NoFeed \/ Delisted \/ SetBaseline \/ HeldAlerts \/ Dies
             \/ DayPasses \/ Market

\* Cron starts the job each day, and a job that runs goes on.
EventFair == /\ WF_eventVars(DayPasses) /\ WF_eventVars(Fetch) /\ WF_eventVars(Delisted)
             /\ WF_eventVars(SetBaseline) /\ WF_eventVars(HeldAlerts)
EventSpec == EventInit /\ [][EventNext]_eventVars /\ EventFair
----------------------------------------------------------------------------
\* A name leaves the baseline only after its delisting has been written, also
\* when the job dies in between: it may be reported twice and never lost.
NoMissedDelisting == tracked \ baseline \subseteq gone

\* A name of the baseline that stays off the feed is reported in the end,
\* whatever deaths, stale feeds and lost days come before (they are bounded).
DelistingIsReported ==
  \A b \in Names : b \in baseline \ listed ~> b \in gone \cup listed
=============================================================================
