------------------------------ MODULE Harvester -------------------------------
(***************************************************************************)
(* The Harvester bot (upload/code_extracted): two asyncio loops over one   *)
(* dictionary of held opportunities.  harvester_loop enters the best       *)
(* opportunity of the feed, monitor_loop unwinds what the gate or the      *)
(* staleness guard condemns.  Both execute their legs concurrently through *)
(* ExecutionRouter, whose recovery protocol closes the filled leg of an    *)
(* execution that failed on the other.  A step is what runs between two    *)
(* awaits.  Sizes are lots, time counts in ticks of half the forced-unwind *)
(* age or less.                                                            *)
(***************************************************************************)
EXTENDS Integers, Sequences, FiniteSets, FiniteSetsExt, SequencesExt

CONSTANTS Opps,        \* identities of opportunities
          Dated,       \* those held to expiry (dated futures, calendar spreads)
          Partly,      \* legs that may fill partly
          Gtc,         \* legs on ccxt venues, whose limit orders stay resting
          Alloc,       \* ALLOCATION_PER_TRADE_USD, per leg
          Equity,      \* collateral over all venues
          Buffer,      \* GLOBAL_LIQUIDITY_BUFFER_PCT of Equity
          RiskAt,      \* MAX_MARGIN_UTILIZATION_PCT of Equity
          StaleAfter,  \* FORCE_UNWIND_IF_STALE_SECONDS
          MaxMishaps,  \* bound: faults and astray orders of a behaviour
          MaxAfter     \* bound: entries behind a mishap or a lost iteration

Legs  == {"buy", "sell"}
Loops == {"harvest", "monitor"}
Old   == StaleAfter + 1   \* ages are not told apart beyond it
Flat  == [l \in Legs |-> 0]

ASSUME HarvesterAssumption ==
  /\ "none" \notin Opps /\ Dated \subseteq Opps /\ Gtc \subseteq Legs /\ Partly \subseteq Legs
  /\ Alloc \in Nat \ {0} /\ {Buffer, RiskAt} \subseteq 0..Equity
  /\ {StaleAfter, MaxMishaps, MaxAfter} \subseteq Nat

VARIABLES
  pos,     \* lots each venue really holds, in the direction of the entry
  rest,    \* remainder of a limit order still resting on a ccxt leg
  active,  \* active_opps in insertion order
  held,    \* HeldPosition: entry fills, signal seen at entry, its age
  latest,  \* _latest_opps: signals of the last harvest cycle ...
  age,     \* ... and the age of that snapshot
  hpc,     \* harvester_loop between two awaits
  hopp,    \* the opportunity it wants to enter
  mpc,     \* monitor_loop between two awaits
  mi,      \* items of active the iterator has delivered
  mlen,    \* size of active when the iteration began
  mdrop,   \* to_remove
  mrisk,   \* margin utilisation at its limit when the cycle began
  ex,      \* the execution each loop awaits
  faults,  \* lost replies and restarts
  astray,  \* orders that ended otherwise than the router takes them to
  raced,   \* the iteration failed after an unwind that had filled
  after    \* entries tried behind a mishap or a lost iteration

books == <<active, held>>
feed  == <<latest, age>>
hvars == <<hpc, hopp>>
mvars == <<mpc, mi, mlen, mdrop, mrisk>>
vars  == <<pos, rest, books, feed, hvars, mvars, ex, faults, astray, raced, after>>

Signals == {"none", "thin", "rich"}
NoRest  == [o \in Opps |-> Flat]
NotHeld == [entry |-> Flat, sig |-> "none", seen |-> 0]
None    == [opp |-> "none", dir |-> 1, stage |-> "none", ask |-> Flat, got |-> Flat]

Abs(n)     == IF n < 0 THEN -n ELSE n
Used       == FoldFunctionOnSet(LAMBDA f, s : s + SumFunction([l \in Legs |-> Abs(f[l])]), 0, pos, Opps)
Tracked(o) == Contains(active, o)
Free       == Equity - Used

CanAllocate == Free - Buffer >= Alloc

Init ==
  /\ pos = [o \in Opps |-> Flat] /\ rest = NoRest
  /\ active = <<>>
  /\ held = [o \in Opps |-> NotHeld]
  /\ latest = [o \in Opps |-> "none"] /\ age = Old
  /\ hpc = "idle" /\ hopp = "none"
  /\ mpc = "idle" /\ mi = 0 /\ mlen = 0 /\ mdrop = {} /\ mrisk = FALSE
  /\ ex = [p \in Loops |-> None]
  /\ faults = 0 /\ astray = 0 /\ raced = FALSE /\ after = 0

Unharmed == faults = 0 /\ astray = 0 /\ ~raced

Room   == faults + astray < MaxMishaps
Fault  == Room /\ faults' = faults + 1 /\ UNCHANGED astray
Astray == Room /\ astray' = astray + 1 /\ UNCHANGED faults

(***************************************************************************)
(* Execution.  gather resumes the router when both legs have answered; the *)
(* recovery orders go out in the same step.                                *)
(***************************************************************************)
Launch(p, o, dir, ask) ==
  ex' = [ex EXCEPT ![p] = [opp |-> o, dir |-> dir, stage |-> "legs", ask |-> ask, got |-> Flat]]

\* What the venue can still fill: execute_unwind_leg is reduce-only on
\* Hyperliquid, a ccxt order is not.
Fillable(e, l) ==
  IF e.stage = "close" /\ l \notin Gtc
    THEN Min({e.ask[l], Max({0, -e.dir * pos[e.opp][l]})})
    ELSE e.ask[l]

\* An entry may fill partly or not at all.  So may an unwind or a recovery, a limit
\* order like any other, but the router does not look at what it left.
Whole(e, n) ==
  (e.stage = "legs" /\ e.dir = 1) \/ \A l \in Legs : n[l] = Fillable(e, l)

CanFill(e, l) ==
  IF l \in Partly THEN 0..Fillable(e, l) ELSE {0, Fillable(e, l)}

Fills(e) == {n \in [Legs -> 0..Alloc] : \A l \in Legs : n[l] \in CanFill(e, l)}

Filled(e) == \A l \in Legs : e.got[l] > 0

\* Mutant: the recovery repeats the side of the leg it is to close.
MutAfterAnswer(e) ==
  IF e.stage = "legs" /\ ~Filled(e) /\ e.got # Flat
    THEN [e EXCEPT !.stage = "close", !.ask = e.got]
    ELSE [e EXCEPT !.stage = "done"]

\* _mitigate_legging_risk closes what did fill; a recovery is not checked.
AfterAnswer(e) ==
  IF e.stage = "legs" /\ ~Filled(e) /\ e.got # Flat
    THEN [e EXCEPT !.dir = -@, !.stage = "close", !.ask = e.got]
    ELSE [e EXCEPT !.stage = "done"]

Moved(e, n) == [pos EXCEPT ![e.opp] = [l \in Legs |-> @[l] + e.dir * n[l]]]

LegsAnswered(p) ==
  LET e == ex[p]
  IN  /\ e.stage \in {"legs", "close"}
      /\ \E n \in Fills(e) :
           /\ \/ UNCHANGED rest
              \/ \E l \in Gtc :
                   /\ n[l] < e.ask[l] /\ rest = NoRest
                   /\ rest' = [rest EXCEPT ![e.opp][l] = e.dir * (e.ask[l] - n[l])]
           /\ IF Whole(e, n) /\ rest' = rest THEN UNCHANGED <<faults, astray>> ELSE Astray
           /\ pos' = Moved(e, n)
           /\ ex' = [ex EXCEPT ![p] = AfterAnswer([e EXCEPT !.got = n])]
  /\ UNCHANGED <<books, feed, hvars, mvars, raced, after>>

\* The reply to the filled order of leg l is lost: the ccxt adapter reports
\* an error, the Hyperliquid one sends the order again.
ReplyLost(p, l) ==
  LET e    == ex[p]
      once == [m \in Legs |-> IF m = l THEN Fillable(e, l) ELSE 0]
      told == [m \in Legs |-> IF m = l THEN 0 ELSE Fillable(e, m)]
  IN  /\ e.stage \in {"legs", "close"} /\ Fillable(e, l) > 0
      /\ \/ /\ l \in Gtc
            /\ pos' = Moved(e, [m \in Legs |-> Fillable(e, m)])
            /\ ex' = [ex EXCEPT ![p] = AfterAnswer([e EXCEPT !.got = told])]
         \/ /\ l \notin Gtc
            /\ pos' = Moved(e, once)
            /\ UNCHANGED ex
  /\ Fault
  /\ UNCHANGED <<rest, books, feed, hvars, mvars, raced, after>>

\* A remainder left resting fills after its order was given up.
LateFill ==
  \E o \in Opps, l \in Gtc :
    /\ rest[o][l] # 0
    /\ pos' = [pos EXCEPT ![o][l] = @ + rest[o][l]]
    /\ rest' = [rest EXCEPT ![o][l] = 0]
    /\ UNCHANGED <<books, feed, hvars, mvars, ex, faults, astray, raced, after>>

FullyFilled(p) == ex[p].stage = "done" /\ Filled(ex[p])
Failed(p)      == ex[p].stage = "done" /\ ~Filled(ex[p])

Execution(p) == LegsAnswered(p) \/ \E l \in Legs : ReplyLost(p, l)

(***************************************************************************)
(* harvester_loop.  The walk of monitor_loop over active awaits nothing    *)
(* but executions, so the harvester does not step while mpc = "visit".     *)
(***************************************************************************)
HarvesterRuns == mpc # "visit"

\* A cycle that may not allocate fetches nothing: the feed ages.
HCheck ==
  /\ HarvesterRuns /\ hpc = "idle" /\ CanAllocate
  /\ Unharmed \/ after < MaxAfter
  /\ hpc' = "fetch"
  /\ UNCHANGED <<pos, rest, books, feed, hopp, mvars, ex, faults, astray, raced, after>>

\* Mutant: the best opportunity is not looked up among the held ones.
MutEnterable(o) == TRUE

Enterable(o) == ~Tracked(o)

\* The signals replace the snapshot; the best one above the entry margin,
\* which is below the exit threshold, is entered unless it is held or has
\* no price.  (Only signals the monitor may read are kept.)
HFetch ==
  /\ HarvesterRuns /\ hpc = "fetch"
  /\ \E f \in [Opps -> Signals] :
       LET offers == {o \in Opps : f[o] # "none"}
           Read(o) == o \notin Dated /\ (Tracked(o) \/ o = hopp')
           best   == {o \in offers : f[o] = "rich" \/ \A q \in offers : f[q] = "thin"}
       IN  /\ age' = 0
           /\ \/ \E o \in best :
                   /\ Enterable(o)
                   /\ Launch("harvest", o, 1, [l \in Legs |-> Alloc])
                   /\ hpc' = "execute" /\ hopp' = o
                   /\ after' = IF Unharmed THEN 0 ELSE after + 1
              \/ hpc' = "idle" /\ UNCHANGED <<hopp, ex, after>>
           /\ latest' = [o \in Opps |-> IF Read(o) THEN f[o] ELSE "none"]
  /\ UNCHANGED <<pos, rest, books, mvars, faults, astray, raced>>

HRecord ==
  /\ HarvesterRuns /\ hpc = "execute" /\ FullyFilled("harvest")
  /\ active' = IF Tracked(hopp) THEN active ELSE Append(active, hopp)
  /\ held' = [held EXCEPT ![hopp] = [entry |-> ex["harvest"].got, sig |-> latest[hopp], seen |-> age]]
  /\ hpc' = "idle" /\ hopp' = "none"
  /\ ex' = [ex EXCEPT !["harvest"] = None]
  /\ UNCHANGED <<pos, rest, feed, mvars, faults, astray, raced, after>>

HGiveUp ==
  /\ HarvesterRuns /\ hpc = "execute" /\ Failed("harvest")
  /\ hpc' = "idle" /\ hopp' = "none"
  /\ ex' = [ex EXCEPT !["harvest"] = None]
  /\ UNCHANGED <<pos, rest, books, feed, mvars, faults, astray, raced, after>>

Harvesting == HCheck \/ HFetch \/ HRecord \/ HGiveUp

(***************************************************************************)
(* monitor_loop.                                                           *)
(***************************************************************************)
MBegin ==
  /\ mpc = "idle"
  /\ mpc' = "visit" /\ mi' = 0 /\ mlen' = Len(active) /\ mdrop' = {}
  /\ mrisk' = (Used >= RiskAt)
  /\ UNCHANGED <<pos, rest, books, feed, hvars, ex, faults, astray, raced, after>>

\* The live signal refreshes a held position whatever its own age.
SeenAge(o)   == IF latest[o] # "none" THEN age ELSE held[o].seen
SignalFor(o) == IF latest[o] # "none" THEN latest[o] ELSE held[o].sig

\* evaluate_opportunity: event reached, risk, and convergence for what is
\* not held to expiry.
GateCondemns(o, due) ==
  due \/ mrisk \/ (o \notin Dated /\ SignalFor(o) = "thin")

\* Mutant: the staleness guard is left out.
MutBlind(o) == FALSE

\* The staleness guard of the loop itself.
Blind(o) == o \notin Dated /\ SeenAge(o) > StaleAfter

ShouldUnwind(o, due) == GateCondemns(o, due) \/ Blind(o)

\* Unwinds ask for what the entry really filled.
UnwindPosition(o) == Launch("monitor", o, -1, held[o].entry)

MVisit ==
  /\ mpc = "visit" /\ mi < mlen /\ Len(active) = mlen
  /\ LET o == active[mi + 1]
     IN  /\ held' = IF o \in Dated THEN held ELSE [held EXCEPT ![o].seen = SeenAge(o)]
         /\ mi' = mi + 1
         /\ \E due \in BOOLEAN :
              IF ShouldUnwind(o, due)
                THEN /\ UnwindPosition(o)
                     /\ mpc' = "execute"
                ELSE UNCHANGED <<mpc, ex>>
  /\ UNCHANGED <<pos, rest, active, feed, hvars, mlen, mdrop, mrisk, faults, astray, raced, after>>

\* Fully filled goes to to_remove, anything else is retried next cycle.
MUnwound ==
  /\ mpc = "execute" /\ FullyFilled("monitor")
  /\ mdrop' = mdrop \cup {ex["monitor"].opp}
  /\ mpc' = "visit" /\ ex' = [ex EXCEPT !["monitor"] = None]
  /\ UNCHANGED <<pos, rest, books, feed, hvars, mi, mlen, mrisk, faults, astray, raced, after>>

MIncomplete ==
  /\ mpc = "execute" /\ Failed("monitor")
  /\ mpc' = "visit" /\ ex' = [ex EXCEPT !["monitor"] = None]
  /\ UNCHANGED <<pos, rest, books, feed, hvars, mi, mlen, mdrop, mrisk, faults, astray, raced, after>>

EndCycle == mpc' = "idle" /\ mi' = 0 /\ mlen' = 0 /\ mdrop' = {} /\ mrisk' = FALSE

\* active grew across an await: the iterator raises, to_remove is lost.
MError ==
  /\ mpc = "visit" /\ Len(active) # mlen
  /\ EndCycle /\ raced' = (raced \/ mdrop # {})
  /\ UNCHANGED <<pos, rest, books, feed, hvars, ex, faults, astray, after>>

\* The items that are left when those of D are popped, in their order.
Without(s, D) ==
  LET kept[n \in 0..Len(s)] ==
        IF n = 0 THEN <<>> ELSE IF s[n] \in D THEN kept[n - 1] ELSE Append(kept[n - 1], s[n])
  IN  kept[Len(s)]

MEnd ==
  /\ mpc = "visit" /\ mi = mlen /\ Len(active) = mlen
  /\ active' = Without(active, mdrop)
  /\ held' = [o \in Opps |-> IF o \in mdrop THEN NotHeld ELSE held[o]]
  /\ EndCycle
  /\ UNCHANGED <<pos, rest, feed, hvars, ex, faults, astray, raced, after>>

Monitoring == MBegin \/ MVisit \/ MUnwound \/ MIncomplete \/ MError \/ MEnd

(***************************************************************************)
(* Time (a monitor cycle is short against a tick), and a stop and restart:*)
(* active_opps is in memory only.                                         *)
(***************************************************************************)
Tick ==
  /\ mpc = "idle"
  /\ age' = Min({age + 1, Old})
  /\ held' = [o \in Opps |-> IF Tracked(o) /\ o \notin Dated THEN [held[o] EXCEPT !.seen = Min({@ + 1, Old})]
                                            ELSE held[o]]
  /\ UNCHANGED <<pos, rest, active, latest, hvars, mvars, ex, faults, astray, raced, after>>

Restart ==
  /\ hpc = "idle" /\ mpc = "idle" /\ active # <<>>
  /\ active' = <<>> /\ held' = [o \in Opps |-> NotHeld]
  /\ latest' = [o \in Opps |-> "none"] /\ age' = Old
  /\ Fault
  /\ UNCHANGED <<pos, rest, hvars, mvars, ex, raced, after>>

Next ==
  \/ Harvesting
  \/ Monitoring
  \/ \E p \in Loops : Execution(p)
  \/ LateFill
  \/ Tick
  \/ Restart

\* The loops sleep a fixed time and go on, the venues answer, time passes.
Spec ==
  /\ Init /\ [][Next]_vars
  /\ WF_vars(Harvesting) /\ WF_vars(Monitoring) /\ SF_vars(Tick)
  /\ \A p \in Loops : WF_vars(LegsAnswered(p))

(***************************************************************************)
(* Properties.                                                             *)
(***************************************************************************)
InFlight == {ex[p].opp : p \in Loops}

\* Between executions the venues hold exactly the entry fills of what is
\* tracked and nothing of what is not: a one-legged entry is taken back by
\* the recovery protocol and an unwind sends back what the entry filled,
\* unless a reply was lost, the bot restarted, an unwind, a recovery or a
\* resting order ended astray, or the iteration was lost behind a filled
\* unwind.
VenueMatchesBooks ==
  Unharmed =>
    \A o \in Opps \ (InFlight \cup mdrop) :
      pos[o] = IF Tracked(o) THEN held[o].entry ELSE Flat

\* The two loops never execute the same opportunity at once, so an unwind
\* never meets the entry orders of the position it closes.
NoCrossedExecutions ==
  ex["harvest"].opp = ex["monitor"].opp => ex["harvest"].opp = "none"

\* A position whose signal stays away longer than the forced-unwind age is
\* unwound in the end, whatever the harvester inserts meanwhile, unless the
\* signal comes back.
StaleIsUnwound ==
  \A o \in Opps \ Dated :
    Tracked(o) /\ SeenAge(o) > StaleAfter ~> ~Tracked(o) \/ SeenAge(o) <= StaleAfter
=============================================================================
