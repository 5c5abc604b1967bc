------------------------------ MODULE FloorWatch ------------------------------
(***************************************************************************)
(* Who notices a change of a venue's funding parameters, and what follows. *)
(*                                                                         *)
(* Three probers compare the live parameters of a coin with one shared     *)
(* baseline per venue (kv floor_params_<venue>_<coin>) and replace it when *)
(* they differ: the engine's held probe (trigger_floor), the engine's      *)
(* pre-entry chain for another pair of the coin (both through tw5_floor)   *)
(* and the M4 floor watcher (run_floor_watch), a process of its own.       *)
(* Reporting takes further commits: venue freezes and FLOOR_PARAM_CHANGE   *)
(* events.  Entries look at the freezes and at the kill file, which        *)
(* kill_eval derives from the events.  Times are hours; steps of running   *)
(* processes take none.                                                    *)
(***************************************************************************)
EXTENDS Integers

CONSTANTS
  Legs,       \* the venues of the held position
  Candidate,  \* those that the pair considered for entry shares with it
  Fresh,      \* KILL_FRESH_S
  Stale,      \* KILL_STALE_S
  Day,        \* the window of kill_eval
  Ttl,        \* FREEZE_TTL_S
  MaxChanges, \* bound: parameter changes per venue
  MaxCrashes  \* bound: killed processes in one behaviour

ASSUME FloorConstants ==
  /\ Candidate \subseteq Legs /\ Candidate # {}
  /\ Fresh \in Nat \ {0} /\ Stale \in Nat /\ Day \in Nat /\ Ttl \in Nat
  /\ Fresh <= Stale /\ Stale <= Day /\ Day <= Ttl
  /\ MaxChanges \in Nat /\ MaxCrashes \in Nat

VARIABLES
  params,   \* params[v]: the venue's parameters, numbered by change
  base,     \* base[v]: the shared baseline, or Unset
  freezeOf, \* freezeOf[v]: the format of kv venue_freeze_<v>, or "no"
  frozenAge,\* hours since it was set
  event,    \* hours since the newest FLOOR_PARAM_CHANGE event, or Never
  kill,     \* the kill file: [age, halt]; age Never: missing
  held,     \* status of the held position
  entered,  \* is the candidate pair active?
  probed,   \* hours since the held probe's guard was stamped, at most 1
  pc,       \* where the engine's tick is
  role,     \* for whom tw5_floor runs: "held" or "chain"
  todo,     \* venues its present loop still has to visit
  found,    \* venues it found changed
  outage,   \* did a fetch fail?
  m4,       \* where the floor watcher is
  m4todo,   \* venues it still has to visit
  m4venue,  \* the venue it is reporting
  silent,   \* history: venues with a baseline change not yet in an event
  noted,    \* history: hours since a baseline took a change, or Never
  crashes

probe   == <<role, todo, found, outage>>
engine  == <<pc, probe, probed>>
watcher == <<m4, m4todo, m4venue>>
freezes == <<freezeOf, frozenAge>>
history == <<silent, noted>>
vars == <<params, base, freezes, event, kill, held, entered, engine,
          watcher, history, crashes>>

Unset == -1
Never == -1
Versions == 0..MaxChanges
Later(t, limit) == IF t = Never THEN Never ELSE IF t > limit THEN t ELSE t + 1

Init ==
  /\ params = [v \in Legs |-> 0] /\ base = [v \in Legs |-> Unset]
  /\ freezeOf = [v \in Legs |-> "no"] /\ frozenAge = [v \in Legs |-> 0]
  /\ event = Never /\ kill = [age |-> Never, halt |-> FALSE]
  /\ held = "open" /\ entered = FALSE /\ probed = 1
  /\ pc = "idle" /\ role = "held" /\ todo = {} /\ found = {} /\ outage = FALSE
  /\ m4 = "idle" /\ m4todo = {} /\ m4venue = CHOOSE v \in Legs : TRUE
  /\ silent = {} /\ noted = [v \in Legs |-> Never]
  /\ crashes = 0

(***************************************************************************)
(* The world.                                                              *)
(***************************************************************************)
Change(v) ==
  /\ params[v] < MaxChanges
  /\ params' = [params EXCEPT ![v] = @ + 1]
  /\ UNCHANGED <<base, freezes, event, kill, held, entered, engine, watcher,
                 history, crashes>>

Hour ==
  /\ pc = "idle" /\ m4 = "idle"
  /\ frozenAge' = [v \in Legs |-> IF freezeOf[v] = "no" THEN 0
                                  ELSE Later(frozenAge[v], Ttl)]
  /\ event' = Later(event, Day)
  /\ kill' = [kill EXCEPT !.age = Later(@, Stale)]
  /\ probed' = 1
  /\ noted' = [v \in Legs |-> Later(noted[v], Ttl)]
  /\ UNCHANGED <<params, base, freezeOf, held, entered, pc, probe, watcher,
                 silent, crashes>>

(***************************************************************************)
(* The baseline: a prober that meets a difference takes it for its own.    *)
(***************************************************************************)
Differs(v) == base[v] \notin {Unset, params[v]}

Absorb(v) ==
  /\ base' = [base EXCEPT ![v] = params[v]]
  /\ noted' = IF Differs(v) THEN [noted EXCEPT ![v] = 0] ELSE noted
  /\ silent' = IF Differs(v) THEN silent \cup {v} ELSE silent

Report(v) == event' = 0 /\ silent' = silent \ {v}

SetFreeze(v, format) ==
  /\ freezeOf' = [freezeOf EXCEPT ![v] = format]
  /\ frozenAge' = [frozenAge EXCEPT ![v] = 0]

(***************************************************************************)
(* The engine: tw5_floor, for the held position or in the chain.           *)
(***************************************************************************)
Tw5(r, venues) ==
  pc' = "probe" /\ role' = r /\ todo' = venues /\ found' = {} /\ outage' = FALSE

Forget == role' = "held" /\ todo' = {} /\ found' = {} /\ outage' = FALSE

\* The tick: the held probe once an hour, then the entries.
BeginTick ==
  /\ pc = "idle"
  /\ IF held = "open" /\ probed = 1
     THEN Tw5("held", Legs) /\ probed' = 0
     ELSE pc' = "kill" /\ UNCHANGED <<probe, probed>>
  /\ UNCHANGED <<params, base, freezes, event, kill, held, entered, watcher,
                 history, crashes>>

Probe(v) ==
  /\ pc = "probe" /\ v \in todo
  /\ Absorb(v)
  /\ todo' = todo \ {v}
  /\ found' = IF Differs(v) THEN found \cup {v} ELSE found
  /\ UNCHANGED <<params, freezes, event, kill, held, entered, pc, role, outage,
                 probed, watcher, crashes>>

\* The fetch fails, or the venue does not know the symbol.
ProbeFails(v, failed) ==
  /\ pc = "probe" /\ v \in todo
  /\ todo' = todo \ {v} /\ outage' = (outage \/ failed)
  /\ UNCHANGED <<params, base, freezes, event, kill, held, entered, pc, role,
                 found, probed, watcher, history, crashes>>

\* A change is reported; an outage or a change fails the chain.
ProbeDone ==
  /\ pc = "probe" /\ todo = {}
  /\ IF found # {}
     THEN /\ pc' = "freeze" /\ todo' = (IF role = "held" THEN Legs ELSE Candidate)
          /\ UNCHANGED <<role, found, outage>>
     ELSE /\ pc' = IF role = "held" THEN "kill" ELSE IF outage THEN "idle" ELSE "gate"
          /\ Forget
  /\ UNCHANGED <<params, base, freezes, event, kill, held, entered, probed,
                 watcher, history, crashes>>

\* Both legs are frozen, whichever of them changed.
FreezeLeg(v) ==
  /\ pc = "freeze" /\ v \in todo
  /\ SetFreeze(v, "iso")
  /\ IF todo = {v} THEN pc' = "emit" /\ todo' = found
                   ELSE pc' = pc /\ todo' = todo \ {v}
  /\ UNCHANGED <<params, base, event, kill, held, entered, role, found, outage,
                 probed, watcher, history, crashes>>

\* Mutant: the exec side records no event.
MutEmit(v) ==
  /\ pc = "emit" /\ v \in todo
  /\ IF todo # {v} THEN todo' = todo \ {v} /\ UNCHANGED <<pc, role, found, outage>>
     ELSE pc' = (IF role = "held" THEN "fire" ELSE "idle") /\ Forget
  /\ UNCHANGED <<params, base, freezes, event, kill, held, entered, probed,
                 watcher, history, crashes>>

Emit(v) ==
  /\ pc = "emit" /\ v \in todo
  /\ Report(v)
  /\ IF todo # {v} THEN todo' = todo \ {v} /\ UNCHANGED <<pc, role, found, outage>>
     ELSE pc' = (IF role = "held" THEN "fire" ELSE "idle") /\ Forget
  /\ UNCHANGED <<params, base, freezes, kill, held, entered, probed, watcher,
                 noted, crashes>>

\* trigger_floor: start_unwind(immediate=True).
Fire ==
  /\ pc = "fire" /\ pc' = "kill"
  /\ held' = "unwinding"
  /\ UNCHANGED <<params, base, freezes, event, kill, entered, probe, probed,
                 watcher, history, crashes>>

(***************************************************************************)
(* The kill file and the entry.                                            *)
(***************************************************************************)
\* kill_eval; other is what its three other sources say.
Evaluated(other) == [age |-> 0, halt |-> other \/ event \in 0..(Day - 1)]
Halts(k) == k.age = Never \/ k.age > Stale \/ k.halt
\* Mutant: a halt file is never evaluated anew, a clear one neither.
MutOutdated(k) == k.age = Never
\* ensure_kill_fresh
Outdated(k) == k.age = Never \/ k.age > Fresh

\* kill_eval run from the command line.
DeskPass(other) ==
  /\ kill' = Evaluated(other)
  /\ UNCHANGED <<params, base, freezes, event, held, entered, engine, watcher,
                 history, crashes>>

Refreshed(other) == kill' = IF Outdated(kill) THEN Evaluated(other) ELSE kill

KillCheck(other) ==
  /\ pc = "kill"
  /\ Refreshed(other)
  /\ pc' = IF Halts(kill') \/ entered THEN "idle" ELSE "venue"
  /\ UNCHANGED <<params, base, freezes, event, held, entered, probe, probed,
                 watcher, history, crashes>>

\* Mutant: half the lifetime.
MutExpired(v) == freezeOf[v] = "iso" /\ frozenAge[v] >= Fresh

\* freeze_active: only the "frozen <ISO>" format is parsed, so only it can
\* expire; any other value keeps the venue frozen.
Expired(v) == freezeOf[v] = "iso" /\ frozenAge[v] >= Ttl
Shut(v) == freezeOf[v] # "no" /\ ~Expired(v)

VenueCheck ==
  /\ pc = "venue"
  /\ LET gone == {v \in Candidate : Expired(v)} IN
       /\ freezeOf' = [v \in Legs |-> IF v \in gone THEN "no" ELSE freezeOf[v]]
       /\ frozenAge' = [v \in Legs |-> IF v \in gone THEN 0 ELSE frozenAge[v]]
  /\ IF \E v \in Candidate : Shut(v)
     THEN pc' = "idle" /\ UNCHANGED probe
     ELSE Tw5("chain", Candidate)
  /\ UNCHANGED <<params, base, event, kill, held, entered, probed, watcher,
                 history, crashes>>

\* m5_gate looks at the file, refreshes it and looks again.
Admit(other) ==
  /\ pc = "gate" /\ pc' = "idle"
  /\ ~Halts(kill)
  /\ Refreshed(other) /\ ~Halts(kill')
  /\ entered' = TRUE
  /\ UNCHANGED <<params, base, freezes, event, held, probe, probed, watcher,
                 history, crashes>>

\* A halt, another tripwire or another gate says no.
Deny(other) ==
  /\ pc = "gate" /\ pc' = "idle"
  /\ kill' = kill \/ (~Halts(kill) /\ Refreshed(other))
  /\ UNCHANGED <<params, base, freezes, event, held, entered, probe, probed,
                 watcher, history, crashes>>

PairEnds ==
  /\ pc = "idle" /\ entered /\ entered' = FALSE
  /\ UNCHANGED <<params, base, freezes, event, kill, held, engine, watcher,
                 history, crashes>>

(***************************************************************************)
(* The M4 watcher: every venue is probed and reported by itself.           *)
(***************************************************************************)
M4Begin ==
  /\ m4 = "idle" /\ m4' = "probe" /\ m4todo' = Legs
  /\ UNCHANGED <<params, base, freezes, event, kill, held, entered, engine,
                 m4venue, history, crashes>>

M4Probe(v) ==
  /\ m4 = "probe" /\ v \in m4todo
  /\ Absorb(v)
  /\ IF Differs(v) THEN m4' = "freeze" ELSE m4' = m4
  /\ m4todo' = m4todo \ {v} /\ m4venue' = IF Differs(v) THEN v ELSE m4venue
  /\ UNCHANGED <<params, freezes, event, kill, held, entered, engine, crashes>>

M4Skip(v) ==
  /\ m4 = "probe" /\ v \in m4todo
  /\ m4todo' = m4todo \ {v}
  /\ UNCHANGED <<params, base, freezes, event, kill, held, entered, engine, m4,
                 m4venue, history, crashes>>

\* The value is a plain ISO time.
M4Freeze ==
  /\ m4 = "freeze" /\ m4' = "emit"
  /\ SetFreeze(m4venue, "bare")
  /\ UNCHANGED <<params, base, event, kill, held, entered, engine, m4todo,
                 m4venue, history, crashes>>

M4Emit ==
  /\ m4 = "emit" /\ m4' = "probe"
  /\ Report(m4venue)
  /\ UNCHANGED <<params, base, freezes, kill, held, entered, engine, m4todo,
                 m4venue, noted, crashes>>

M4Done ==
  /\ m4 = "probe" /\ m4todo = {} /\ m4' = "idle"
  /\ UNCHANGED <<params, base, freezes, event, kill, held, entered, engine,
                 m4todo, m4venue, history, crashes>>

EngineDies ==
  /\ pc # "idle" /\ pc' = "idle" /\ Forget
  /\ crashes < MaxCrashes /\ crashes' = crashes + 1
  /\ UNCHANGED <<params, base, freezes, event, kill, held, entered, probed,
                 watcher, history>>

M4Dies ==
  /\ m4 # "idle" /\ m4' = "idle" /\ m4todo' = {}
  /\ crashes < MaxCrashes /\ crashes' = crashes + 1
  /\ UNCHANGED <<params, base, freezes, event, kill, held, entered, engine,
                 m4venue, history>>

World == Hour \/ PairEnds \/ \E v \in Legs : Change(v)

Engine ==
  \/ BeginTick \/ ProbeDone \/ Fire \/ VenueCheck
  \/ \E v \in Legs : Probe(v) \/ FreezeLeg(v) \/ Emit(v)
  \/ \E v \in Legs, failed \in BOOLEAN : ProbeFails(v, failed)
  \/ \E other \in BOOLEAN : KillCheck(other) \/ Admit(other) \/ Deny(other)

M4 ==
  \/ M4Begin \/ M4Freeze \/ M4Emit \/ M4Done
  \/ \E v \in Legs : M4Probe(v) \/ M4Skip(v)

Next ==
  \/ World \/ Engine \/ M4
  \/ \E other \in BOOLEAN : DeskPass(other)
  \/ EngineDies \/ M4Dies

Spec == Init /\ [][Next]_vars
=============================================================================
