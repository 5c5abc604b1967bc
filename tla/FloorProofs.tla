----------------------------- MODULE FloorProofs ------------------------------
(***************************************************************************)
(* FloorWatch, for any venues and any periods in the order of the code:    *)
(* no prober keeps a change to itself, the kill file knows of a change     *)
(* within the hour, and a venue that changed stays shut.                   *)
(***************************************************************************)
EXTENDS FloorProps, TLAPS

Ages == Nat \cup {Never}

\* What the steps keep of the types.
FloorType ==
  /\ freezeOf \in [Legs -> {"no", "iso", "bare"}] /\ frozenAge \in [Legs -> Nat]
  /\ event \in Ages /\ kill \in [age : Ages, halt : BOOLEAN]
  /\ role \in {"held", "chain"}
  /\ noted \in [Legs -> Ages]
  /\ m4venue \in Legs /\ m4todo \subseteq Legs
  /\ crashes \in Nat

\* The venues that one run of tw5_floor compares.
Compared == IF role = "held" THEN Legs ELSE Candidate

ProbeScope ==
  /\ pc \in {"probe", "freeze", "emit"} => found \subseteq Compared
  /\ pc = "probe" => todo \subseteq Compared

\* Changes in the baseline that a running prober has still to report.
ToReport ==
  (CASE pc \in {"probe", "freeze"} -> found [] pc = "emit" -> todo [] OTHER -> {})
    \cup (IF m4 \in {"freeze", "emit"} THEN {m4venue} ELSE {})

Reported == crashes = 0 => silent \subseteq ToReport

\* The kill file was evaluated after a change older than itself.
KillKnows ==
  kill.age # Never /\ kill.age <= Stale /\ kill.age < event /\ event < Day => kill.halt

\* Changes for which a running prober has still to set the freeze.
ToFreeze ==
  (CASE pc = "probe" -> found [] pc = "freeze" -> found \cap todo [] OTHER -> {})
    \cup (IF m4 = "freeze" THEN {m4venue} ELSE {})

\* A change noted within the freeze's lifetime has its freeze, no older than the
\* note, unless it is of this hour and the freeze is still to be set.
Noted == {v \in Legs : 0 <= noted[v] /\ noted[v] < Ttl}
ShutSince ==
  crashes = 0 =>
    \A v \in Noted :
      \/ freezeOf[v] # "no" /\ frozenAge[v] <= noted[v]
      \/ noted[v] = 0 /\ v \in ToFreeze

\* Once the venues of the candidate were found open, the entry stands before no
\* older change of them.
ChainIsOpen ==
  crashes = 0 /\ (pc = "gate" \/ (pc = "probe" /\ role = "chain")) =>
    \A v \in Candidate : ~(0 < noted[v] /\ noted[v] < Ttl)

FloorInv == FloorType /\ ProbeScope /\ Reported /\ KillKnows /\ ShutSince /\ ChainIsOpen

-----------------------------------------------------------------------------
LEMMA FloorInitially == Init => FloorInv
<1> SUFFICES ASSUME Init PROVE FloorInv
  OBVIOUS
<1>1. \E v : v \in Legs
  BY FloorConstants
<1>2. FloorType
  BY <1>1 DEF Init, FloorType, Ages, Never
<1>3. KillKnows /\ ShutSince
  BY DEF Init, KillKnows, ShutSince, Noted, Never
<1> QED
  BY <1>2, <1>3 DEF Init, FloorInv, ProbeScope, Reported, ChainIsOpen

\* kill_eval reads every event of the day.
LEMMA EvaluatedKnows ==
  ASSUME FloorType, NEW other \in BOOLEAN
  PROVE  /\ Evaluated(other) \in [age : Ages, halt : BOOLEAN] /\ Evaluated(other).age = 0
         /\ event \in Nat /\ event < Day => Evaluated(other).halt
<1>1. (other \/ event \in 0..(Day - 1)) \in BOOLEAN
  OBVIOUS
<1>2. event \in Nat /\ event < Day => event \in 0..(Day - 1)
  BY FloorConstants
<1> QED
  BY <1>1, <1>2 DEF Evaluated, Ages

LEMMA RefreshedKnows ==
  ASSUME FloorType, KillKnows, NEW other \in BOOLEAN, Refreshed(other), UNCHANGED event
  PROVE  /\ kill' \in [age : Ages, halt : BOOLEAN] /\ KillKnows'
         /\ ~Halts(kill') => ~(Fresh < event /\ event < Day)
<1>1. CASE Outdated(kill)
  <2>1. kill' = Evaluated(other)
    BY <1>1 DEF Refreshed
  <2> QED
    BY <2>1, EvaluatedKnows, FloorConstants DEF FloorType, KillKnows, Halts, Ages, Never
<1>2. CASE ~Outdated(kill)
  <2>1. kill' = kill /\ kill.age \in Nat /\ kill.age <= Fresh
    BY <1>2, FloorConstants DEF Refreshed, Outdated, FloorType, Ages, Never
  <2> QED
    BY <2>1, FloorConstants DEF FloorType, KillKnows, Halts, Ages, Never
<1> QED
  BY <1>1, <1>2

\* What a step of a process keeps that touches neither the probers nor the clock.
LEMMA WorldKeeps ==
  FloorInv /\ (Hour \/ PairEnds \/ (\E v \in Legs : Change(v)) \/ \E other \in BOOLEAN : DeskPass(other))
    => FloorInv'
<1> USE DEF freezes, engine, probe, watcher, history
<1>1. FloorInv /\ PairEnds => FloorInv'
  BY DEF FloorInv, PairEnds, FloorType, ProbeScope, Compared, Reported, ToReport, KillKnows, ShutSince,
         Noted, ToFreeze, ChainIsOpen
<1>2. FloorInv /\ (\E v \in Legs : Change(v)) => FloorInv'
  BY DEF FloorInv, Change, FloorType, ProbeScope, Compared, Reported, ToReport, KillKnows, ShutSince,
         Noted, ToFreeze, ChainIsOpen
<1>3. FloorInv /\ (\E other \in BOOLEAN : DeskPass(other)) => FloorInv'
  <2> SUFFICES ASSUME FloorInv, NEW other \in BOOLEAN, DeskPass(other) PROVE FloorInv'
    OBVIOUS
  <2>1. FloorType' /\ KillKnows'
    BY EvaluatedKnows DEF FloorInv, DeskPass, FloorType, KillKnows, Ages, Never
  <2> QED
    BY <2>1 DEF FloorInv, DeskPass, ProbeScope, Compared, Reported, ToReport, ShutSince,
         Noted, ToFreeze, ChainIsOpen
<1>4. FloorInv /\ Hour => FloorInv'
  <2> SUFFICES ASSUME FloorInv, Hour PROVE FloorInv'
    OBVIOUS
  <2>1. /\ \A v \in Legs : frozenAge'[v] \in Nat /\ noted'[v] \in Ages
        /\ frozenAge' \in [Legs -> Nat] /\ noted' \in [Legs -> Ages]
    BY FloorConstants DEF FloorInv, FloorType, Hour, Later, Ages, Never
  <2>2. FloorType'
    BY <2>1, FloorConstants DEF FloorInv, FloorType, Hour, Later, Ages, Never
  <2>3. KillKnows'
    BY FloorConstants DEF FloorInv, FloorType, KillKnows, Hour, Later, Ages, Never
  <2>4. ShutSince'
    <3> SUFFICES ASSUME crashes = 0, NEW v \in Legs, 0 <= noted'[v], noted'[v] < Ttl
                 PROVE  freezeOf'[v] # "no" /\ frozenAge'[v] <= noted'[v]
      BY DEF ShutSince, Noted, Hour
    <3>1. noted[v] \in Ages /\ noted'[v] = Later(noted[v], Ttl)
      BY DEF Hour, FloorInv, FloorType
    <3>2. noted[v] \in Nat /\ noted'[v] = noted[v] + 1 /\ noted[v] < Ttl
      BY <3>1, FloorConstants DEF Later, Ages, Never
    <3>3. freezeOf[v] # "no" /\ frozenAge[v] <= noted[v] /\ frozenAge[v] \in Nat
      BY <3>2 DEF FloorInv, FloorType, ShutSince, Noted, ToFreeze, Hour
    <3>4. freezeOf'[v] = freezeOf[v] /\ frozenAge'[v] = Later(frozenAge[v], Ttl)
      BY <3>3 DEF Hour
    <3> QED
      BY <3>2, <3>3, <3>4, FloorConstants DEF Later, Never
  <2> QED
    BY <2>2, <2>3, <2>4 DEF FloorInv, Hour, ProbeScope, Reported, ToReport, ChainIsOpen, Compared
<1> QED
  BY <1>1, <1>2, <1>3, <1>4

\* A prober that takes a difference for its own notes it now.
LEMMA AbsorbNotes ==
  ASSUME FloorType, NEW v \in Legs, Absorb(v)
  PROVE  /\ noted' \in [Legs -> Ages]
         /\ \A w \in Legs : noted'[w] = IF w = v /\ Differs(v) THEN 0 ELSE noted[w]
         /\ silent' = IF Differs(v) THEN silent \cup {v} ELSE silent
BY DEF Absorb, FloorType, Ages

LEMMA SetFreezeShuts ==
  ASSUME FloorType, NEW v \in Legs, NEW format \in {"iso", "bare"}, SetFreeze(v, format)
  PROVE  /\ freezeOf' \in [Legs -> {"no", "iso", "bare"}] /\ frozenAge' \in [Legs -> Nat]
         /\ freezeOf'[v] = format /\ frozenAge'[v] = 0
         /\ \A w \in Legs : w # v => freezeOf'[w] = freezeOf[w] /\ frozenAge'[w] = frozenAge[w]
BY DEF SetFreeze, FloorType

LEMMA ProbersKeep ==
  ASSUME FloorInv, NEW v \in Legs, Probe(v) \/ M4Probe(v)
  PROVE  FloorInv'
<1> USE DEF freezes, engine, probe, watcher, history
<1> DEFINE d == Differs(v)
<1>1. Absorb(v) /\ FloorType
  BY DEF Probe, M4Probe, FloorInv
<1>2. /\ noted' \in [Legs -> Ages]
      /\ \A w \in Legs : noted'[w] = IF w = v /\ d THEN 0 ELSE noted[w]
      /\ silent' = IF d THEN silent \cup {v} ELSE silent
  BY <1>1, AbsorbNotes
<1> HIDE DEF d
<1>3. CASE Probe(v)
  <2>1. /\ pc = "probe" /\ v \in todo /\ todo' = todo \ {v}
        /\ found' = IF d THEN found \cup {v} ELSE found
        /\ UNCHANGED <<freezeOf, frozenAge, event, kill, pc, role, m4, m4todo, m4venue, crashes>>
    BY <1>3 DEF Probe, d
  <2>2. FloorType' /\ ProbeScope'
    BY <1>1, <1>2, <2>1 DEF FloorInv, FloorType, ProbeScope, Compared
  <2>3. Reported'
    BY <1>2, <2>1 DEF FloorInv, Reported, ToReport
  <2>4. KillKnows'
    BY <2>1 DEF FloorInv, KillKnows
  <2>5. ShutSince' /\ ChainIsOpen'
    BY <1>2, <2>1, FloorConstants DEF FloorInv, ShutSince, Noted, ToFreeze, ChainIsOpen
  <2> QED
    BY <2>2, <2>3, <2>4, <2>5 DEF FloorInv
<1>4. CASE M4Probe(v)
  <2>1. /\ m4 = "probe" /\ m4' = (IF d THEN "freeze" ELSE "probe")
        /\ m4todo' = m4todo \ {v} /\ m4venue' = (IF d THEN v ELSE m4venue)
        /\ UNCHANGED <<freezeOf, frozenAge, event, kill, pc, role, todo, found, crashes>>
    BY <1>4 DEF M4Probe, d
  <2>2. FloorType' /\ ProbeScope'
    BY <1>1, <1>2, <2>1 DEF FloorInv, FloorType, ProbeScope, Compared
  <2>3. Reported'
    BY <1>2, <2>1 DEF FloorInv, Reported, ToReport
  <2>4. KillKnows'
    BY <2>1 DEF FloorInv, KillKnows
  <2>5. ShutSince' /\ ChainIsOpen'
    BY <1>2, <2>1, FloorConstants DEF FloorInv, ShutSince, Noted, ToFreeze, ChainIsOpen
  <2> QED
    BY <2>2, <2>3, <2>4, <2>5 DEF FloorInv
<1> QED
  BY <1>3, <1>4

LEMMA ReportersKeep ==
  ASSUME FloorInv, (\E v \in Legs : FreezeLeg(v) \/ Emit(v)) \/ M4Freeze \/ M4Emit
  PROVE  FloorInv'
<1> USE DEF freezes, engine, probe, watcher, history
<1>1. ASSUME NEW v \in Legs, FreezeLeg(v) PROVE FloorInv'
  <2>1. /\ pc = "freeze" /\ v \in todo /\ SetFreeze(v, "iso")
        /\ IF todo = {v} THEN pc' = "emit" /\ todo' = found ELSE pc' = pc /\ todo' = todo \ {v}
        /\ UNCHANGED <<event, kill, role, found, m4, m4todo, m4venue, silent, noted, crashes>>
    BY <1>1 DEF FreezeLeg
  <2>2. /\ freezeOf' \in [Legs -> {"no", "iso", "bare"}] /\ frozenAge' \in [Legs -> Nat]
        /\ freezeOf'[v] = "iso" /\ frozenAge'[v] = 0
        /\ \A w \in Legs : w # v => freezeOf'[w] = freezeOf[w] /\ frozenAge'[w] = frozenAge[w]
    BY <2>1, SetFreezeShuts DEF FloorInv
  <2>3. FloorType' /\ ProbeScope' /\ KillKnows'
    BY <2>1, <2>2 DEF FloorInv, FloorType, ProbeScope, Compared, KillKnows
  <2>4. Reported'
    BY <2>1 DEF FloorInv, Reported, ToReport
  <2>5. ShutSince'
    <3> SUFFICES ASSUME crashes = 0, NEW w \in Noted
                 PROVE  \/ freezeOf'[w] # "no" /\ frozenAge'[w] <= noted[w]
                        \/ noted[w] = 0 /\ w \in ToFreeze'
      BY <2>1 DEF ShutSince, Noted
    <3>1. w \in Legs /\ 0 <= noted[w]
      BY DEF Noted
    <3>2. CASE w = v
      BY <2>2, <3>1, <3>2
    <3>3. CASE w # v
      BY <2>1, <2>2, <3>1, <3>3 DEF FloorInv, ShutSince, ToFreeze
    <3> QED
      BY <3>2, <3>3
  <2>6. ChainIsOpen'
    BY <2>1 DEF ChainIsOpen
  <2> QED
    BY <2>3, <2>4, <2>5, <2>6 DEF FloorInv
<1>2. ASSUME NEW v \in Legs, Emit(v) PROVE FloorInv'
  <2>1. /\ pc = "emit" /\ v \in todo /\ event' = 0 /\ silent' = silent \ {v}
        /\ \/ todo' = todo \ {v} /\ UNCHANGED <<pc, role, found>>
           \/ todo = {v} /\ pc' \in {"fire", "idle"} /\ role' = "held"
        /\ UNCHANGED <<freezeOf, frozenAge, kill, m4, m4todo, m4venue, noted, crashes>>
    BY <1>2 DEF Emit, Report, Forget
  <2>2. FloorType' /\ ProbeScope' /\ KillKnows'
    BY <2>1 DEF FloorInv, FloorType, ProbeScope, Compared, KillKnows, Ages, Never
  <2>3. Reported'
    BY <2>1 DEF FloorInv, Reported, ToReport
  <2>4. ShutSince' /\ ChainIsOpen'
    BY <2>1 DEF FloorInv, ShutSince, Noted, ToFreeze, ChainIsOpen
  <2> QED
    BY <2>2, <2>3, <2>4 DEF FloorInv
<1>3. ASSUME M4Freeze PROVE FloorInv'
  <2>1. /\ m4 = "freeze" /\ m4' = "emit" /\ SetFreeze(m4venue, "bare")
        /\ UNCHANGED <<event, kill, pc, role, todo, found, m4todo, m4venue, silent, noted, crashes>>
    BY <1>3 DEF M4Freeze
  <2>2. /\ freezeOf' \in [Legs -> {"no", "iso", "bare"}] /\ frozenAge' \in [Legs -> Nat]
        /\ freezeOf'[m4venue] = "bare" /\ frozenAge'[m4venue] = 0
        /\ \A w \in Legs : w # m4venue => freezeOf'[w] = freezeOf[w] /\ frozenAge'[w] = frozenAge[w]
    BY <2>1, SetFreezeShuts DEF FloorInv, FloorType
  <2>3. FloorType' /\ ProbeScope' /\ KillKnows'
    BY <2>1, <2>2 DEF FloorInv, FloorType, ProbeScope, Compared, KillKnows
  <2>4. Reported'
    BY <2>1 DEF FloorInv, Reported, ToReport
  <2>5. ShutSince'
    <3> SUFFICES ASSUME crashes = 0, NEW w \in Noted
                 PROVE  \/ freezeOf'[w] # "no" /\ frozenAge'[w] <= noted[w]
                        \/ noted[w] = 0 /\ w \in ToFreeze'
      BY <2>1 DEF ShutSince, Noted
    <3>1. w \in Legs /\ 0 <= noted[w]
      BY DEF Noted
    <3>2. CASE w = m4venue
      BY <2>2, <3>1, <3>2
    <3>3. CASE w # m4venue
      BY <2>1, <2>2, <3>1, <3>3 DEF FloorInv, ShutSince, ToFreeze
    <3> QED
      BY <3>2, <3>3
  <2>6. ChainIsOpen'
    BY <2>1 DEF FloorInv, ChainIsOpen
  <2> QED
    BY <2>3, <2>4, <2>5, <2>6 DEF FloorInv
<1>4. ASSUME M4Emit PROVE FloorInv'
  <2>1. /\ m4 = "emit" /\ m4' = "probe" /\ event' = 0 /\ silent' = silent \ {m4venue}
        /\ UNCHANGED <<freezeOf, frozenAge, kill, pc, role, todo, found, m4todo, m4venue, noted, crashes>>
    BY <1>4 DEF M4Emit, Report
  <2>2. FloorType' /\ ProbeScope' /\ KillKnows'
    BY <2>1 DEF FloorInv, FloorType, ProbeScope, Compared, KillKnows, Ages, Never
  <2>3. Reported'
    BY <2>1 DEF FloorInv, Reported, ToReport
  <2>4. ShutSince' /\ ChainIsOpen'
    BY <2>1 DEF FloorInv, ShutSince, Noted, ToFreeze, ChainIsOpen
  <2> QED
    BY <2>2, <2>3, <2>4 DEF FloorInv
<1> QED
  BY <1>1, <1>2, <1>3, <1>4

\* Steps of the probers that touch neither baseline, freeze nor event.
LEMMA RoundsKeep ==
  ASSUME FloorInv,
         \/ BeginTick \/ ProbeDone \/ Fire \/ M4Begin \/ M4Done \/ EngineDies \/ M4Dies
         \/ \E v \in Legs : M4Skip(v) \/ \E failed \in BOOLEAN : ProbeFails(v, failed)
  PROVE  FloorInv'
<1> USE DEF freezes, engine, probe, watcher, history
<1>1. UNCHANGED <<freezeOf, frozenAge, event, kill, silent, noted>> /\ FloorType' /\ KillKnows'
  BY DEF BeginTick, Tw5, ProbeDone, Forget, Fire, M4Begin, M4Done, EngineDies, M4Dies, M4Skip, ProbeFails,
         FloorInv, FloorType, KillKnows
<1>2. CASE BeginTick
  BY <1>1, <1>2 DEF FloorInv, BeginTick, Tw5, ProbeScope, Compared, Reported, ToReport, ShutSince, Noted, ToFreeze,
         ChainIsOpen
<1>3. CASE ProbeDone
  <2>1. CASE found # {}
    <3>1. /\ pc = "probe" /\ pc' = "freeze" /\ todo' = Compared
          /\ UNCHANGED <<role, found, m4, m4venue, crashes>>
      BY <1>3, <2>1 DEF ProbeDone, Compared
    <3>2. found \subseteq Compared
      BY <3>1 DEF FloorInv, ProbeScope
    <3>3. ProbeScope' /\ Reported'
      BY <1>1, <3>1, <3>2 DEF FloorInv, ProbeScope, Compared, Reported, ToReport
    <3>4. ShutSince' /\ ChainIsOpen'
      BY <1>1, <3>1, <3>2 DEF FloorInv, ShutSince, Noted, ToFreeze, ChainIsOpen
    <3> QED
      BY <1>1, <3>3, <3>4 DEF FloorInv
  <2>2. CASE found = {}
    <3>1. /\ pc = "probe" /\ pc' \in {"kill", "idle", "gate"} /\ (pc' = "gate" => role = "chain")
          /\ UNCHANGED <<m4, m4venue, crashes>>
      BY <1>3, <2>2 DEF ProbeDone, FloorInv, FloorType
    <3>2. ProbeScope' /\ Reported'
      BY <1>1, <2>2, <3>1 DEF FloorInv, ProbeScope, Reported, ToReport
    <3>3. ShutSince' /\ ChainIsOpen'
      BY <1>1, <2>2, <3>1 DEF FloorInv, ShutSince, Noted, ToFreeze, ChainIsOpen
    <3> QED
      BY <1>1, <3>2, <3>3 DEF FloorInv
  <2> QED
    BY <2>1, <2>2
<1>4. CASE Fire
  BY <1>1, <1>4 DEF FloorInv, Fire, ProbeScope, Compared, Reported, ToReport, ShutSince, Noted, ToFreeze,
         ChainIsOpen
<1>5. CASE M4Begin \/ M4Done \/ \E v \in Legs : M4Skip(v)
  BY <1>1, <1>5 DEF FloorInv, M4Begin, M4Done, M4Skip, ProbeScope, Compared, Reported, ToReport, ShutSince, Noted,
         ToFreeze, ChainIsOpen
<1>6. CASE EngineDies \/ M4Dies
  <2>1. crashes' # 0
    BY <1>6 DEF EngineDies, M4Dies, FloorInv, FloorType
  <2> QED
    BY <1>1, <1>6, <2>1 DEF FloorInv, EngineDies, M4Dies, Forget, ProbeScope, Compared, Reported, ShutSince,
           ChainIsOpen
<1>7. CASE \E v \in Legs, failed \in BOOLEAN : ProbeFails(v, failed)
  BY <1>1, <1>7 DEF FloorInv, ProbeFails, ProbeScope, Compared, Reported, ToReport, ShutSince, Noted, ToFreeze,
         ChainIsOpen
<1> QED
  BY <1>2, <1>3, <1>4, <1>5, <1>6, <1>7

\* The gates of the entry.
LEMMA GatesKeep ==
  ASSUME FloorInv, VenueCheck \/ \E other \in BOOLEAN : KillCheck(other) \/ Admit(other) \/ Deny(other)
  PROVE  FloorInv'
<1> USE DEF freezes, engine, probe, watcher, history
<1>1. CASE VenueCheck
  <2> DEFINE gone == {v \in Candidate : Expired(v)}
  <2>1. /\ pc = "venue"
        /\ freezeOf' = [v \in Legs |-> IF v \in gone THEN "no" ELSE freezeOf[v]]
        /\ frozenAge' = [v \in Legs |-> IF v \in gone THEN 0 ELSE frozenAge[v]]
        /\ \/ (\E v \in Candidate : Shut(v)) /\ pc' = "idle" /\ UNCHANGED <<role, todo, found>>
           \/ /\ \A v \in Candidate : ~Shut(v)
              /\ pc' = "probe" /\ role' = "chain" /\ todo' = Candidate /\ found' = {}
        /\ UNCHANGED <<event, kill, m4, m4todo, m4venue, silent, noted, crashes>>
    BY <1>1 DEF VenueCheck, Tw5
  <2>2. FloorType' /\ ProbeScope' /\ KillKnows'
    BY <2>1 DEF FloorInv, FloorType, ProbeScope, Compared, KillKnows
  <2>3. Reported'
    BY <2>1 DEF FloorInv, Reported, ToReport
  <2>4. ASSUME NEW v \in Noted, crashes = 0, freezeOf[v] # "no", frozenAge[v] <= noted[v]
        PROVE  ~Expired(v) /\ freezeOf'[v] # "no" /\ frozenAge'[v] <= noted[v]
    <3>1. ~Expired(v)
      BY <2>4, FloorConstants DEF FloorInv, FloorType, Noted, Expired, Ages, Never
    <3> QED
      BY <2>1, <2>4, <3>1 DEF Noted
  <2>5. ShutSince'
    <3> SUFFICES ASSUME crashes = 0, NEW v \in Noted
                 PROVE  \/ freezeOf'[v] # "no" /\ frozenAge'[v] <= noted[v]
                        \/ noted[v] = 0 /\ v \in ToFreeze'
      BY <2>1 DEF ShutSince, Noted
    <3>1. (freezeOf[v] # "no" /\ frozenAge[v] <= noted[v]) \/ (noted[v] = 0 /\ v \in ToFreeze)
      BY DEF FloorInv, ShutSince
    <3> QED
      BY <2>1, <2>4, <3>1 DEF ToFreeze
  <2>6. ChainIsOpen'
    <3> SUFFICES ASSUME crashes = 0, pc' = "probe", NEW v \in Candidate, 0 < noted[v], noted[v] < Ttl
                 PROVE  FALSE
      BY <2>1 DEF ChainIsOpen
    <3>1. v \in Noted /\ noted[v] # 0
      BY FloorConstants DEF Noted, FloorInv, FloorType, Ages, Never
    <3>2. freezeOf[v] # "no" /\ ~Expired(v)
      BY <2>4, <3>1 DEF FloorInv, ShutSince
    <3> QED
      BY <2>1, <3>2 DEF Shut
  <2> QED
    BY <2>2, <2>3, <2>5, <2>6 DEF FloorInv
<1>2. ASSUME NEW other \in BOOLEAN, KillCheck(other) \/ Admit(other) \/ Deny(other)
      PROVE  FloorInv'
  <2>1. /\ pc \in {"kill", "gate"} /\ pc' \in {"idle", "venue"}
        /\ kill' = kill \/ Refreshed(other)
        /\ UNCHANGED <<freezeOf, frozenAge, event, role, todo, found, m4, m4todo, m4venue, silent, noted, crashes>>
    BY <1>2 DEF KillCheck, Admit, Deny
  <2>2. kill' \in [age : Ages, halt : BOOLEAN] /\ KillKnows'
    BY <2>1, RefreshedKnows DEF FloorInv, FloorType, KillKnows
  <2> QED
    BY <2>1, <2>2 DEF FloorInv, FloorType, ProbeScope, Compared, Reported, ToReport, ShutSince, Noted, ToFreeze,
           ChainIsOpen
<1> QED
  BY <1>1, <1>2

\* The inductive invariant of the probers, the kill file and the freezes.
THEOREM FloorInvariant == Spec => []FloorInv
<1>1. FloorInv /\ UNCHANGED vars => FloorInv'
  BY DEF vars, freezes, engine, probe, watcher, history, FloorInv, FloorType, ProbeScope, Compared, Reported,
         ToReport, KillKnows, ShutSince, Noted, ToFreeze, ChainIsOpen
<1>2. FloorInv /\ [Next]_vars => FloorInv'
  <2> SUFFICES ASSUME FloorInv, Next PROVE FloorInv'
    BY <1>1
  <2> QED
    BY WorldKeeps, ProbersKeep, ReportersKeep, RoundsKeep, GatesKeep DEF Next, World, Engine, M4
<1> QED
  BY <1>2, FloorInitially, PTL DEF Spec

\* No change a prober took into the baseline stays out of the event log
\* (v3_tripwires.py:304, v3_events.py:306).
THEOREM NoChangeIsSilent == Spec => []NoSilentChange
<1>1. FloorInv => NoSilentChange
  BY DEF FloorInv, NoSilentChange, Reported, ToReport
<1> QED
  BY <1>1, FloorInvariant, PTL

\* The only step that enters.
LEMMA EnteringStep ==
  ASSUME FloorInv, [Next]_vars, ~entered, entered'
  PROVE  \E other \in BOOLEAN : Admit(other)
BY DEF vars, Next, World, Engine, M4, Hour, PairEnds, Change, BeginTick, ProbeDone, Fire, VenueCheck, Probe,
       FreezeLeg, Emit, ProbeFails, KillCheck, Deny, M4Begin, M4Freeze, M4Emit, M4Done, M4Probe, M4Skip, DeskPass,
       EngineDies, M4Dies

\* No entry relies on a kill file that misses a change older than an hour
\* (v3_portfolio.py:240).
THEOREM KillFileIsTimely == Spec => KillWithinTheHour
<1>1. FloorInv /\ [Next]_vars => (~entered /\ entered' => ~(Fresh < event /\ event < Day))
  <2> SUFFICES ASSUME FloorInv, [Next]_vars, ~entered, entered' PROVE ~(Fresh < event /\ event < Day)
    OBVIOUS
  <2>1. PICK other \in BOOLEAN : Admit(other)
    BY EnteringStep
  <2>2. Refreshed(other) /\ ~Halts(kill') /\ UNCHANGED event
    BY <2>1 DEF Admit
  <2> QED
    BY <2>2, RefreshedKnows DEF FloorInv
<1> QED
  BY <1>1, FloorInvariant, PTL DEF Spec, KillWithinTheHour

\* Nothing enters through a venue whose parameters changed within the lifetime of
\* the freeze (v3_exec.py:303).
THEOREM ChangedVenueIsShut == Spec => ChangeShutsVenue
<1>1. FloorInv /\ [Next]_vars =>
        (~entered /\ entered' /\ crashes = 0
           => \A v \in Candidate : ~(0 < noted[v] /\ noted[v] < Ttl))
  <2> SUFFICES ASSUME FloorInv, [Next]_vars, ~entered, entered', crashes = 0
               PROVE  \A v \in Candidate : ~(0 < noted[v] /\ noted[v] < Ttl)
    OBVIOUS
  <2>1. PICK other \in BOOLEAN : Admit(other)
    BY EnteringStep
  <2> QED
    BY <2>1 DEF Admit, FloorInv, ChainIsOpen
<1> QED
  BY <1>1, FloorInvariant, PTL DEF Spec, ChangeShutsVenue
=============================================================================
