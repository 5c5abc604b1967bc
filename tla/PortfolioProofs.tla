--------------------------- MODULE PortfolioProofs ----------------------------
(***************************************************************************)
(* The M5 gate and the books it reads, for any pairs, windows, pins, limits, *)
(* jobs, dumps and restores.  EntryGate: one active position per pair, a    *)
(* cooldown between two attempts, the limits of what the gate admitted.     *)
(* StateBackup: the tables belong together and a job's carry stays within   *)
(* the holding, live and restored.  TrickleLog: an hour is booked once, and *)
(* once more for every restore.                                             *)
(***************************************************************************)
EXTENDS EntryGate, StateBackup, TrickleLog, SumLemmas

Statuses == Active \cup {"cancelled", "closed"}

\* A window in its entry loop.
Loop == {"enter", "chain", "gated", "entering"}

RowType(r) ==
  /\ r.id \in 1 .. Cardinality(rows)
  /\ r.opened \in 0 .. clock
  /\ r.status \in Statuses

\* Rows are numbered as they are inserted and never deleted.
Numbered ==
  /\ IsFiniteSet(rows) /\ clock \in Nat
  /\ \A r \in rows : RowType(r)
  /\ \A r, q \in rows : r.id = q.id => r = q

Distinct(s) == \A i, j \in DOMAIN s : Name(s[i]) = Name(s[j]) => i = j

\* A loop considers a pair once.
WindowsTyped ==
  /\ pin.p \in Candidates /\ combo \in Candidates
  /\ DOMAIN epc = Windows /\ DOMAIN act = Windows /\ DOMAIN view = Windows
  /\ DOMAIN offer = Windows /\ DOMAIN queue = Windows
  /\ \A e \in Windows : queue[e] \in Seq(Candidates) /\ Distinct(queue[e])

Waiting(e, n) == \E i \in DOMAIN queue[e] : Name(queue[e][i]) = n

\* The names a loop read at its beginning still cover what is active of the pairs it
\* has not considered yet ...
ActCovers ==
  \A e \in Windows : epc[e] \in Loop =>
    \A r \in rows : r.status \in Active => Name(r.p) \in act[e] \/ ~Waiting(e, Name(r.p))

\* ... and no attempt at the pair it let into the chain is recent.
Rested ==
  \A e \in Windows : epc[e] \in {"chain", "gated"} =>
    /\ queue[e] # <<>> /\ Name(Candidate(e)) \notin act[e]
    /\ \A r \in rows : Name(r.p) = Name(Candidate(e)) => clock - r.opened >= Cooldown

GateInv == /\ Numbered /\ WindowsTyped
           /\ ~crossed => ActCovers /\ Rested
           /\ OnePositionPerPair /\ AttemptsAreSpaced

-----------------------------------------------------------------------------
\* The engine's list of candidates names no pair twice, with or without a pin.
LEMMA PairsAreDistinct ==
  ASSUME pin.p \in Candidates, NEW pinned \in BOOLEAN
  PROVE  EnginePairs(pinned) \in Seq(Candidates) /\ Distinct(EnginePairs(pinned))
<1>1. Static \in Seq(Candidates) /\ Distinct(Static)
  <2>1. Static \in Seq(Range(Static)) /\ Range(Static) \subseteq Candidates
    BY EntryGateAssumption DEF Candidates
  <2> QED
    BY <2>1, EntryGateAssumption DEF Distinct
<1> DEFINE same == {i \in DOMAIN Static : Name(Static[i]) = Name(pin.p)}
           at == CHOOSE i \in same : TRUE
           rest == IF same = {} THEN Static ELSE RemoveAt(Static, at)
<1>2. rest \in Seq(Candidates) /\ Distinct(rest)
        /\ \A i \in DOMAIN rest : Name(rest[i]) # Name(pin.p)
  <2>1. CASE same = {}
    BY <1>1, <2>1
  <2>2. CASE same # {}
    <3>1. at \in same
      BY <2>2
    <3>2. at \in 1 .. Len(Static) /\ Name(Static[at]) = Name(pin.p)
      BY <1>1, <3>1
    <3> HIDE DEF at
    <3>3. rest = SubSeq(Static, 1, at - 1) \o SubSeq(Static, at + 1, Len(Static))
      BY <2>2 DEF RemoveAt
    <3>4. /\ rest \in Seq(Candidates) /\ Len(rest) = Len(Static) - 1
          /\ \A i \in 1 .. Len(rest) : rest[i] = IF i < at THEN Static[i] ELSE Static[i + 1]
      <4> DEFINE a == SubSeq(Static, 1, at - 1)
                 b == SubSeq(Static, at + 1, Len(Static))
      <4>1. at \in Nat /\ Len(Static) \in Nat /\ at <= Len(Static) /\ at >= 1
        BY <1>1, <3>2
      <4>2. a \in Seq(Candidates) /\ Len(a) = at - 1 /\ \A i \in 1 .. at - 1 : a[i] = Static[i]
        BY <1>1, <4>1
      <4>3. /\ b \in Seq(Candidates) /\ Len(b) = Len(Static) - at
            /\ \A i \in 1 .. Len(Static) - at : b[i] = Static[at + i]
        BY <1>1, <4>1
      <4> HIDE DEF a, b
      <4>4. /\ a \o b \in Seq(Candidates) /\ Len(a \o b) = Len(Static) - 1
            /\ \A i \in 1 .. Len(Static) - 1 :
                 (a \o b)[i] = IF i <= at - 1 THEN a[i] ELSE b[i - (at - 1)]
        BY <4>1, <4>2, <4>3
      <4>5. \A i \in 1 .. Len(Static) - 1 : (a \o b)[i] = IF i < at THEN Static[i] ELSE Static[i + 1]
        <5> SUFFICES ASSUME NEW i \in 1 .. Len(Static) - 1
                     PROVE  (a \o b)[i] = IF i < at THEN Static[i] ELSE Static[i + 1]
          OBVIOUS
        <5>1. CASE i < at
          BY <4>1, <4>2, <4>4, <5>1
        <5>2. CASE ~(i < at)
          <6>1. i - (at - 1) \in 1 .. Len(Static) - at /\ at + (i - (at - 1)) = i + 1
            BY <4>1, <5>2
          <6>2. b[i - (at - 1)] = Static[i + 1]
            BY <4>3, <6>1
          <6> QED
            BY <4>1, <4>4, <5>2, <6>2
        <5> QED
          BY <5>1, <5>2
      <4> QED
        BY <3>3, <4>4, <4>5 DEF a, b
    <3> HIDE DEF rest
    <3>5. DOMAIN rest = 1 .. Len(rest) /\ DOMAIN Static = 1 .. Len(Static)
      BY <1>1, <3>4
    <3>6. Distinct(rest)
      BY <1>1, <3>2, <3>4, <3>5 DEF Distinct
    <3>7. \A i \in DOMAIN rest : Name(rest[i]) # Name(pin.p)
      BY <1>1, <3>2, <3>4, <3>5 DEF Distinct
    <3> QED
      BY <3>4, <3>6, <3>7
  <2> QED
    BY <2>1, <2>2
<1>3. CASE pinned /\ ValidPin(pin)
  <2>1. EnginePairs(pinned) = <<pin.p>> \o rest
    BY <1>3 DEF EnginePairs
  <2> HIDE DEF rest
  <2>2. /\ EnginePairs(pinned) \in Seq(Candidates) /\ Len(EnginePairs(pinned)) = Len(rest) + 1
        /\ EnginePairs(pinned)[1] = pin.p
        /\ \A i \in 2 .. Len(EnginePairs(pinned)) : EnginePairs(pinned)[i] = rest[i - 1]
    BY <1>2, <2>1
  <2>3. DOMAIN EnginePairs(pinned) = 1 .. Len(EnginePairs(pinned)) /\ DOMAIN rest = 1 .. Len(rest)
    BY <1>2, <2>2
  <2>4. ASSUME NEW i \in DOMAIN EnginePairs(pinned), NEW j \in DOMAIN EnginePairs(pinned),
               Name(EnginePairs(pinned)[i]) = Name(EnginePairs(pinned)[j])
        PROVE  i = j
    <3>1. \A k \in 2 .. Len(EnginePairs(pinned)) : k - 1 \in DOMAIN rest /\ EnginePairs(pinned)[k] = rest[k - 1]
      BY <1>2, <2>2, <2>3
    <3>2. CASE i = 1 /\ j # 1
      BY <1>2, <2>2, <2>3, <2>4, <3>1, <3>2
    <3>3. CASE i # 1 /\ j = 1
      BY <1>2, <2>2, <2>3, <2>4, <3>1, <3>3
    <3>4. CASE i # 1 /\ j # 1
      <4>1. i - 1 = j - 1
        BY <1>2, <2>3, <2>4, <3>1, <3>4 DEF Distinct
      <4> QED
        BY <4>1, <2>3, <2>4, <1>2, <2>2
    <3> QED
      BY <3>2, <3>3, <3>4
  <2> QED
    BY <2>2, <2>4 DEF Distinct
<1>4. CASE ~(pinned /\ ValidPin(pin))
  BY <1>1, <1>4 DEF EnginePairs
<1> QED
  BY <1>3, <1>4

\* A write of a status finds the row where it is in the count ...
LEMMA RowStays ==
  ASSUME Numbered, NEW r \in rows, NEW n, n.id = r.id, n.opened = r.opened, n.status \in Statuses,
         rows' = (rows \ {r}) \cup {n}, clock' = clock
  PROVE  Numbered'
<1> USE DEF Numbered
<1>1. IsFiniteSet(rows \ {r}) /\ Cardinality(rows \ {r}) = Cardinality(rows) - 1
  BY FS_RemoveElement
<1>2. n \notin rows \ {r}
  OBVIOUS
<1>3. IsFiniteSet(rows') /\ Cardinality(rows') = Cardinality(rows \ {r}) + 1
  BY <1>1, <1>2, FS_AddElement
<1>4. Cardinality(rows') = Cardinality(rows)
  BY <1>1, <1>3, FS_CardinalityType
<1> QED
  BY <1>3, <1>4 DEF RowType

\* ... and disturbs neither the pairs nor the windows, unless the row had ended.
LEMMA RowReplaced ==
  ASSUME GateInv, NEW r \in rows, NEW n, n.id = r.id, n.opened = r.opened, n.p = r.p,
         n.status \in Statuses, rows' = (rows \ {r}) \cup {n}, clock' = clock,
         UNCHANGED <<pin, combo, queue, act, offer>>, DOMAIN view' = Windows, DOMAIN epc' = Windows,
         \A e \in Windows : /\ epc'[e] \in Loop => epc[e] \in Loop
                            /\ epc'[e] \in {"chain", "gated"} => epc[e] = epc'[e],
         crossed => crossed', n.status \in Active /\ ~crossed' => r.status \in Active
  PROVE  GateInv'
<1>1. Numbered'
  BY RowStays DEF GateInv
<1>2. WindowsTyped'
  BY DEF GateInv, WindowsTyped
<1>3. \A x \in rows' : x.status \in Active /\ ~crossed' =>
        \E y \in rows : y.status \in Active /\ y.id = x.id /\ y.p = x.p
  OBVIOUS
<1>4. \A x \in rows' : \E y \in rows : y.id = x.id /\ y.p = x.p /\ y.opened = x.opened
  OBVIOUS
<1>5. OnePositionPerPair'
  <2> SUFFICES ASSUME ~crossed', NEW x \in rows', NEW z \in rows', x.status \in Active,
                      z.status \in Active, Name(x.p) = Name(z.p)
               PROVE  x = z
    BY DEF OnePositionPerPair, PairsHeldOnce
  <2>1. PICK y \in rows : y.status \in Active /\ y.id = x.id /\ y.p = x.p
    BY <1>3
  <2>2. PICK w \in rows : w.status \in Active /\ w.id = z.id /\ w.p = z.p
    BY <1>3
  <2>3. y = w
    BY <2>1, <2>2 DEF GateInv, OnePositionPerPair, PairsHeldOnce
  <2> QED
    BY <1>1, <2>1, <2>2, <2>3 DEF Numbered
<1>6. AttemptsAreSpaced'
  <2> SUFFICES ASSUME ~crossed', NEW x \in rows', NEW z \in rows', x.id < z.id, Name(x.p) = Name(z.p)
               PROVE  z.opened - x.opened >= Cooldown
    BY DEF AttemptsAreSpaced
  <2>1. PICK y \in rows : y.id = x.id /\ y.p = x.p /\ y.opened = x.opened
    BY <1>4
  <2>2. PICK w \in rows : w.id = z.id /\ w.p = z.p /\ w.opened = z.opened
    BY <1>4
  <2> QED
    BY <2>1, <2>2 DEF GateInv, AttemptsAreSpaced
<1>7. ~crossed' => ActCovers'
  <2> SUFFICES ASSUME ~crossed', NEW e \in Windows, epc'[e] \in Loop, NEW x \in rows', x.status \in Active
               PROVE  Name(x.p) \in act[e] \/ ~Waiting(e, Name(x.p))
    BY DEF ActCovers, Waiting
  <2>1. PICK y \in rows : y.status \in Active /\ y.id = x.id /\ y.p = x.p
    BY <1>3
  <2> QED
    BY <2>1 DEF GateInv, ActCovers
<1>8. ~crossed' => Rested'
  <2> SUFFICES ASSUME ~crossed', NEW e \in Windows, epc'[e] \in {"chain", "gated"}
               PROVE  /\ queue[e] # <<>> /\ Name(Candidate(e)) \notin act[e]
                      /\ \A x \in rows' : Name(x.p) = Name(Candidate(e)) => clock - x.opened >= Cooldown
    BY DEF Rested, Candidate
  <2>1. \A y \in rows : Name(y.p) = Name(Candidate(e)) => clock - y.opened >= Cooldown
    BY DEF GateInv, Rested
  <2>2. queue[e] # <<>> /\ Name(Candidate(e)) \notin act[e]
    BY DEF GateInv, Rested
  <2> QED
    BY <1>4, <2>1, <2>2
<1> QED
  BY <1>1, <1>2, <1>5, <1>6, <1>7, <1>8 DEF GateInv

-----------------------------------------------------------------------------
LEMMA WriteKeeps ==
  ASSUME GateInv, NEW r \in rows, NEW s \in Statuses, Write(r, s), clock' = clock,
         UNCHANGED <<pin, combo, queue, act, offer>>, DOMAIN view' = Windows, DOMAIN epc' = Windows,
         \A e \in Windows : /\ epc'[e] \in Loop => epc[e] \in Loop
                            /\ epc'[e] \in {"chain", "gated"} => epc[e] = epc'[e],
         crossed => crossed', ~crossed' => r.status \in Active
  PROVE  GateInv'
<1> DEFINE n == Became(r, s)
<1>1. rows' = (rows \ {r}) \cup {n}
  BY DEF Write
<1>2. n.id = r.id /\ n.opened = r.opened /\ n.p = r.p /\ n.status = s
  BY DEF GateInv, Numbered, RowType, Became
<1> HIDE DEF n
<1> QED
  BY <1>1, <1>2, RowReplaced

LEMMA AdvanceKeeps == ASSUME GateInv, NEW e \in Windows, EAdvance(e) PROVE GateInv'
<1>1. PICK v \in view[e], s \in StatusSteps, r \in rows :
        Write(r, s[2]) /\ crossed' = (crossed \/ r.status \notin Active)
        /\ view' = [view EXCEPT ![e] = (@ \ {v}) \cup {Became(r, s[2])}]
  BY DEF EAdvance
<1>2. s[2] \in Statuses
  BY DEF StatusSteps, Statuses, Active
<1>3. UNCHANGED <<clock, pin, combo, epc, queue, act, offer>> /\ DOMAIN view' = Windows /\ DOMAIN epc = Windows
  BY <1>1 DEF EAdvance, outside, deskState, GateInv, WindowsTyped
<1> QED
  BY <1>1, <1>2, <1>3, WriteKeeps

LEMMA SameRows ==
  ASSUME GateInv, rows' = rows, clock' \in {clock, clock + 1}, WindowsTyped', crossed' = crossed,
         ~crossed => ActCovers' /\ Rested'
  PROVE  GateInv'
<1>1. Numbered'
  BY DEF GateInv, Numbered, RowType
<1>2. OnePositionPerPair' /\ AttemptsAreSpaced'
  BY DEF GateInv, OnePositionPerPair, PairsHeldOnce, AttemptsAreSpaced
<1> QED
  BY <1>1, <1>2 DEF GateInv

LEMMA SameWindows ==
  ASSUME GateInv, rows' = rows, clock' \in {clock, clock + 1}, UNCHANGED <<epc, queue, act, offer>>,
         DOMAIN view' = Windows, crossed' = crossed, pin'.p \in Candidates, combo' \in Candidates
  PROVE  GateInv'
<1>1. WindowsTyped'
  BY DEF GateInv, WindowsTyped
<1>2. ~crossed => ActCovers'
  BY DEF GateInv, ActCovers, Waiting
<1>3. ~crossed => Rested'
  <2> SUFFICES ASSUME ~crossed, NEW e \in Windows, epc[e] \in {"chain", "gated"}
               PROVE  /\ queue[e] # <<>> /\ Name(Candidate(e)) \notin act[e]
                      /\ \A r \in rows : Name(r.p) = Name(Candidate(e)) => clock' - r.opened >= Cooldown
    BY DEF Rested, Candidate
  <2>1. /\ queue[e] # <<>> /\ Name(Candidate(e)) \notin act[e]
        /\ \A r \in rows : Name(r.p) = Name(Candidate(e)) => clock - r.opened >= Cooldown
    BY DEF GateInv, Rested
  <2>2. \A r \in rows : r.opened \in Int /\ clock \in Int
    BY DEF GateInv, Numbered, RowType
  <2> QED
    BY <2>1, <2>2, EntryGateAssumption
<1> QED
  BY <1>1, <1>2, <1>3, SameRows

LEMMA EnteredKeeps == ASSUME GateInv, NEW e \in Windows, EEntered(e) PROVE GateInv'
<1>1. PICK r \in rows, s \in Statuses :
        IF s = "seq_open" THEN UNCHANGED <<rows, crossed>>
        ELSE Write(r, s) /\ crossed' = (crossed \/ r.status \notin Active)
  BY DEF EEntered, Outcomes, Statuses, Active
<1>3. /\ epc[e] = "entering" /\ epc' = [epc EXCEPT ![e] = "enter"] /\ view' = [view EXCEPT ![e] = {}]
      /\ UNCHANGED <<clock, pin, combo, queue, act, offer>>
  BY DEF EEntered, outside, deskState
<1>4. DOMAIN view' = Windows /\ DOMAIN epc' = Windows /\ DOMAIN epc = Windows
  BY <1>3 DEF GateInv, WindowsTyped
<1>5. \A f \in Windows : /\ epc'[f] \in Loop => epc[f] \in Loop
                         /\ epc'[f] \in {"chain", "gated"} => epc[f] = epc'[f]
  BY <1>3, <1>4 DEF Loop
<1>6. CASE s # "seq_open"
  BY <1>1, <1>3, <1>4, <1>5, <1>6, WriteKeeps
<1>7. CASE s = "seq_open"
  <2>1. rows' = rows /\ crossed' = crossed
    BY <1>1, <1>7
  <2>2. WindowsTyped'
    BY <1>3, <1>4 DEF GateInv, WindowsTyped
  <2>3. ~crossed => ActCovers'
    BY <1>3, <1>5, <2>1 DEF GateInv, ActCovers, Waiting
  <2>4. ~crossed => Rested'
    BY <1>3, <1>5, <2>1 DEF GateInv, Rested, Candidate
  <2> QED
    BY <1>3, <2>1, <2>2, <2>3, <2>4, SameRows
<1> QED
  BY <1>6, <1>7

LEMMA CmdUnwindKeeps == GateInv /\ CmdUnwind => GateInv'
<1> SUFFICES ASSUME GateInv, CmdUnwind PROVE GateInv'
  OBVIOUS
<1>1. PICK r \in rows : r.status = "open" /\ Write(r, "unwinding")
  BY DEF CmdUnwind
<1>2. UNCHANGED <<clock, pin, combo, epc, queue, act, offer, view, crossed>>
      /\ DOMAIN epc = Windows /\ DOMAIN view = Windows
  BY DEF CmdUnwind, outside, deskState, engine, ghosts, GateInv, WindowsTyped
<1>3. r.status \in Active /\ "unwinding" \in Statuses
  BY <1>1 DEF Active, Statuses
<1>4. (crossed => crossed') /\ (~crossed' => r.status \in Active)
  BY <1>2, <1>3
<1> QED
  BY <1>1, <1>2, <1>3, <1>4, WriteKeeps

\* The first of a queue is a candidate, and no other of the queue has its name.
LEMMA FirstOfQueue ==
  ASSUME NEW q \in Seq(Candidates), q # <<>>, Distinct(q)
  PROVE  /\ Head(q) \in Candidates /\ Tail(q) \in Seq(Candidates) /\ Distinct(Tail(q))
         /\ 1 \in DOMAIN q /\ q[1] = Head(q)
         /\ \A i \in DOMAIN Tail(q) : i + 1 \in DOMAIN q /\ Tail(q)[i] = q[i + 1]
         /\ \A i \in DOMAIN Tail(q) : Name(Tail(q)[i]) # Name(Head(q))
<1>1. Head(q) \in Candidates /\ Tail(q) \in Seq(Candidates) /\ Head(q) = q[1] /\ Len(q) \in Nat \ {0}
  OBVIOUS
<1>2. \A i \in DOMAIN Tail(q) : i \in Nat \ {0} /\ i + 1 \in DOMAIN q /\ Tail(q)[i] = q[i + 1]
  OBVIOUS
<1>3. 1 \in DOMAIN q
  OBVIOUS
<1>4. Distinct(Tail(q))
  BY <1>2 DEF Distinct
<1>5. \A i \in DOMAIN Tail(q) : Name(Tail(q)[i]) # Name(Head(q))
  BY <1>1, <1>2, <1>3 DEF Distinct
<1> QED
  BY <1>1, <1>2, <1>3, <1>4, <1>5

\* A new row is of a pair that is neither active, since the names read cover it, nor
\* on cooldown, unless another window inserted since.
LEMMA InsertKeeps == ASSUME GateInv, NEW e \in Windows, EInsert(e) PROVE GateInv'
<1> DEFINE p == Candidate(e)
           id == Cardinality(rows) + 1
           n == [id |-> id, p |-> p, granted |-> offer[e], status |-> "seq_open", opened |-> clock]
<1>1. /\ epc[e] = "gated" /\ rows' = rows \cup {n} /\ view' = [view EXCEPT ![e] = {n}]
      /\ crossed' = (crossed \/ \E f \in Windows \ {e} : epc[f] \in {"enter", "chain", "gated", "entering"})
      /\ epc' = [epc EXCEPT ![e] = "entering"] /\ offer' = [offer EXCEPT ![e] = 0]
      /\ queue' = [queue EXCEPT ![e] = Tail(@)]
      /\ UNCHANGED <<clock, pin, combo, act>>
  BY DEF EInsert, NextOne, outside, deskState
<1>2. n.id = id /\ n.p = p /\ n.opened = clock /\ n.status = "seq_open"
  OBVIOUS
<1> HIDE DEF n
<1>3. Cardinality(rows) \in Nat /\ n \notin rows /\ \A r \in rows : r.id < n.id
  BY <1>2, FS_CardinalityType DEF GateInv, Numbered, RowType
<1>4. IsFiniteSet(rows') /\ Cardinality(rows') = id
  BY <1>1, <1>3, FS_AddElement DEF GateInv, Numbered
<1> HIDE DEF id
<1>5. id = Cardinality(rows) + 1
  BY DEF id
<1>6. Numbered'
  <2>1. \A r \in rows' : RowType(r)'
    BY <1>1, <1>2, <1>3, <1>4, <1>5 DEF GateInv, Numbered, RowType, Statuses, Active
  <2>2. \A r \in rows : r.id # n.id
    BY <1>2, <1>3, <1>5 DEF GateInv, Numbered, RowType
  <2> QED
    BY <1>1, <1>4, <2>1, <2>2 DEF GateInv, Numbered
<1>7. queue[e] \in Seq(Candidates) /\ Distinct(queue[e])
  BY DEF GateInv, WindowsTyped
<1>8. Tail(queue[e]) \in Seq(Candidates) /\ Distinct(Tail(queue[e]))
  <2>1. CASE queue[e] = <<>>
    <3>1. Tail(queue[e]) = <<>> /\ <<>> \in Seq(Candidates) /\ Distinct(<<>>)
      BY <2>1 DEF Distinct
    <3> QED
      BY <3>1
  <2>2. CASE queue[e] # <<>>
    BY <1>7, <2>2, FirstOfQueue
  <2> QED
    BY <2>1, <2>2
<1>9. WindowsTyped'
  BY <1>1, <1>8 DEF GateInv, WindowsTyped
<1>10. CASE crossed'
  BY <1>6, <1>9, <1>10 DEF GateInv, OnePositionPerPair, AttemptsAreSpaced
<1>11. CASE ~crossed'
  <2>1. ~crossed /\ \A f \in Windows : f # e => epc[f] \notin Loop
    BY <1>1, <1>11 DEF Loop
  <2>2. /\ queue[e] # <<>> /\ Name(p) \notin act[e]
        /\ \A r \in rows : Name(r.p) = Name(p) => clock - r.opened >= Cooldown
    BY <1>1, <2>1 DEF GateInv, Rested
  <2>3. /\ 1 \in DOMAIN queue[e] /\ queue[e][1] = p
        /\ \A i \in DOMAIN Tail(queue[e]) : i + 1 \in DOMAIN queue[e] /\ Tail(queue[e])[i] = queue[e][i + 1]
        /\ \A i \in DOMAIN Tail(queue[e]) : Name(Tail(queue[e])[i]) # Name(p)
    BY <1>7, <2>2, FirstOfQueue DEF Candidate
  <2> HIDE DEF p
  <2>4. \A r \in rows : r.status \in Active => Name(r.p) # Name(p)
    BY <1>1, <2>1, <2>2, <2>3 DEF GateInv, ActCovers, Waiting, Loop
  <2>5. OnePositionPerPair'
    BY <1>1, <1>2, <2>1, <2>4 DEF GateInv, OnePositionPerPair, PairsHeldOnce
  <2>6. AttemptsAreSpaced'
    <3> SUFFICES ASSUME NEW r \in rows \cup {n}, NEW q \in rows \cup {n}, r.id < q.id, Name(r.p) = Name(q.p)
                 PROVE  q.opened - r.opened >= Cooldown
      BY <1>1 DEF AttemptsAreSpaced
    <3>1. CASE r \in rows /\ q \in rows
      BY <2>1, <3>1 DEF GateInv, AttemptsAreSpaced
    <3>2. CASE r \in rows /\ q = n
      BY <1>2, <2>2, <3>2
    <3>3. CASE r = n
      <4>1. ~(n.id < n.id) /\ \A y \in rows : ~(n.id < y.id)
        BY <1>2, <1>3, <1>5 DEF GateInv, Numbered, RowType
      <4> QED
        BY <3>3, <4>1
    <3> QED
      BY <3>1, <3>2, <3>3
  <2>7. ActCovers'
    <3> SUFFICES ASSUME NEW f \in Windows, epc'[f] \in Loop, NEW r \in rows', r.status \in Active
                 PROVE  Name(r.p) \in act[f] \/ ~Waiting(f, Name(r.p))'
      BY <1>1 DEF ActCovers
    <3>1. f = e /\ queue'[f] = Tail(queue[e])
      BY <1>1, <2>1 DEF GateInv, WindowsTyped
    <3>2. CASE r = n
      BY <1>2, <2>3, <3>1, <3>2 DEF Waiting
    <3>3. CASE r \in rows
      <4>1. Name(r.p) \in act[e] \/ ~Waiting(e, Name(r.p))
        BY <1>1, <2>1, <3>3 DEF GateInv, ActCovers, Loop
      <4> QED
        BY <2>3, <3>1, <4>1 DEF Waiting
    <3> QED
      BY <1>1, <3>2, <3>3
  <2>8. Rested'
    BY <1>1, <2>1 DEF GateInv, WindowsTyped, Rested, Loop
  <2> QED
    BY <1>6, <1>9, <2>5, <2>6, <2>7, <2>8 DEF GateInv
<1> QED
  BY <1>10, <1>11

\* The steps of a window that write no row.
LEMMA LoopKeeps ==
  ASSUME GateInv, NEW e \in Windows,
         EBegin(e) \/ EReread(e) \/ EConsider(e) \/ EPick(e) \/ ESkip(e) \/ EGate(e) \/ ELeave(e)
  PROVE  GateInv'
<1>1. UNCHANGED <<rows, clock, pin, combo, crossed>>
  BY DEF EBegin, EReread, EConsider, EPick, ESkip, EGate, ELeave, outside, deskState, ghosts
<1>2. <<>> \in Seq(Candidates) /\ Distinct(<<>>)
  BY DEF Distinct
<1>3. queue[e] \in Seq(Candidates) /\ Distinct(queue[e])
  BY DEF GateInv, WindowsTyped
<1> DEFINE Unmoved(f) == /\ epc'[f] = epc[f] /\ queue'[f] = queue[f] /\ act'[f] = act[f]
<1> SUFFICES WindowsTyped' /\ (~crossed => ActCovers' /\ Rested')
  BY <1>1, SameRows
<1>4. ASSUME NEW f \in Windows, f # e PROVE Unmoved(f)
  BY <1>4 DEF GateInv, WindowsTyped, EBegin, EReread, EConsider, EPick, ESkip, EGate, ELeave, NextOne
<1>5. SUFFICES /\ WindowsTyped'
               /\ ~crossed /\ epc'[e] \in Loop =>
                    \A r \in rows : r.status \in Active =>
                      Name(r.p) \in act'[e] \/ ~Waiting(e, Name(r.p))'
               /\ ~crossed /\ epc'[e] \in {"chain", "gated"} =>
                    /\ queue'[e] # <<>> /\ Name(Candidate(e))' \notin act'[e]
                    /\ \A r \in rows : Name(r.p) = Name(Candidate(e))' => clock - r.opened >= Cooldown
  <2>1. ~crossed => ActCovers'
    <3> SUFFICES ASSUME ~crossed, NEW f \in Windows, epc'[f] \in Loop, NEW r \in rows, r.status \in Active
                 PROVE  Name(r.p) \in act'[f] \/ ~Waiting(f, Name(r.p))'
      BY <1>1 DEF ActCovers
    <3>1. CASE f = e
      BY <1>5, <3>1
    <3>2. CASE f # e
      BY <1>4, <3>2 DEF GateInv, ActCovers, Waiting
    <3> QED
      BY <3>1, <3>2
  <2>2. ~crossed => Rested'
    <3> SUFFICES ASSUME ~crossed, NEW f \in Windows, epc'[f] \in {"chain", "gated"}
                 PROVE  /\ queue'[f] # <<>> /\ Name(Candidate(f))' \notin act'[f]
                        /\ \A r \in rows : Name(r.p) = Name(Candidate(f))' => clock - r.opened >= Cooldown
      BY <1>1 DEF Rested
    <3>1. CASE f = e
      BY <1>5, <3>1
    <3>2. CASE f # e
      BY <1>4, <3>2 DEF GateInv, Rested, Candidate
    <3> QED
      BY <3>1, <3>2
  <2> QED
    BY <1>5, <2>1, <2>2
<1>6. CASE EBegin(e)
  <2>1. PICK pinned \in BOOLEAN : queue' = [queue EXCEPT ![e] = EnginePairs(pinned)]
    BY <1>6 DEF EBegin
  <2>2. EnginePairs(pinned) \in Seq(Candidates) /\ Distinct(EnginePairs(pinned))
    BY PairsAreDistinct DEF GateInv, WindowsTyped
  <2> QED
    BY <1>1, <1>6, <2>1, <2>2 DEF EBegin, GateInv, WindowsTyped, Loop
<1>7. CASE EReread(e)
  BY <1>1, <1>7 DEF EReread, GateInv, WindowsTyped, ActCovers, Waiting, Rested, Candidate
<1>8. CASE EConsider(e)
  <2>1. CASE killed
    BY <1>1, <1>2, <1>8, <2>1 DEF EConsider, GateInv, WindowsTyped, Loop
  <2>2. CASE ~killed
    BY <1>1, <1>8, <2>2 DEF EConsider, GateInv, WindowsTyped, Loop, ActiveNames, Held
  <2> QED
    BY <2>1, <2>2
<1>9. CASE EPick(e)
  <2>1. /\ epc[e] = "enter" /\ queue[e] # <<>> /\ ~HeldBack(e, Candidate(e))
        /\ epc' = [epc EXCEPT ![e] = "chain"] /\ UNCHANGED <<view, queue, act, offer>>
    BY <1>9 DEF EPick
  <2>2. WindowsTyped'
    BY <1>1, <2>1 DEF GateInv, WindowsTyped
  <2>3. ASSUME ~crossed
        PROVE  \A r \in rows : r.status \in Active => Name(r.p) \in act[e] \/ ~Waiting(e, Name(r.p))
    BY <2>1, <2>3 DEF GateInv, ActCovers, Loop
  <2>4. Name(Candidate(e)) \notin act[e] /\ Waiting(e, Name(Candidate(e)))
    <3>1. 1 \in DOMAIN queue[e] /\ queue[e][1] = Candidate(e)
      BY <1>3, <2>1, FirstOfQueue DEF Candidate
    <3> QED
      BY <2>1, <3>1 DEF HeldBack, Waiting
  <2>5. ASSUME ~crossed, NEW r \in rows, Name(r.p) = Name(Candidate(e)) PROVE clock - r.opened >= Cooldown
    <3>1. r.status \in {"cancelled", "closed"} /\ r \in Attempts(Name(Candidate(e)))
      BY <2>3, <2>4, <2>5 DEF GateInv, Numbered, RowType, Statuses, Attempts
    <3>2. ~(clock - r.opened < Cooldown)
      BY <2>1, <3>1 DEF HeldBack, OnCooldown
    <3> QED
      BY <3>2, EntryGateAssumption DEF GateInv, Numbered, RowType
  <2> QED
    BY <1>1, <2>1, <2>2, <2>3, <2>4, <2>5 DEF GateInv, WindowsTyped, Waiting, Candidate
<1>10. CASE ESkip(e)
  <2>1. /\ epc[e] \in Loop /\ queue[e] # <<>> /\ epc' = [epc EXCEPT ![e] = "enter"]
        /\ queue' = [queue EXCEPT ![e] = Tail(@)] /\ UNCHANGED <<view, act, offer>>
    BY <1>10 DEF ESkip, NextOne, Loop
  <2>2. /\ Tail(queue[e]) \in Seq(Candidates) /\ Distinct(Tail(queue[e]))
        /\ \A i \in DOMAIN Tail(queue[e]) : i + 1 \in DOMAIN queue[e] /\ Tail(queue[e])[i] = queue[e][i + 1]
    BY <1>3, <2>1, FirstOfQueue
  <2>3. WindowsTyped' /\ epc'[e] = "enter" /\ queue'[e] = Tail(queue[e]) /\ act'[e] = act[e]
    BY <1>1, <2>1, <2>2 DEF GateInv, WindowsTyped
  <2>4. ASSUME ~crossed, NEW r \in rows, r.status \in Active
        PROVE  Name(r.p) \in act'[e] \/ ~Waiting(e, Name(r.p))'
    <3>1. Name(r.p) \in act[e] \/ ~Waiting(e, Name(r.p))
      BY <2>1, <2>4 DEF GateInv, ActCovers
    <3> QED
      BY <2>2, <2>3, <3>1 DEF Waiting
  <2> QED
    BY <2>3, <2>4
<1>11. CASE EGate(e)
  <2>1. /\ epc[e] = "chain" /\ epc' = [epc EXCEPT ![e] = "gated"] /\ UNCHANGED <<view, queue, act>>
        /\ \E x : offer' = [offer EXCEPT ![e] = x]
    BY <1>11 DEF EGate
  <2>2. WindowsTyped'
    BY <1>1, <2>1 DEF GateInv, WindowsTyped
  <2> QED
    BY <1>1, <2>1, <2>2 DEF GateInv, WindowsTyped, ActCovers, Waiting, Rested, Candidate, Loop
<1>12. CASE ELeave(e)
  BY <1>1, <1>2, <1>12 DEF ELeave, GateInv, WindowsTyped, Loop
<1> QED
  BY <1>6, <1>7, <1>8, <1>9, <1>10, <1>11, <1>12

LEMMA OthersKeep == GateInv /\ (DeskOpens \/ Others \/ Clock) => GateInv'
<1>1. NoPin.p \in Candidates /\ Head(Static) \in Candidates /\ Pinnable \subseteq Candidates
  <2>1. Head(Static) = Static[1] /\ 1 \in DOMAIN Static
    BY EntryGateAssumption
  <2>2. Head(Static) \in Range(Static)
    BY <2>1 DEF Range
  <2> QED
    BY <2>2 DEF NoPin, Candidates
<1> SUFFICES ASSUME GateInv, DeskOpens \/ Others \/ Clock PROVE GateInv'
  OBVIOUS
<1>2. UNCHANGED <<rows, epc, view, queue, act, offer, crossed>> /\ clock' \in {clock, clock + 1}
  BY DEF DeskOpens, DPreflight, DWrite, DWindowEnds, Others, KillEval, Freezes, P0Opens, P0Closes,
         Clock, outside, engine, ghosts
<1>3. pin.p \in Candidates /\ combo \in Candidates
  BY DEF GateInv, WindowsTyped
<1>4. pin'.p \in Candidates /\ combo' \in Candidates
  BY <1>1, <1>3 DEF DeskOpens, DPreflight, DWrite, DWindowEnds, Others, KillEval, Freezes, P0Opens,
         P0Closes, Clock, deskState
<1>5. DOMAIN view' = Windows
  BY <1>2 DEF GateInv, WindowsTyped
<1> QED
  BY <1>2, <1>4, <1>5, SameWindows

\* The inductive invariant of the entry loops (v3_exec.py:1187).
THEOREM GateInvariant == GateSpec => []GateInv
<1>1. GateInit => GateInv
  <2> SUFFICES ASSUME GateInit PROVE GateInv
    OBVIOUS
  <2>1. /\ rows = {} /\ clock = 0 /\ pin = NoPin /\ combo = Head(Static)
        /\ epc = [e \in Windows |-> "idle"] /\ view = [e \in Windows |-> {}]
        /\ queue = [e \in Windows |-> <<>>] /\ act = [e \in Windows |-> {}]
        /\ offer = [e \in Windows |-> 0]
    BY DEF GateInit
  <2>2. Head(Static) \in Candidates
    <3>1. Head(Static) = Static[1] /\ 1 \in DOMAIN Static
      BY EntryGateAssumption
    <3> QED
      BY <3>1 DEF Candidates, Range
  <2>3. Numbered /\ OnePositionPerPair /\ AttemptsAreSpaced
    BY <2>1, FS_EmptySet DEF Numbered, OnePositionPerPair, PairsHeldOnce, AttemptsAreSpaced
  <2>4. WindowsTyped
    BY <2>1, <2>2 DEF WindowsTyped, NoPin, Distinct
  <2>5. ActCovers /\ Rested
    BY <2>1 DEF ActCovers, Rested, Loop
  <2> QED
    BY <2>3, <2>4, <2>5 DEF GateInv
<1>2. GateInv /\ UNCHANGED gateVars => GateInv'
  <2> SUFFICES ASSUME GateInv, UNCHANGED gateVars PROVE GateInv'
    OBVIOUS
  <2>1. UNCHANGED <<rows, clock, epc, view, queue, act, offer, crossed, pin, combo>>
    BY DEF gateVars, outside, deskState, engine, ghosts
  <2> QED
    BY <2>1, SameWindows DEF GateInv, WindowsTyped
<1>3. GateInv /\ [GateNext]_gateVars => GateInv'
  BY <1>2, AdvanceKeeps, EnteredKeeps, InsertKeeps, LoopKeeps, CmdUnwindKeeps, OthersKeep
     DEF GateNext, Engine
<1> QED
  BY <1>1, <1>3, PTL DEF GateSpec

\* Any number of windows, with a pin or without, beside the desk and the operator, hold
\* a pair once as long as none inserts inside the entry loop of another (v3_exec.py:1192).
THEOREM PairsAreHeldOnce == GateSpec => []OnePositionPerPair
  BY GateInvariant, PTL DEF GateInv

\* Under the same condition two attempts at a pair are a cooldown apart, whichever
\* windows made them and however the first one ended (v3_exec.py:293).
THEOREM CooldownSpacesAttempts == GateSpec => []AttemptsAreSpaced
  BY GateInvariant, PTL DEF GateInv

-----------------------------------------------------------------------------
(* The limits of the gate: sums over both books.                           *)
\* The sums of the gate are sums of natural weights.
LEMMA GrantedIsTotal ==
  ASSUME NEW S, IsFiniteSet(S), NEW w, \A r \in S : w[r] = r.granted
  PROVE  Granted(S) = Total(w, S)
<1> DEFINE Eq(g) == g = [s \in SUBSET S |-> IF s = {} THEN 0
                           ELSE (CHOOSE x \in s : TRUE).granted + g[s \ {CHOOSE x \in s : TRUE}]]
           it == CHOOSE g : Eq(g)
<1>1. Granted(S) = it[S]
  BY DEF Granted, MapThenSumSet, MapThenFoldSet
<1>2. \A g : IsSum(g, w, S) <=> Eq(g)
  <2> SUFFICES ASSUME NEW g PROVE IsSum(g, w, S) <=> Eq(g)
    OBVIOUS
  <2>1. \A s \in SUBSET S : s # {} => Pick(s) \in S /\ w[Pick(s)] = (CHOOSE x \in s : TRUE).granted
    BY PickIsMember DEF Pick
  <2> QED
    BY <2>1 DEF IsSum, Pick
<1>3. IsSum(it, w, S)
  <2>1. \E g : Eq(g)
    BY <1>2, SumExists
  <2> HIDE DEF Eq
  <2> QED
    BY <1>2, <2>1
<1> HIDE DEF it
<1>4. it[S] = Total(w, S)
  <2>1. S \in SUBSET S /\ Same(w, w, S)
    BY DEF Same
  <2> QED
    BY <1>3, <2>1, TotalOf
<1> QED
  BY <1>1, <1>4

LEMMA SizeIsTotal ==
  ASSUME NEW S, IsFiniteSet(S), NEW w, \A r \in S : w[r] = r.p.size
  PROVE  SizeOf(S) = Total(w, S)
<1> DEFINE Eq(g) == g = [s \in SUBSET S |-> IF s = {} THEN 0
                           ELSE (CHOOSE x \in s : TRUE).p.size + g[s \ {CHOOSE x \in s : TRUE}]]
           it == CHOOSE g : Eq(g)
<1>1. SizeOf(S) = it[S]
  BY DEF SizeOf, MapThenSumSet, MapThenFoldSet
<1>2. \A g : IsSum(g, w, S) <=> Eq(g)
  <2> SUFFICES ASSUME NEW g PROVE IsSum(g, w, S) <=> Eq(g)
    OBVIOUS
  <2>1. \A s \in SUBSET S : s # {} => Pick(s) \in S /\ w[Pick(s)] = (CHOOSE x \in s : TRUE).p.size
    BY PickIsMember DEF Pick
  <2> QED
    BY <2>1 DEF IsSum, Pick
<1>3. IsSum(it, w, S)
  <2>1. \E g : Eq(g)
    BY <1>2, SumExists
  <2> HIDE DEF Eq
  <2> QED
    BY <1>2, <2>1
<1> HIDE DEF it
<1>4. it[S] = Total(w, S)
  <2>1. S \in SUBSET S /\ Same(w, w, S)
    BY DEF Same
  <2> QED
    BY <1>3, <2>1, TotalOf
<1> QED
  BY <1>1, <1>4

\* What the gate sums are natural numbers.
Graded(S) == IsFiniteSet(S) /\ \A r \in S : r.granted \in Nat
Sized(S)  == IsFiniteSet(S) /\ \A r \in S : r.p.size \in Nat

LEMMA GrantedInsert ==
  ASSUME NEW S, NEW n, n \notin S, Graded(S \cup {n}), IsFiniteSet(S)
  PROVE  /\ Granted(S) \in Nat /\ n.granted \in Nat
         /\ Granted(S \cup {n}) = n.granted + Granted(S)
<1> DEFINE w == [r \in S \cup {n} |-> r.granted]
<1>1. \A r \in S \cup {n} : w[r] = r.granted /\ w[r] \in Nat
  BY DEF Graded
<1>2. IsFiniteSet(S \cup {n})
  BY DEF Graded
<1> HIDE DEF w
<1>3. Granted(S) = Total(w, S)
  BY <1>1, GrantedIsTotal
<1>4. Granted(S \cup {n}) = Total(w, S \cup {n})
  BY <1>1, <1>2, GrantedIsTotal
<1>5. Total(w, S \cup {n}) = w[n] + Total(w, S)
  BY <1>1, TotalInsert
<1>6. Total(w, S) \in Nat
  BY <1>1, TotalType
<1> QED
  BY <1>1, <1>3, <1>4, <1>5, <1>6

LEMMA GrantedOfSubset ==
  ASSUME NEW S, Graded(S), NEW T \in SUBSET S
  PROVE  Granted(T) \in Nat /\ Granted(S) \in Nat /\ Granted(T) <= Granted(S)
<1> DEFINE w == [r \in S |-> r.granted]
<1>1. \A r \in S : w[r] = r.granted /\ w[r] \in Nat
  BY DEF Graded
<1>2. IsFiniteSet(S) /\ IsFiniteSet(T)
  BY FS_Subset DEF Graded
<1> HIDE DEF w
<1>3. Granted(S) = Total(w, S)
  BY <1>1, <1>2, GrantedIsTotal
<1>4. Granted(T) = Total(w, T)
  BY <1>1, <1>2, GrantedIsTotal
<1>5. Total(w, T) \in Nat /\ Total(w, S) \in Nat
  BY <1>1, <1>2, TotalType
<1>6. Total(w, T) <= Total(w, S)
  BY <1>1, <1>2, TotalOfSubset
<1> QED
  BY <1>3, <1>4, <1>5, <1>6

\* A row replaced by one of the same grant leaves the sum, one that ends lowers it.
LEMMA GrantedReplaced ==
  ASSUME NEW S, Graded(S), NEW r, NEW n, n.granted = r.granted, r \in S, n \notin S \ {r}
  PROVE  Granted((S \ {r}) \cup {n}) = Granted(S)
<1>1. Graded(S \ {r}) /\ Graded((S \ {r}) \cup {n}) /\ IsFiniteSet(S \ {r})
  BY FS_RemoveElement, FS_AddElement DEF Graded
<1>2. (S \ {r}) \cup {r} = S
  OBVIOUS
<1>3. Granted(S) = r.granted + Granted(S \ {r})
  BY <1>1, <1>2, GrantedInsert
<1>4. Granted((S \ {r}) \cup {n}) = n.granted + Granted(S \ {r})
  BY <1>1, GrantedInsert
<1> QED
  BY <1>3, <1>4

LEMMA SizeOfSubset ==
  ASSUME NEW S, Sized(S), NEW T \in SUBSET S
  PROVE  SizeOf(T) \in Nat /\ SizeOf(S) \in Nat /\ SizeOf(T) <= SizeOf(S)
<1> DEFINE w == [r \in S |-> r.p.size]
<1>1. \A r \in S : w[r] = r.p.size /\ w[r] \in Nat
  BY DEF Sized
<1>2. IsFiniteSet(S) /\ IsFiniteSet(T)
  BY FS_Subset DEF Sized
<1> HIDE DEF w
<1>3. SizeOf(S) = Total(w, S)
  BY <1>1, <1>2, SizeIsTotal
<1>4. SizeOf(T) = Total(w, T)
  BY <1>1, <1>2, SizeIsTotal
<1>5. Total(w, T) \in Nat /\ Total(w, S) \in Nat
  BY <1>1, <1>2, TotalType
<1>6. Total(w, T) <= Total(w, S)
  BY <1>1, <1>2, TotalOfSubset
<1> QED
  BY <1>3, <1>4, <1>5, <1>6

LEMMA SizeOfUnion ==
  ASSUME NEW S, NEW T, Sized(S), Sized(T), S \cap T = {}
  PROVE  SizeOf(S \cup T) = SizeOf(S) + SizeOf(T)
<1> DEFINE w == [r \in S \cup T |-> r.p.size]
<1>1. \A r \in S \cup T : w[r] = r.p.size /\ w[r] \in Nat
  BY DEF Sized
<1>2. IsFiniteSet(S) /\ IsFiniteSet(T) /\ IsFiniteSet(S \cup T)
  BY FS_Union DEF Sized
<1> HIDE DEF w
<1>3. SizeOf(S) = Total(w, S) /\ SizeOf(T) = Total(w, T)
  BY <1>1, <1>2, SizeIsTotal
<1>4. SizeOf(S \cup T) = Total(w, S \cup T)
  BY <1>1, <1>2, SizeIsTotal
<1>5. Total(w, S \cup T) = Total(w, S) + Total(w, T)
  BY <1>1, <1>2, TotalOfUnion
<1> QED
  BY <1>3, <1>4, <1>5

\* Grants within the configured sizes sum to no more than them.
LEMMA GrantedWithinSize ==
  ASSUME NEW S, Graded(S), Sized(S), \A r \in S : r.granted <= r.p.size
  PROVE  Granted(S) <= SizeOf(S)
<1> DEFINE w == [r \in S |-> r.granted]
           v == [r \in S |-> r.p.size]
<1>1. \A r \in S : w[r] = r.granted /\ v[r] = r.p.size /\ w[r] \in Nat /\ v[r] \in Nat /\ w[r] <= v[r]
  BY DEF Graded, Sized
<1>2. IsFiniteSet(S)
  BY DEF Graded
<1> HIDE DEF w, v
<1>3. Granted(S) = Total(w, S) /\ SizeOf(S) = Total(v, S)
  BY <1>1, <1>2, GrantedIsTotal, SizeIsTotal
<1>4. Total(w, S) <= Total(v, S)
  BY <1>1, <1>2, TotalOfLarger
<1> QED
  BY <1>3, <1>4

\* What the gate granted a row is at most the size of its pair, and a P0
\* position is not an engine row.
RowGrant(r) ==
  /\ DOMAIN r = {"id", "p", "granted", "status", "opened"}
  /\ r.p \in Candidates /\ r.granted \in Nat /\ r.granted <= r.p.size

P0Position(b) == DOMAIN b = {"p", "opened", "status", "later"} /\ b.p.size \in Nat

BooksTyped ==
  /\ \A r \in rows : RowGrant(r)
  /\ IsFiniteSet(paper) /\ \A b \in paper : P0Position(b)

\* What one limit compares: the rows and the P0 positions it is about.
OnVenue(S, v) == {r \in S : v \in {r.p.short, r.p.long}}
OfCoin(S, c)  == {r \in S : r.p.coin = c}
Load          == Granted(Held) + SizeOf(PaperKept)
VenueLoad(v)  == Granted(OnVenue(Held, v)) + SizeOf(OnVenue(PaperKept, v))
CoinCount(c)  == Cardinality(OfCoin(Held, c) \cup OfCoin(PaperKept, c))

\* Between the gate and the insertion there is room for what the gate granted.
OfferFits ==
  ~overtaken /\ ~crossed =>
    \A e \in Windows, p \in Candidates : epc[e] = "gated" /\ Candidate(e) = p =>
      /\ Load + offer[e] <= MaxLev
      /\ \A v \in {p.short, p.long} : VenueLoad(v) + offer[e] <= VenueCap[v]
      /\ CoinCount(p.coin) < 2

OffersTyped ==
  \A e \in Windows :
    /\ offer[e] \in Nat
    /\ epc[e] \in {"chain", "gated"} => queue[e] # <<>>
    /\ epc[e] = "gated" => offer[e] <= Candidate(e).size

LimitInv == GateInv /\ BooksTyped /\ OffersTyped /\ OfferFits /\ LimitsHold

\* Nothing is heavier than before.
Lighter ==
  /\ Load \in Int /\ Load' \in Int /\ Load' <= Load
  /\ \A v : VenueLoad(v) \in Int /\ VenueLoad(v)' \in Int /\ VenueLoad(v)' <= VenueLoad(v)
  /\ \A c : CoinCount(c) \in Int /\ CoinCount(c)' \in Int /\ CoinCount(c)' <= CoinCount(c)

-----------------------------------------------------------------------------
\* The gate grants no more than the pair's configured size.
LEMMA GatedWithinSize ==
  ASSUME NEW p \in Candidates, NEW cap \in Caps
  PROVE  Gated(p, cap) \in Nat /\ Gated(p, cap) <= p.size
<1>1. cap \in Int /\ p.size \in Nat
  BY EntryGateAssumption
<1>2. CASE cap > 0
  <2> DEFINE a == (7 * cap) \div 10
             m == IF IsNew(Name(p)) THEN 5 ELSE 7
             b == (m * cap) \div 10
             s == {p.size, a, b}
  <2>1. a \in Nat /\ b \in Nat
    <3>1. 7 * cap \in Nat /\ 5 * cap \in Nat
      BY <1>1, <1>2
    <3>2. m * cap = 7 * cap \/ m * cap = 5 * cap
      OBVIOUS
    <3> QED
      BY <3>1, <3>2
  <2>2. Gated(p, cap) = Min(s)
    BY <1>2 DEF Gated
  <2> HIDE DEF a, b
  <2>3. \E x \in s : \A y \in s : x <= y
    BY <1>1, <2>1
  <2>4. Min(s) \in s /\ \A y \in s : Min(s) <= y
    <3> HIDE DEF s
    <3> QED
      BY <2>3 DEF Min
  <2> QED
    BY <1>1, <2>1, <2>2, <2>4
<1>3. CASE ~(cap > 0)
  BY <1>1, <1>3 DEF Gated
<1> QED
  BY <1>2, <1>3

\* Grants and P0 positions weigh no more than a set that holds both at its
\* configured sizes, because what is granted is at most what the gate counted.
LEMMA PartsWithin ==
  ASSUME NEW H, NEW B, NEW A, Graded(H), Sized(H), Sized(B), Sized(A), H \cap B = {},
         H \cup B \subseteq A, \A r \in H : r.granted <= r.p.size
  PROVE  Granted(H) + SizeOf(B) <= SizeOf(A)
<1>1. Granted(H) \in Nat /\ Granted(H) <= SizeOf(H)
  BY GrantedOfSubset, GrantedWithinSize
<1>2. SizeOf(H) \in Nat /\ SizeOf(B) \in Nat
  BY SizeOfSubset
<1>3. SizeOf(H \cup B) = SizeOf(H) + SizeOf(B)
  BY SizeOfUnion
<1>4. SizeOf(H \cup B) <= SizeOf(A) /\ SizeOf(A) \in Nat
  BY SizeOfSubset
<1> QED
  BY <1>1, <1>2, <1>3, <1>4

\* How a row goes on or ends: it keeps its place and its grant, or leaves.
Moves(S, T, r, n) ==
  \/ T \subseteq S
  \/ r \in S /\ n \notin S \ {r} /\ n.granted = r.granted /\ T = (S \ {r}) \cup {n}

LEMMA MovesWithin ==
  ASSUME NEW S, NEW T, NEW r, NEW n, Graded(S), Moves(S, T, r, n)
  PROVE  /\ Granted(T) \in Nat /\ Granted(S) \in Nat /\ Granted(T) <= Granted(S)
         /\ IsFiniteSet(T) /\ Cardinality(T) <= Cardinality(S)
<1>1. CASE T \subseteq S
  BY <1>1, GrantedOfSubset, FS_Subset DEF Graded
<1>2. CASE r \in S /\ n \notin S \ {r} /\ n.granted = r.granted /\ T = (S \ {r}) \cup {n}
  <2>1. Granted(T) = Granted(S)
    BY <1>2, GrantedReplaced
  <2>2. Granted(S) \in Nat
    BY GrantedOfSubset
  <2>3. IsFiniteSet(S \ {r}) /\ Cardinality(S \ {r}) = Cardinality(S) - 1 /\ Cardinality(S) \in Nat
    BY <1>2, FS_RemoveElement, FS_CardinalityType DEF Graded
  <2>4. IsFiniteSet(T) /\ Cardinality(T) = Cardinality(S \ {r}) + 1
    BY <1>2, <2>3, FS_AddElement
  <2> QED
    BY <2>1, <2>2, <2>3, <2>4
<1> QED
  BY <1>1, <1>2 DEF Moves

-----------------------------------------------------------------------------
\* The sets the limits are about are finite and of sized, graded entries.
LEMMA HeldIsGraded ==
  ASSUME Numbered, BooksTyped
  PROVE  /\ Graded(Held) /\ Sized(Held) /\ Sized(PaperOpen) /\ Sized(PaperKept)
         /\ Held \cap PaperOpen = {} /\ Held \cap PaperKept = {} /\ PaperKept \subseteq PaperOpen
<1>1. IsFiniteSet(Held) /\ IsFiniteSet(PaperOpen)
  BY FS_Subset DEF Numbered, BooksTyped, Held, PaperOpen
<1>2. \A r \in Held : r.granted \in Nat /\ r.p.size \in Nat
  BY EntryGateAssumption DEF Held, BooksTyped, RowGrant
<1>3. \A b \in PaperOpen : b.p.size \in Nat
  BY DEF PaperOpen, BooksTyped, P0Position
<1>4. \A r \in Held, b \in PaperOpen : DOMAIN r # DOMAIN b
  <2>1. \A r \in Held : "granted" \in DOMAIN r
    BY DEF Held, BooksTyped, RowGrant
  <2>2. \A b \in PaperOpen : "granted" \notin DOMAIN b
    BY DEF PaperOpen, BooksTyped, P0Position
  <2> QED
    BY <2>1, <2>2
<1>5. PaperKept \subseteq PaperOpen /\ IsFiniteSet(PaperKept)
  BY <1>1, FS_Subset DEF PaperKept
<1> QED
  BY <1>1, <1>2, <1>3, <1>4, <1>5 DEF Graded, Sized

LEMMA PartsAreGraded ==
  ASSUME NEW S, NEW T \in SUBSET S
  PROVE  (Graded(S) => Graded(T)) /\ (Sized(S) => Sized(T))
BY FS_Subset DEF Graded, Sized

\* Rows that move on or end, and P0 positions that close, weigh no more than before.
LEMMA StepLightens ==
  ASSUME Numbered, BooksTyped, PaperKept' \subseteq PaperKept,
         NEW r, NEW n, Moves(Held, Held', r, n),
         n.p = r.p
  PROVE  Lighter
<1>1. Graded(Held) /\ Sized(PaperKept) /\ Held \cap PaperKept = {}
  BY HeldIsGraded
<1>2. Load \in Int /\ Load' \in Int /\ Load' <= Load
  <2>1. Granted(Held') <= Granted(Held) /\ Granted(Held') \in Nat /\ Granted(Held) \in Nat
    BY <1>1, MovesWithin
  <2>2. SizeOf(PaperKept') <= SizeOf(PaperKept) /\ SizeOf(PaperKept') \in Nat /\ SizeOf(PaperKept) \in Nat
    BY <1>1, SizeOfSubset
  <2>3. Load = Granted(Held) + SizeOf(PaperKept) /\ Load' = Granted(Held') + SizeOf(PaperKept')
    BY DEF Load
  <2> QED
    BY <2>1, <2>2, <2>3
<1>3. ASSUME NEW v
      PROVE  VenueLoad(v) \in Int /\ VenueLoad(v)' \in Int /\ VenueLoad(v)' <= VenueLoad(v)
  <2> DEFINE S == OnVenue(Held, v)
             T == OnVenue(Held', v)
             B == OnVenue(PaperKept, v)
             C == OnVenue(PaperKept', v)
  <2>1. Moves(S, T, r, n)
    BY DEF Moves, OnVenue
  <2>2. Graded(S) /\ Sized(B) /\ C \in SUBSET B
    BY <1>1, PartsAreGraded DEF OnVenue
  <2>3. VenueLoad(v) = Granted(S) + SizeOf(B) /\ VenueLoad(v)' = Granted(T) + SizeOf(C)
    BY DEF VenueLoad, OnVenue
  <2> HIDE DEF S, T, B, C
  <2>4. Granted(T) <= Granted(S) /\ Granted(T) \in Nat /\ Granted(S) \in Nat
    BY <2>1, <2>2, MovesWithin
  <2>5. SizeOf(C) <= SizeOf(B) /\ SizeOf(C) \in Nat /\ SizeOf(B) \in Nat
    BY <2>2, SizeOfSubset
  <2> QED
    BY <2>3, <2>4, <2>5
<1>4. ASSUME NEW c
      PROVE  CoinCount(c) \in Int /\ CoinCount(c)' \in Int /\ CoinCount(c)' <= CoinCount(c)
  <2> DEFINE S0 == OfCoin(Held, c)
             T0 == OfCoin(Held', c)
             B == OfCoin(PaperKept, c)
             C == OfCoin(PaperKept', c)
             S == S0 \cup B
             T == T0 \cup C
  <2>1. CoinCount(c) = Cardinality(S) /\ CoinCount(c)' = Cardinality(T)
    BY DEF CoinCount, OfCoin
  <2>2. IsFiniteSet(S)
    <3>1. S \subseteq Held \cup PaperKept /\ IsFiniteSet(Held \cup PaperKept)
      BY <1>1, FS_Union DEF OfCoin, Graded, Sized
    <3> QED
      BY <3>1, FS_Subset
  <2>3. T0 \subseteq S0 \/ (r \in S0 /\ n \notin S0 \ {r} /\ T0 = (S0 \ {r}) \cup {n})
    BY DEF Moves, OfCoin
  <2>4. C \subseteq B /\ S0 \cap B = {}
    BY <1>1 DEF OfCoin
  <2>5. T \subseteq S \/ (r \in S /\ T \subseteq (S \ {r}) \cup {n})
    <3> HIDE DEF S0, T0, B, C
    <3> QED
      BY <2>3, <2>4
  <2> HIDE DEF S, T
  <2>6. IsFiniteSet(T) /\ Cardinality(T) <= Cardinality(S)
    <3>1. CASE T \subseteq S
      BY <2>2, <3>1, FS_Subset
    <3>2. CASE r \in S /\ T \subseteq (S \ {r}) \cup {n}
      <4>1. IsFiniteSet(S \ {r}) /\ Cardinality(S \ {r}) = Cardinality(S) - 1 /\ Cardinality(S) \in Nat
        BY <2>2, <3>2, FS_RemoveElement, FS_CardinalityType
      <4>2. /\ IsFiniteSet((S \ {r}) \cup {n})
            /\ Cardinality((S \ {r}) \cup {n}) <= Cardinality(S \ {r}) + 1
        BY <4>1, OneMore
      <4>3. IsFiniteSet(T) /\ Cardinality(T) <= Cardinality((S \ {r}) \cup {n})
        BY <3>2, <4>2, FS_Subset
      <4>4. Cardinality(T) \in Nat /\ Cardinality((S \ {r}) \cup {n}) \in Nat
        BY <4>2, <4>3, FS_CardinalityType
      <4> QED
        BY <4>1, <4>2, <4>3, <4>4
    <3> QED
      BY <2>5, <3>1, <3>2
  <2>7. Cardinality(T) \in Nat /\ Cardinality(S) \in Nat
    BY <2>2, <2>6, FS_CardinalityType
  <2> QED
    BY <2>1, <2>6, <2>7
<1> QED
  BY <1>2, <1>3, <1>4 DEF Lighter

\* The limits in these terms.
LEMMA LimitsAreLoads ==
  LimitsHold <=> (~overtaken /\ ~crossed =>
                    /\ Load <= MaxLev /\ \A v \in LegVenues : VenueLoad(v) <= VenueCap[v]
                    /\ \A p \in Candidates : CoinCount(p.coin) <= 2)
BY DEF LimitsHold, WithinLeverage, WithinVenueCaps, AtMostTwoLong, Load, VenueLoad, CoinCount,
       OnVenue, OfCoin

LEMMA LegsAreVenues == ASSUME NEW p \in Candidates PROVE {p.short, p.long} \subseteq LegVenues
BY DEF LegVenues

\* The candidate of a window in the chain or past the gate is one.
LEMMA CandidateIsOne ==
  ASSUME GateInv, OffersTyped, NEW e \in Windows, epc[e] \in {"chain", "gated"}
  PROVE  Candidate(e) \in Candidates
<1>1. queue[e] \in Seq(Candidates) /\ queue[e] # <<>> /\ Distinct(queue[e])
  BY DEF GateInv, WindowsTyped, OffersTyped
<1> QED
  BY <1>1, FirstOfQueue DEF Candidate

\* A step that makes nothing heavier and passes no window through the gate keeps the
\* limits and the room.
LEMMA LighterKeeps ==
  ASSUME LimitInv, GateInv', BooksTyped', OffersTyped', Lighter,
         overtaken => overtaken', crossed => crossed',
         \A e \in Windows : epc'[e] = "gated" =>
           epc[e] = "gated" /\ queue'[e] = queue[e] /\ offer'[e] = offer[e]
  PROVE  LimitInv'
<1>0. MaxLev \in Int /\ \A v \in LegVenues : VenueCap[v] \in Int
  BY EntryGateAssumption
<1>1. LimitsHold'
  <2> SUFFICES ASSUME ~overtaken', ~crossed'
               PROVE  /\ Load' <= MaxLev /\ \A v \in LegVenues : VenueLoad(v)' <= VenueCap[v]
                      /\ \A p \in Candidates : CoinCount(p.coin)' <= 2
    BY DEF LimitsHold, WithinLeverage, WithinVenueCaps, AtMostTwoLong, Load, VenueLoad, CoinCount,
           OnVenue, OfCoin
  <2>1. /\ Load <= MaxLev /\ \A v \in LegVenues : VenueLoad(v) <= VenueCap[v]
        /\ \A p \in Candidates : CoinCount(p.coin) <= 2
    BY LimitsAreLoads DEF LimitInv
  <2>2. Load' <= MaxLev
    BY <1>0, <2>1 DEF Lighter
  <2>3. ASSUME NEW v \in LegVenues PROVE VenueLoad(v)' <= VenueCap[v]
    BY <1>0, <2>1 DEF Lighter
  <2>4. ASSUME NEW p \in Candidates PROVE CoinCount(p.coin)' <= 2
    BY <2>1 DEF Lighter
  <2> QED
    BY <2>2, <2>3, <2>4
<1>2. OfferFits'
  <2> SUFFICES ASSUME ~overtaken', ~crossed', NEW e \in Windows, NEW p \in Candidates,
                      epc'[e] = "gated", Candidate(e)' = p
               PROVE  /\ Load' + offer'[e] <= MaxLev
                      /\ \A v \in {p.short, p.long} : VenueLoad(v)' + offer'[e] <= VenueCap[v]
                      /\ CoinCount(p.coin)' < 2
    BY DEF OfferFits
  <2>1. Candidate(e) = p /\ epc[e] = "gated" /\ offer'[e] = offer[e]
    BY DEF Candidate
  <2>2. /\ offer[e] \in Nat
        /\ Load + offer[e] <= MaxLev
        /\ \A v \in {p.short, p.long} : VenueLoad(v) + offer[e] <= VenueCap[v]
        /\ CoinCount(p.coin) < 2
    BY <2>1 DEF LimitInv, OfferFits, OffersTyped
  <2>3. \A v \in {p.short, p.long} : VenueCap[v] \in Int
    BY <1>0, LegsAreVenues
  <2>4. Load' + offer[e] <= MaxLev
    BY <1>0, <2>2 DEF Lighter
  <2>5. ASSUME NEW v \in {p.short, p.long} PROVE VenueLoad(v)' + offer[e] <= VenueCap[v]
    BY <2>2, <2>3 DEF Lighter
  <2>6. CoinCount(p.coin)' < 2
    BY <2>2 DEF Lighter
  <2> QED
    BY <2>1, <2>4, <2>5, <2>6
<1> QED
  BY <1>1, <1>2 DEF LimitInv

\* The status of a row still active moves it or ends it.
LEMMA WriteWithin ==
  ASSUME LimitInv, GateInv', OffersTyped', NEW r \in rows, NEW s \in Statuses, Write(r, s), paper' = paper,
         overtaken' = overtaken, crossed => crossed', ~crossed' => r.status \in Active,
         \A e \in Windows : epc'[e] = "gated" =>
           epc[e] = "gated" /\ queue'[e] = queue[e] /\ offer'[e] = offer[e]
  PROVE  LimitInv'
<1> DEFINE n == Became(r, s)
<1>1. rows' = (rows \ {r}) \cup {n} /\ RowGrant(r)
  BY DEF Write, LimitInv, BooksTyped
<1>2. /\ n.id = r.id /\ n.p = r.p /\ n.status = s /\ DOMAIN n = DOMAIN r
      /\ n.granted = IF s \in Active THEN r.granted ELSE 0
  BY <1>1 DEF Became, RowGrant
<1> HIDE DEF n
<1>3. BooksTyped'
  <2>1. RowGrant(n)
    BY <1>1, <1>2, EntryGateAssumption DEF RowGrant
  <2> QED
    BY <1>1, <2>1 DEF LimitInv, BooksTyped
<1>4. CASE crossed'
  BY <1>3, <1>4 DEF LimitInv, LimitsHold, OfferFits
<1>5. CASE ~crossed'
  <2>1. Moves(Held, Held', r, n)
    <3>1. \A q \in rows : q.id = r.id => q = r
      BY DEF LimitInv, GateInv, Numbered
    <3>2. r \in Held
      BY <1>5 DEF Held
    <3>3. CASE s \in Active
      <4>1. Held' = (Held \ {r}) \cup {n}
        BY <1>1, <1>2, <3>3 DEF Held
      <4>2. n \notin Held \ {r}
        BY <1>2, <3>1 DEF Held
      <4> QED
        BY <1>2, <3>2, <3>3, <4>1, <4>2 DEF Moves
    <3>4. CASE s \notin Active
      BY <1>1, <1>2, <3>4 DEF Held, Moves
    <3> QED
      BY <3>3, <3>4
  <2>2. PaperKept' \subseteq PaperKept
    BY DEF PaperKept, PaperOpen
  <2>3. Lighter
    BY <1>2, <2>1, <2>2, StepLightens DEF LimitInv, GateInv
  <2> QED
    BY <1>3, <2>3, LighterKeeps
<1> QED
  BY <1>4, <1>5

\* A step that writes no row and opens no P0 position of the start.
LEMMA SameBooksWithin ==
  ASSUME LimitInv, GateInv', OffersTyped', BooksTyped', rows' = rows, PaperKept' \subseteq PaperKept,
         overtaken' = overtaken, crossed => crossed',
         \A e \in Windows : epc'[e] = "gated" =>
           epc[e] = "gated" /\ queue'[e] = queue[e] /\ offer'[e] = offer[e]
  PROVE  LimitInv'
<1>1. Moves(Held, Held', NoPin, NoPin)
  BY DEF Held, Moves
<1>2. Lighter
  BY <1>1, StepLightens DEF LimitInv, GateInv
<1> QED
  BY <1>2, LighterKeeps

LEMMA AdvanceWithin == ASSUME LimitInv, GateInv', NEW e \in Windows, EAdvance(e) PROVE LimitInv'
<1>1. PICK v \in view[e], s \in StatusSteps, r \in rows :
        Write(r, s[2]) /\ crossed' = (crossed \/ r.status \notin Active)
  BY DEF EAdvance
<1>2. s[2] \in Statuses
  BY DEF StatusSteps, Statuses, Active
<1>3. UNCHANGED <<paper, overtaken, epc, queue, offer>>
  BY DEF EAdvance, outside
<1>4. OffersTyped'
  BY <1>3 DEF LimitInv, OffersTyped, Candidate
<1> QED
  BY <1>1, <1>2, <1>3, <1>4, WriteWithin

LEMMA CmdUnwindWithin == LimitInv /\ GateInv' /\ CmdUnwind => LimitInv'
<1> SUFFICES ASSUME LimitInv, GateInv', CmdUnwind PROVE LimitInv'
  OBVIOUS
<1>1. PICK r \in rows : r.status = "open" /\ Write(r, "unwinding")
  BY DEF CmdUnwind
<1>2. r.status \in Active /\ "unwinding" \in Statuses
  BY <1>1 DEF Active, Statuses
<1>3. UNCHANGED <<paper, overtaken, crossed, epc, queue, offer>>
  BY DEF CmdUnwind, outside, engine, ghosts
<1>4. OffersTyped'
  BY <1>3 DEF LimitInv, OffersTyped, Candidate
<1> QED
  BY <1>1, <1>2, <1>3, <1>4, WriteWithin

LEMMA EnteredWithin == ASSUME LimitInv, GateInv', NEW e \in Windows, EEntered(e) PROVE LimitInv'
<1>1. PICK r \in rows, s \in Statuses :
        IF s = "seq_open" THEN UNCHANGED <<rows, crossed>>
        ELSE Write(r, s) /\ crossed' = (crossed \/ r.status \notin Active)
  BY DEF EEntered, Outcomes, Statuses, Active
<1>2. /\ epc[e] = "entering" /\ epc' = [epc EXCEPT ![e] = "enter"] /\ DOMAIN epc = Windows
      /\ UNCHANGED <<paper, overtaken, queue, offer>>
  BY DEF EEntered, outside, LimitInv, GateInv, WindowsTyped
<1>3. \A f \in Windows : epc'[f] \in {"chain", "gated"} => epc[f] = epc'[f]
  BY <1>2
<1>4. OffersTyped'
  BY <1>2, <1>3 DEF LimitInv, OffersTyped, Candidate
<1>5. CASE s = "seq_open"
  <2>1. rows' = rows /\ crossed' = crossed
    BY <1>1, <1>5
  <2>2. BooksTyped' /\ PaperKept' \subseteq PaperKept
    BY <1>2, <2>1 DEF LimitInv, BooksTyped, PaperKept, PaperOpen
  <2> QED
    BY <1>2, <1>3, <1>4, <2>1, <2>2, SameBooksWithin
<1>6. CASE s # "seq_open"
  BY <1>1, <1>2, <1>3, <1>4, <1>6, WriteWithin
<1> QED
  BY <1>5, <1>6

\* The steps of a window that write no row and pass no gate.
LEMMA LoopWithin ==
  ASSUME LimitInv, GateInv', NEW e \in Windows,
         EBegin(e) \/ EReread(e) \/ EConsider(e) \/ EPick(e) \/ ESkip(e) \/ ELeave(e)
  PROVE  LimitInv'
<1>1. UNCHANGED <<rows, paper, overtaken, crossed>>
  BY DEF EBegin, EReread, EConsider, EPick, ESkip, ELeave, outside, ghosts
<1>2. DOMAIN epc = Windows /\ DOMAIN queue = Windows /\ DOMAIN offer = Windows
  BY DEF LimitInv, GateInv, WindowsTyped
<1>3. ASSUME NEW f \in Windows
      PROVE  /\ offer'[f] \in {offer[f], 0}
             /\ epc'[f] = "gated" => epc[f] = "gated" /\ queue'[f] = queue[f] /\ offer'[f] = offer[f]
             /\ epc'[f] = "chain" => queue'[f] = queue[f] /\ (epc[f] = "chain" \/ queue[f] # <<>>)
  <2>1. CASE EBegin(e)
    BY <1>2, <2>1 DEF EBegin
  <2>2. CASE EReread(e)
    BY <1>2, <2>2 DEF EReread
  <2>3. CASE EConsider(e)
    BY <1>2, <2>3 DEF EConsider
  <2>4. CASE EPick(e)
    BY <1>2, <2>4 DEF EPick
  <2>5. CASE ESkip(e)
    BY <1>2, <2>5 DEF ESkip, NextOne
  <2>6. CASE ELeave(e)
    BY <1>2, <2>6 DEF ELeave
  <2> QED
    BY <2>1, <2>2, <2>3, <2>4, <2>5, <2>6
<1>4. OffersTyped'
  BY <1>3 DEF LimitInv, OffersTyped, Candidate
<1>5. BooksTyped' /\ PaperKept' \subseteq PaperKept
  BY <1>1 DEF LimitInv, BooksTyped, PaperKept, PaperOpen
<1> QED
  BY <1>1, <1>3, <1>4, <1>5, SameBooksWithin

\* The gate counted every row it is about, since none is in sequence, at its
\* configured size.
LEMMA GateWithin == ASSUME LimitInv, GateInv', NEW e \in Windows, EGate(e) PROVE LimitInv'
<1>1. PICK cap \in Caps :
        /\ GateAllows(Candidate(e), Gated(Candidate(e), cap))
        /\ offer' = [offer EXCEPT ![e] = Gated(Candidate(e), cap)]
  BY DEF EGate
<1>2. /\ epc[e] = "chain" /\ epc' = [epc EXCEPT ![e] = "gated"]
      /\ overtaken' = (overtaken \/ \E r \in rows : r.status = "seq_open")
      /\ UNCHANGED <<rows, paper, queue, crossed>>
  BY DEF EGate, outside
<1>3. DOMAIN epc = Windows /\ DOMAIN offer = Windows
  BY DEF LimitInv, GateInv, WindowsTyped
<1>4. Candidate(e) \in Candidates
  BY <1>2, CandidateIsOne DEF LimitInv
<1> DEFINE size == Gated(Candidate(e), cap)
<1>5. size \in Nat /\ size <= Candidate(e).size
  BY <1>4, GatedWithinSize
<1> HIDE DEF size
<1>6. offer' = [offer EXCEPT ![e] = size] /\ GateAllows(Candidate(e), size)
  BY <1>1 DEF size
<1>7. OffersTyped'
  BY <1>2, <1>3, <1>5, <1>6 DEF LimitInv, OffersTyped, Candidate
<1>8. BooksTyped'
  BY <1>2 DEF LimitInv, BooksTyped
<1>9. /\ Held' = Held /\ PaperKept' = PaperKept /\ Load' = Load
      /\ \A v : VenueLoad(v)' = VenueLoad(v)
      /\ \A c : CoinCount(c)' = CoinCount(c)
  BY <1>2 DEF Held, PaperKept, PaperOpen, Load, VenueLoad, CoinCount
<1>10. LimitsHold'
  BY <1>2, <1>9 DEF LimitInv, LimitsHold, WithinLeverage, WithinVenueCaps, AtMostTwoLong
<1>11. OfferFits'
  <2> SUFFICES ASSUME ~overtaken', ~crossed', NEW f \in Windows, NEW p \in Candidates,
                      epc'[f] = "gated", Candidate(f)' = p
               PROVE  /\ Load + offer'[f] <= MaxLev
                      /\ \A v \in {p.short, p.long} : VenueLoad(v) + offer'[f] <= VenueCap[v]
                      /\ CoinCount(p.coin) < 2
    BY <1>9 DEF OfferFits
  <2>1. ~overtaken /\ ~crossed /\ \A r \in rows : r.status # "seq_open"
    BY <1>2
  <2>2. Candidate(f) = p
    BY <1>2 DEF Candidate
  <2>3. CASE f # e
    BY <1>2, <1>3, <1>6, <2>1, <2>2, <2>3 DEF LimitInv, OfferFits
  <2>4. CASE f = e
    <3>1. offer'[f] = size /\ GateAllows(p, size)
      BY <1>3, <1>6, <2>2, <2>4
    <3>2. /\ Held \cup PaperKept \subseteq BookPositions
          /\ BookPositions = Held \cup PaperOpen
      BY <2>1 DEF BookPositions, PaperKept, Held, Counted, Active
    <3>3. /\ Graded(Held) /\ Sized(Held) /\ Sized(PaperKept) /\ Held \cap PaperKept = {}
          /\ Sized(BookPositions) /\ \A r \in Held : r.granted <= r.p.size
      <4>1. Sized(Held) /\ Sized(PaperOpen)
        BY HeldIsGraded DEF LimitInv, GateInv
      <4>2. Sized(BookPositions)
        BY <3>2, <4>1, FS_Union DEF Sized
      <4> QED
        BY <4>2, HeldIsGraded DEF LimitInv, GateInv, Held, BooksTyped, RowGrant
    <3>4. MaxLev \in Int /\ \A v \in {p.short, p.long} : VenueCap[v] \in Int
      BY LegsAreVenues, EntryGateAssumption
    <3>5. Load + size <= MaxLev
      <4>1. SizeOf(BookPositions) + size <= MaxLev
        BY <3>1 DEF GateAllows, Deployed
      <4>2. Granted(Held) + SizeOf(PaperKept) <= SizeOf(BookPositions)
        BY <3>2, <3>3, PartsWithin
      <4> QED
        BY <1>5, <3>3, <3>4, <4>1, <4>2, SizeOfSubset, GrantedOfSubset DEF Load
    <3>6. ASSUME NEW v \in {p.short, p.long} PROVE VenueLoad(v) + size <= VenueCap[v]
      <4> DEFINE H == OnVenue(Held, v)
                 B == OnVenue(PaperKept, v)
                 A == OnVenue(BookPositions, v)
      <4>1. SizeOf(A) + size <= VenueCap[v]
        BY <3>1 DEF GateAllows, Exposure, OnVenue
      <4>2. /\ Graded(H) /\ Sized(H) /\ Sized(B) /\ Sized(A) /\ H \cap B = {} /\ H \cup B \subseteq A
            /\ \A r \in H : r.granted <= r.p.size
        BY <3>2, <3>3, PartsAreGraded DEF OnVenue
      <4>3. VenueLoad(v) = Granted(H) + SizeOf(B)
        BY DEF VenueLoad
      <4> HIDE DEF H, B, A
      <4>4. Granted(H) + SizeOf(B) <= SizeOf(A)
        BY <4>2, PartsWithin
      <4> QED
        BY <1>5, <3>4, <4>1, <4>2, <4>3, <4>4, SizeOfSubset, GrantedOfSubset
    <3>7. CoinCount(p.coin) < 2
      <4> DEFINE S == OfCoin(Held, p.coin) \cup OfCoin(PaperKept, p.coin)
      <4>1. Cardinality(SameCoin(p.coin)) < 2
        BY <3>1 DEF GateAllows
      <4>2. S \subseteq SameCoin(p.coin) /\ SameCoin(p.coin) \subseteq BookPositions
        BY <3>2 DEF SameCoin, OfCoin
      <4>3. IsFiniteSet(SameCoin(p.coin))
        BY <3>3, <4>2, FS_Subset DEF Sized
      <4> HIDE DEF S
      <4>4. IsFiniteSet(S) /\ Cardinality(S) <= Cardinality(SameCoin(p.coin))
        BY <4>2, <4>3, FS_Subset
      <4>5. Cardinality(S) \in Nat /\ Cardinality(SameCoin(p.coin)) \in Nat
        BY <4>3, <4>4, FS_CardinalityType
      <4> QED
        BY <4>1, <4>4, <4>5 DEF CoinCount, S
    <3> QED
      BY <3>1, <3>5, <3>6, <3>7
  <2> QED
    BY <2>3, <2>4
<1> QED
  BY <1>7, <1>8, <1>10, <1>11 DEF LimitInv

\* The row takes the room its window was left; no other window is past the gate.
LEMMA InsertWithin == ASSUME LimitInv, GateInv', NEW e \in Windows, EInsert(e) PROVE LimitInv'
<1> DEFINE p == Candidate(e)
           g == offer[e]
           n == [id |-> Cardinality(rows) + 1, p |-> p, granted |-> g, status |-> "seq_open",
                 opened |-> clock]
<1>1. /\ epc[e] = "gated" /\ rows' = rows \cup {n}
      /\ crossed' = (crossed \/ \E f \in Windows \ {e} : epc[f] \in {"enter", "chain", "gated", "entering"})
      /\ epc' = [epc EXCEPT ![e] = "entering"] /\ offer' = [offer EXCEPT ![e] = 0]
      /\ queue' = [queue EXCEPT ![e] = Tail(@)]
      /\ UNCHANGED <<paper, overtaken>>
  BY DEF EInsert, NextOne, outside
<1>2. /\ p \in Candidates /\ g \in Nat /\ g <= p.size
  BY <1>1, CandidateIsOne DEF LimitInv, OffersTyped
<1>3. /\ DOMAIN n = {"id", "p", "granted", "status", "opened"} /\ n.id = Cardinality(rows) + 1
      /\ n.p = p /\ n.granted = g /\ n.status = "seq_open"
  OBVIOUS
<1> HIDE DEF n
<1>4. n \notin rows
  BY <1>3, FS_CardinalityType DEF LimitInv, GateInv, Numbered, RowType
<1>5. BooksTyped'
  BY <1>1, <1>2, <1>3 DEF LimitInv, BooksTyped, RowGrant
<1>6. DOMAIN epc = Windows /\ DOMAIN offer = Windows /\ DOMAIN queue = Windows
  BY DEF LimitInv, GateInv, WindowsTyped
<1>7. OffersTyped'
  BY <1>1, <1>6 DEF LimitInv, OffersTyped, Candidate
<1>8. CASE crossed'
  BY <1>5, <1>7, <1>8 DEF LimitInv, LimitsHold, OfferFits
<1>9. CASE ~crossed'
  <2>1. ~crossed /\ \A f \in Windows : epc'[f] # "gated"
    BY <1>1, <1>6, <1>9
  <2>2. OfferFits'
    BY <2>1 DEF OfferFits
  <2> SUFFICES ASSUME ~overtaken'
               PROVE  (WithinLeverage /\ WithinVenueCaps /\ AtMostTwoLong)'
    BY <1>5, <1>7, <2>2 DEF LimitInv, LimitsHold
  <2>3. PICK c \in Candidates : c = p
    BY <1>2
  <2>4. /\ Load + g <= MaxLev
        /\ \A v \in {c.short, c.long} : VenueLoad(v) + g <= VenueCap[v]
        /\ CoinCount(c.coin) < 2
    BY <1>1, <2>1, <2>3 DEF LimitInv, OfferFits
  <2>5. Held' = Held \cup {n} /\ PaperKept' = PaperKept /\ n \notin Held
    BY <1>1, <1>3, <1>4 DEF Held, Active, PaperKept, PaperOpen
  <2>6. Graded(Held) /\ Sized(PaperKept)
    BY HeldIsGraded DEF LimitInv, GateInv
  <2>7. n.p = c /\ n.granted = g /\ g \in Nat
    BY <1>2, <1>3, <2>3
  <2> HIDE DEF p, g
  <2>8. ASSUME NEW S, Graded(S), n \notin S
        PROVE  Granted(S \cup {n}) = Granted(S) + g /\ Granted(S) \in Nat
    <3>1. Graded(S \cup {n}) /\ IsFiniteSet(S)
      BY <2>7, <2>8, FS_AddElement DEF Graded
    <3> QED
      BY <2>7, <2>8, <3>1, GrantedInsert
  <2>9. WithinLeverage'
    <3>1. SizeOf(PaperKept) \in Nat
      BY <2>6, SizeOfSubset
    <3>2. Granted(Held \cup {n}) = Granted(Held) + g /\ Granted(Held) \in Nat
      BY <2>5, <2>6, <2>8
    <3>3. Granted(Held \cup {n}) + SizeOf(PaperKept) <= MaxLev
      BY <2>4, <2>7, <3>1, <3>2, EntryGateAssumption DEF Load
    <3> QED
      BY <2>5, <3>3 DEF WithinLeverage
  <2>10. WithinVenueCaps'
    <3> SUFFICES ASSUME NEW v \in LegVenues
                 PROVE  Granted(OnVenue(Held', v)) + SizeOf(OnVenue(PaperKept', v)) <= VenueCap[v]
      BY DEF WithinVenueCaps, OnVenue
    <3> DEFINE H == OnVenue(Held, v)
               B == OnVenue(PaperKept, v)
    <3>1. CASE v \in {c.short, c.long}
      <4>1. OnVenue(Held', v) = H \cup {n} /\ OnVenue(PaperKept', v) = B
        BY <2>5, <2>7, <3>1 DEF OnVenue
      <4>2. Granted(H) + SizeOf(B) + g <= VenueCap[v]
        BY <2>4, <3>1 DEF VenueLoad
      <4>3. Graded(H) /\ Sized(B) /\ n \notin H
        BY <2>5, <2>6, PartsAreGraded DEF OnVenue
      <4> HIDE DEF H, B
      <4>4. Granted(H \cup {n}) = Granted(H) + g /\ Granted(H) \in Nat /\ SizeOf(B) \in Nat
        BY <2>8, <4>3, SizeOfSubset
      <4> QED
        BY <2>7, <4>1, <4>2, <4>4, EntryGateAssumption
    <3>2. CASE v \notin {c.short, c.long}
      <4>1. OnVenue(Held', v) = H /\ OnVenue(PaperKept', v) = B
        BY <2>5, <2>7, <3>2 DEF OnVenue
      <4>2. Granted(H) + SizeOf(B) <= VenueCap[v]
        BY <1>1, <2>1 DEF LimitInv, LimitsHold, WithinVenueCaps, OnVenue
      <4> QED
        BY <4>1, <4>2
    <3> QED
      BY <3>1, <3>2
  <2>11. AtMostTwoLong'
    <3> SUFFICES ASSUME NEW q \in Candidates
                 PROVE  Cardinality(OfCoin(Held', q.coin) \cup OfCoin(PaperKept', q.coin)) <= 2
      BY DEF AtMostTwoLong, OfCoin
    <3> DEFINE S == OfCoin(Held, q.coin) \cup OfCoin(PaperKept, q.coin)
    <3>1. CASE q.coin = c.coin
      <4>1. Cardinality(S) < 2
        BY <2>4, <3>1 DEF CoinCount
      <4>2. IsFiniteSet(S)
        <5>1. S \subseteq Held \cup PaperKept
          BY DEF OfCoin
        <5>2. IsFiniteSet(Held \cup PaperKept)
          BY <2>6, FS_Union DEF Graded, Sized
        <5> QED
          BY <5>1, <5>2, FS_Subset
      <4>3. OfCoin(Held', q.coin) \cup OfCoin(PaperKept', q.coin) = S \cup {n}
        BY <2>5, <2>7, <3>1 DEF OfCoin
      <4> HIDE DEF S
      <4>4. /\ Cardinality(S \cup {n}) <= Cardinality(S) + 1
            /\ Cardinality(S) \in Nat /\ Cardinality(S \cup {n}) \in Nat
        BY <4>2, OneMore
      <4>5. Cardinality(S \cup {n}) <= 2
        BY <4>1, <4>4
      <4> QED
        BY <4>3, <4>5
    <3>2. CASE q.coin # c.coin
      <4>1. OfCoin(Held', q.coin) \cup OfCoin(PaperKept', q.coin) = S
        BY <2>5, <2>7, <3>2 DEF OfCoin
      <4>2. Cardinality(S) <= 2
        BY <1>1, <2>1 DEF LimitInv, LimitsHold, AtMostTwoLong, OfCoin
      <4> QED
        BY <4>1, <4>2
    <3> QED
      BY <3>1, <3>2
  <2> QED
    BY <2>9, <2>10, <2>11
<1> QED
  BY <1>8, <1>9

\* The P0 ledger opens and closes positions beside the windows.
LEMMA OthersWithin == LimitInv /\ GateInv' /\ (DeskOpens \/ Others \/ Clock) => LimitInv'
<1> SUFFICES ASSUME LimitInv, GateInv', DeskOpens \/ Others \/ Clock PROVE LimitInv'
  OBVIOUS
<1>1. UNCHANGED <<rows, epc, queue, offer, overtaken, crossed>>
  BY DEF DeskOpens, DPreflight, DWrite, DWindowEnds, Others, KillEval, Freezes, P0Opens, P0Closes,
         Clock, outside, engine, ghosts
<1>2. OffersTyped'
  BY <1>1 DEF LimitInv, OffersTyped, Candidate
<1>3. BooksTyped' /\ PaperKept' \subseteq PaperKept
  <2>1. CASE paper' = paper
    BY <1>1, <2>1 DEF LimitInv, BooksTyped, PaperKept, PaperOpen
  <2>2. CASE P0Closes
    <3>1. PICK b \in PaperOpen : paper' = (paper \ {b}) \cup {[b EXCEPT !.status = "closed"]}
      BY <2>2 DEF P0Closes
    <3> DEFINE c == [b EXCEPT !.status = "closed"]
    <3>2. P0Position(b) /\ IsFiniteSet(paper)
      BY DEF LimitInv, BooksTyped, PaperOpen
    <3>3. P0Position(c) /\ c.status = "closed"
      BY <3>2 DEF P0Position
    <3> HIDE DEF c
    <3>4. paper' = (paper \ {b}) \cup {c}
      BY <3>1 DEF c
    <3>5. IsFiniteSet(paper')
      BY <3>2, <3>4, FS_RemoveElement, FS_AddElement
    <3>6. PaperKept' \subseteq PaperKept
      BY <3>3, <3>4 DEF PaperKept, PaperOpen, Counted
    <3> QED
      BY <1>1, <3>3, <3>4, <3>5, <3>6 DEF LimitInv, BooksTyped
  <2>3. CASE P0Opens
    <3>1. PICK p \in Range(Static) :
            paper' = paper \cup {[p |-> p, opened |-> clock, status |-> "open", later |-> TRUE]}
      BY <2>3 DEF P0Opens
    <3> DEFINE c == [p |-> p, opened |-> clock, status |-> "open", later |-> TRUE]
    <3>2. P0Position(c) /\ c.later
      BY EntryGateAssumption DEF P0Position, Candidates
    <3> HIDE DEF c
    <3>3. paper' = paper \cup {c}
      BY <3>1 DEF c
    <3>4. IsFiniteSet(paper')
      BY <3>3, FS_AddElement DEF LimitInv, BooksTyped
    <3>5. PaperKept' \subseteq PaperKept
      BY <3>2, <3>3 DEF PaperKept, PaperOpen
    <3> QED
      BY <1>1, <3>2, <3>3, <3>4, <3>5 DEF LimitInv, BooksTyped
  <2> QED
    BY <2>1, <2>2, <2>3 DEF DeskOpens, DPreflight, DWrite, DWindowEnds, Others, KillEval, Freezes,
                            Clock, outside
<1> QED
  BY <1>1, <1>2, <1>3, SameBooksWithin

\* The inductive invariant behind the limits: whatever passed the gate still fits
\* (v3_exec.py:1022).
THEOREM LimitInvariant == GateSpec /\ LimitsHold => []LimitInv
<1>1. GateInit => BooksTyped /\ OffersTyped /\ OfferFits
  <2> SUFFICES ASSUME GateInit PROVE BooksTyped /\ OffersTyped /\ OfferFits
    OBVIOUS
  <2>1. /\ rows = {} /\ paper \in P0Books /\ epc = [e \in Windows |-> "idle"]
        /\ offer = [e \in Windows |-> 0]
    BY DEF GateInit
  <2> QED
    BY <2>1, EntryGateAssumption DEF BooksTyped, P0Position, OffersTyped, OfferFits
<1>2. LimitInv /\ GateInv' /\ [GateNext]_gateVars => LimitInv'
  <2> SUFFICES ASSUME LimitInv, GateInv', [GateNext]_gateVars PROVE LimitInv'
    OBVIOUS
  <2>1. CASE UNCHANGED gateVars
    <3>1. UNCHANGED <<rows, paper, epc, queue, offer, overtaken, crossed>>
      BY <2>1 DEF gateVars, outside, deskState, engine, ghosts
    <3>2. OffersTyped' /\ BooksTyped' /\ PaperKept' \subseteq PaperKept
      BY <3>1 DEF LimitInv, OffersTyped, BooksTyped, Candidate, PaperKept, PaperOpen
    <3> QED
      BY <3>1, <3>2, SameBooksWithin
  <2> QED
    BY <2>1, AdvanceWithin, EnteredWithin, GateWithin, InsertWithin, LoopWithin, CmdUnwindWithin,
       OthersWithin DEF GateNext, Engine
<1>3. GateInv /\ BooksTyped /\ OffersTyped /\ OfferFits /\ LimitsHold => LimitInv
  BY DEF LimitInv
<1> QED
  BY <1>1, <1>2, <1>3, GateInvariant, PTL DEF GateSpec

\* What the engine's windows hold stays within the leverage, venue and correlation
\* limits beside the P0 book of the start, whatever the desk, cmd_unwind and the P0
\* ledger do, as long as no entry overtakes another (v3_portfolio.py m5_gate).
THEOREM LimitsKept == GateSpec /\ LimitsHold => []LimitsHold
  BY LimitInvariant, PTL DEF LimitInv

-----------------------------------------------------------------------------
(* The P0 book, its dumps and its restores.                                 *)
Entry    == [pair : Pairs, ts_open : Nat, ts_close : Nat \cup {None}]
Accrual  == [pos : Nat, ts : Nat, hours : Nat, by : Jobs]
Database == [ex : BOOLEAN, positions : Seq(Entry), fills : SUBSET Nat, accruals : SUBSET Accrual]

\* What one job has booked for one position: key i is <<position, job>>.
Key(a)        == <<a.pos, a.by>>
RowsOf(A, i)  == {a \in A : Key(a) = i}
HoursIn(S)    == MapThenSumSet(LAMBDA a : a.hours, S)
HoursOf(A, i) == HoursIn(RowsOf(A, i))
LastOf(A, i, o) == Max({a.ts : a \in RowsOf(A, i)} \cup {o})

\* Carry is a sum of the hours of rows.
LEMMA HoursIsTotal ==
  ASSUME NEW S, IsFiniteSet(S), NEW w, \A a \in S : w[a] = a.hours
  PROVE  HoursIn(S) = Total(w, S)
<1> DEFINE Eq(g) == g = [s \in SUBSET S |-> IF s = {} THEN 0
                           ELSE (CHOOSE x \in s : TRUE).hours + g[s \ {CHOOSE x \in s : TRUE}]]
           it == CHOOSE g : Eq(g)
<1>1. HoursIn(S) = it[S]
  BY DEF HoursIn, MapThenSumSet, MapThenFoldSet
<1>2. \A g : IsSum(g, w, S) <=> Eq(g)
  <2> SUFFICES ASSUME NEW g PROVE IsSum(g, w, S) <=> Eq(g)
    OBVIOUS
  <2>1. \A s \in SUBSET S : s # {} => Pick(s) \in S /\ w[Pick(s)] = (CHOOSE x \in s : TRUE).hours
    BY PickIsMember DEF Pick
  <2> QED
    BY <2>1 DEF IsSum, Pick
<1>3. IsSum(it, w, S)
  <2>1. \E g : Eq(g)
    BY <1>2, SumExists
  <2> HIDE DEF Eq
  <2> QED
    BY <1>2, <2>1
<1> HIDE DEF it
<1>4. it[S] = Total(w, S)
  <2>1. S \in SUBSET S /\ Same(w, w, S)
    BY DEF Same
  <2> QED
    BY <1>3, <2>1, TotalOf
<1> QED
  BY <1>1, <1>4

LEMMA HoursType ==
  ASSUME NEW A \in SUBSET Accrual, IsFiniteSet(A), NEW i
  PROVE  /\ IsFiniteSet(RowsOf(A, i)) /\ HoursOf(A, i) \in Nat
         /\ (\A a \in A : Key(a) # i) => HoursOf(A, i) = 0
<1> DEFINE S == RowsOf(A, i)
           w == [a \in A |-> a.hours]
<1>1. S \subseteq A /\ IsFiniteSet(S)
  <2>1. S \subseteq A
    BY DEF RowsOf
  <2> QED
    BY <2>1, FS_Subset
<1>2. \A a \in S : w[a] = a.hours /\ w[a] \in Nat
  BY <1>1 DEF Accrual
<1>3. S = RowsOf(A, i)
  OBVIOUS
<1>4. (\A a \in A : Key(a) # i) => S = {}
  BY DEF RowsOf
<1> HIDE DEF S, w
<1>5. HoursOf(A, i) = Total(w, S)
  BY <1>1, <1>2, <1>3, HoursIsTotal DEF HoursOf
<1>6. Total(w, S) \in Nat
  BY <1>1, <1>2, TotalType
<1> QED
  BY <1>1, <1>3, <1>4, <1>5, <1>6, TotalOfNothing

LEMMA FewerHours ==
  ASSUME NEW A \in SUBSET Accrual, IsFiniteSet(A), NEW B \in SUBSET A, NEW i
  PROVE  HoursOf(B, i) <= HoursOf(A, i)
<1> DEFINE S == RowsOf(A, i)
           T == RowsOf(B, i)
           w == [a \in A |-> a.hours]
<1>1. T \subseteq S /\ S \subseteq A
  BY DEF RowsOf
<1>2. IsFiniteSet(S) /\ IsFiniteSet(T)
  BY <1>1, HoursType, FS_Subset
<1>3. \A a \in S : w[a] = a.hours /\ w[a] \in Nat
  BY <1>1 DEF Accrual
<1>4. S = RowsOf(A, i) /\ T = RowsOf(B, i)
  OBVIOUS
<1> HIDE DEF S, T, w
<1>5. HoursOf(A, i) = Total(w, S) /\ HoursOf(B, i) = Total(w, T)
  BY <1>1, <1>2, <1>3, <1>4, HoursIsTotal DEF HoursOf
<1> QED
  BY <1>1, <1>2, <1>3, <1>5, TotalOfSubset

LEMMA OneMoreRow ==
  ASSUME NEW A \in SUBSET Accrual, IsFiniteSet(A), NEW a \in Accrual, a \notin A,
         NEW B, B = A \cup {a}
  PROVE  /\ IsFiniteSet(B) /\ B \in SUBSET Accrual
         /\ HoursOf(B, Key(a)) = a.hours + HoursOf(A, Key(a))
         /\ \A i : i # Key(a) => RowsOf(B, i) = RowsOf(A, i)
<1> DEFINE S == RowsOf(A, Key(a))
           T == RowsOf(B, Key(a))
           w == [x \in B |-> x.hours]
<1>1. IsFiniteSet(B)
  BY FS_AddElement
<1>2. B \in SUBSET Accrual
  OBVIOUS
<1>3. T = S \cup {a} /\ a \notin S /\ S \subseteq B /\ T \subseteq B
  BY DEF RowsOf
<1>4. IsFiniteSet(S) /\ IsFiniteSet(T)
  BY <1>1, <1>2, HoursType
<1>5. \A x \in T : w[x] = x.hours /\ w[x] \in Nat
  BY <1>2, <1>3 DEF Accrual
<1>6. S = RowsOf(A, Key(a)) /\ T = RowsOf(B, Key(a))
  OBVIOUS
<1>7. \A i : i # Key(a) => RowsOf(B, i) = RowsOf(A, i)
  BY DEF RowsOf
<1> HIDE DEF S, T, w
<1>8. HoursOf(A, Key(a)) = Total(w, S) /\ HoursOf(B, Key(a)) = Total(w, T)
  BY <1>3, <1>4, <1>5, <1>6, HoursIsTotal DEF HoursOf
<1>9. Total(w, S \cup {a}) = w[a] + Total(w, S)
  BY <1>3, <1>4, <1>5, TotalInsert
<1> QED
  BY <1>1, <1>2, <1>3, <1>5, <1>7, <1>8, <1>9
-----------------------------------------------------------------------------
LEMMA LastIsLatest ==
  ASSUME NEW A \in SUBSET Accrual, IsFiniteSet(A), NEW i, NEW o \in Nat
  PROVE  /\ LastOf(A, i, o) \in Nat /\ LastOf(A, i, o) >= o
         /\ \A a \in RowsOf(A, i) : LastOf(A, i, o) >= a.ts
<1> DEFINE R == RowsOf(A, i)
           T == {a.ts : a \in R}
           f == [a \in R |-> a.ts]
<1>1. IsFiniteSet(R) /\ R \subseteq A
  BY HoursType DEF RowsOf
<1>2. f \in Surjection(R, T)
  BY DEF Surjection
<1>3. T \subseteq Nat
  BY <1>1 DEF Accrual
<1>4. \A a \in R : a.ts \in T
  OBVIOUS
<1> HIDE DEF f, R, T
<1>5. IsFiniteSet(T)
  BY <1>1, <1>2, FS_Surjection
<1> DEFINE U == T \cup {o}
<1>6. IsFiniteSet(U) /\ U # {} /\ U \subseteq Int /\ U \subseteq Nat /\ o \in U /\ T \subseteq U
  BY <1>3, <1>5, FS_AddElement
<1>7. LastOf(A, i, o) = Max(U)
  BY DEF LastOf, T, R
<1> HIDE DEF U
<1>8. Max(U) \in U /\ \A x \in U : x <= Max(U)
  BY <1>6, Extremes
<1>9. Max(U) \in Nat /\ \A x \in U : x \in Nat
  BY <1>6, <1>8
<1>10. \A x \in U : Max(U) >= x
  BY <1>8, <1>9
<1> QED
  BY <1>4, <1>6, <1>7, <1>9, <1>10 DEF R

\* No carry of a job runs ahead of its last row, and none outruns the holding.
Booked(A, P)  ==
  \A i \in DOMAIN P, j \in Jobs :
    HoursOf(A, <<i, j>>) <= LastOf(A, <<i, j>>, P[i].ts_open) - P[i].ts_open
Until(e, t)   == IF e.ts_close = None THEN t ELSE e.ts_close
Covered(A, P, t) ==
  \A i \in DOMAIN P, j \in Jobs : HoursOf(A, <<i, j>>) <= Until(P[i], t) - P[i].ts_open

Placed(d, t) ==
  /\ d.fills \subseteq DOMAIN d.positions /\ \A a \in d.accruals : a.pos \in DOMAIN d.positions
  /\ \A i \in DOMAIN d.positions : d.positions[i].ts_open <= t

Sane(d, t) ==
  /\ d \in Database /\ IsFiniteSet(d.accruals) /\ Placed(d, t)
  /\ Booked(d.accruals, d.positions) /\ Covered(d.accruals, d.positions, t)

TornIn(d, ws) ==
  \A i \in DOMAIN d.positions : i \notin d.fills => \E w \in ws : d.positions[i].ts_open \in w[1]..w[2]

\* What the running dump has read is older than the file and fits it.
DumpFits ==
  \/ dump = NoDump
  \/ /\ dump.at \in {1, 2} /\ p0.ex
     /\ DOMAIN dump = {"at", "img", "start"} /\ dump.start \in Nat /\ dump.start <= now
     /\ dump.img \in Database /\ dump.img.ex
     /\ dump.img.accruals \subseteq p0.accruals /\ Booked(dump.img.accruals, p0.positions)
     /\ dump.at = 2 =>
          /\ dump.img.fills \subseteq p0.fills
          /\ \A i \in DOMAIN p0.positions :
               i \in dump.img.fills \/ i \notin p0.fills \/ p0.positions[i].ts_open >= dump.start

\* The hours a job has worked out begin behind its own last row, whatever the
\* other jobs have inserted since.
DueFits(j) ==
  job[j].at = "insert" =>
    LET i == Min(job[j].todo) IN
      /\ p0.ex /\ job[j].todo # {} /\ job[j].due \in Nat
      /\ job[j].due > 0
      /\ job[j].due + LastOf(p0.accruals, <<i, j>>, p0.positions[i].ts_open) <= job[j].now

\* A job's positions were open at its own clock.
JobsFit ==
  /\ DOMAIN job = Jobs
  /\ \A j \in Jobs :
       /\ DOMAIN job[j] = {"at", "now", "todo", "due"} /\ job[j].now \in Nat /\ job[j].now <= now
       /\ job[j].todo \subseteq DOMAIN p0.positions
       /\ \A i \in job[j].todo :
            p0.positions[i].ts_close = None \/ p0.positions[i].ts_close >= job[j].now
       /\ ~p0.ex => job[j].todo = {}
       /\ DueFits(j)

SavedFit == \A s \in saved : Sane(s.db, now) /\ s.db.ex /\ TornIn(s.db, s.ran)

BookInv ==
  now \in Nat /\ Sane(p0, now) /\ TornIn(p0, windows) /\ DumpFits /\ JobsFit /\ SavedFit

-----------------------------------------------------------------------------
LEMMA DatabaseShape ==
  ASSUME NEW d \in Database
  PROVE  /\ DOMAIN d = {"ex", "positions", "fills", "accruals"}
         /\ d.ex \in BOOLEAN /\ d.positions \in Seq(Entry) /\ d.fills \in SUBSET Nat
         /\ d.accruals \in SUBSET Accrual
         /\ Len(d.positions) \in Nat /\ DOMAIN d.positions = 1..Len(d.positions)
         /\ \A i \in DOMAIN d.positions :
              /\ d.positions[i] \in Entry /\ d.positions[i].ts_open \in Nat /\ i \in Nat
              /\ d.positions[i].ts_close = None \/ d.positions[i].ts_close \in Nat
<1>1. /\ DOMAIN d = {"ex", "positions", "fills", "accruals"}
      /\ d.ex \in BOOLEAN /\ d.positions \in Seq(Entry) /\ d.fills \in SUBSET Nat
      /\ d.accruals \in SUBSET Accrual
  BY DEF Database
<1>2. Len(d.positions) \in Nat /\ DOMAIN d.positions = 1..Len(d.positions)
  BY <1>1
<1>3. ASSUME NEW i \in DOMAIN d.positions
      PROVE  /\ d.positions[i] \in Entry /\ d.positions[i].ts_open \in Nat /\ i \in Nat
             /\ d.positions[i].ts_close = None \/ d.positions[i].ts_close \in Nat
  <2>1. d.positions[i] \in Entry /\ i \in Nat
    BY <1>1, <1>2
  <2> QED
    BY <2>1 DEF Entry
<1> QED
  BY <1>1, <1>2, <1>3

LEMMA SaneLater ==
  ASSUME NEW d, NEW t \in Nat, NEW u \in Nat, t <= u, Sane(d, t)
  PROVE  Sane(d, u)
<1>1. \A i \in DOMAIN d.positions :
        /\ d.positions[i].ts_open \in Nat
        /\ \A j \in Jobs : HoursOf(d.accruals, <<i, j>>) \in Nat
        /\ d.positions[i].ts_close = None \/ d.positions[i].ts_close \in Nat
  BY DatabaseShape, HoursType DEF Sane
<1>2. Covered(d.accruals, d.positions, u)
  <2> SUFFICES ASSUME NEW i \in DOMAIN d.positions, NEW j \in Jobs
               PROVE  HoursOf(d.accruals, <<i, j>>) <= Until(d.positions[i], u) - d.positions[i].ts_open
    BY DEF Covered
  <2> DEFINE h == HoursOf(d.accruals, <<i, j>>)
  <2>1. h <= Until(d.positions[i], t) - d.positions[i].ts_open
    BY DEF Sane, Covered
  <2>2. h \in Nat
    BY <1>1
  <2> HIDE DEF h
  <2>3. h <= Until(d.positions[i], u) - d.positions[i].ts_open
    BY <1>1, <2>1, <2>2 DEF Until, None
  <2> QED
    BY <2>3 DEF h
<1>3. Placed(d, u)
  BY <1>1 DEF Sane, Placed
<1> QED
  BY <1>2, <1>3 DEF Sane

LEMMA EmptyShape ==
  /\ EmptyP0 \in Database /\ EmptyP0.positions = <<>> /\ EmptyP0.ex
  /\ EmptyP0.accruals = {} /\ EmptyP0.fills = {}
<1>1. <<>> \in Seq(Entry)
  OBVIOUS
<1> QED
  BY <1>1 DEF EmptyP0, Database

LEMMA EmptyIsSane ==
  ASSUME NEW d \in Database, d.positions = <<>>, d.accruals = {}, d.fills = {}, NEW t
  PROVE  Sane(d, t) /\ \A ws : TornIn(d, ws)
<1>1. DOMAIN d.positions = {}
  OBVIOUS
<1> QED
  BY <1>1, FS_EmptySet DEF Sane, Placed, Booked, Covered, TornIn

LEMMA BookInitially == BookInit => BookInv
<1> SUFFICES ASSUME BookInit PROVE BookInv
  OBVIOUS
<1>1. Sane(p0, now) /\ TornIn(p0, windows)
  BY EmptyShape, EmptyIsSane DEF BookInit, LedgerInit
<1>2. JobsFit
  BY EmptyShape DEF BookInit, LedgerInit, JobsFit, DueFits, Idle
<1> QED
  BY <1>1, <1>2 DEF BookInit, LedgerInit, BookInv, DumpFits, SavedFit
-----------------------------------------------------------------------------
\* How a program may change the file under a running dump.
Grows ==
  /\ p0'.ex /\ p0.accruals \subseteq p0'.accruals /\ p0.fills \subseteq p0'.fills
  /\ DOMAIN p0.positions \subseteq DOMAIN p0'.positions
  /\ \A i \in DOMAIN p0.positions :
       p0'.positions[i].ts_open = p0.positions[i].ts_open /\ (i \in p0'.fills => i \in p0.fills)
  /\ \A i \in DOMAIN p0'.positions : i \notin DOMAIN p0.positions => p0'.positions[i].ts_open = now

LEMMA DumpKept ==
  ASSUME BookInv, now' \in Nat, now <= now', UNCHANGED dump, p0' \in Database, p0.ex => Grows
  PROVE  DumpFits'
<1>1. CASE dump = NoDump
  BY <1>1 DEF DumpFits
<1>2. CASE dump # NoDump
  <2>1. /\ dump.at \in {1, 2} /\ p0.ex
        /\ DOMAIN dump = {"at", "img", "start"} /\ dump.start \in Nat /\ dump.start <= now
        /\ dump.img \in Database /\ dump.img.ex
        /\ dump.img.accruals \subseteq p0.accruals /\ Booked(dump.img.accruals, p0.positions)
        /\ dump.at = 2 =>
             /\ dump.img.fills \subseteq p0.fills
             /\ \A i \in DOMAIN p0.positions :
                  i \in dump.img.fills \/ i \notin p0.fills \/ p0.positions[i].ts_open >= dump.start
    BY <1>2 DEF BookInv, DumpFits
  <2>2. Grows /\ now \in Nat /\ p0 \in Database /\ IsFiniteSet(p0.accruals) /\ Placed(p0, now)
    BY <2>1 DEF BookInv, Sane
  <2> DEFINE A == dump.img.accruals
  <2>3. A \in SUBSET Accrual /\ IsFiniteSet(A)
    BY <2>1, <2>2, DatabaseShape, FS_Subset
  <2>4. ASSUME NEW i \in DOMAIN p0'.positions, NEW j \in Jobs
        PROVE  HoursOf(A, <<i, j>>)
                 <= LastOf(A, <<i, j>>, p0'.positions[i].ts_open) - p0'.positions[i].ts_open
    <3>1. CASE i \in DOMAIN p0.positions
      BY <2>1, <2>2, <3>1 DEF Booked, Grows
    <3>2. CASE i \notin DOMAIN p0.positions
      <4>1. p0'.positions[i].ts_open = now
        BY <2>2, <3>2 DEF Grows
      <4>2. \A a \in A : Key(a) # <<i, j>>
        BY <2>1, <2>2, <3>2 DEF Placed, Key
      <4> DEFINE k == <<i, j>>
      <4> HIDE DEF A, k
      <4>3. HoursOf(A, k) = 0
        BY <2>3, <4>2, HoursType DEF k
      <4>4. LastOf(A, k, now) \in Nat /\ LastOf(A, k, now) >= now
        BY <2>2, <2>3, LastIsLatest
      <4> QED
        BY <2>2, <4>1, <4>3, <4>4 DEF k
    <3> QED
      BY <3>1, <3>2
  <2>5. Booked(A, p0'.positions)
    BY <2>4 DEF Booked
  <2>6. dump.at = 2 =>
          /\ dump.img.fills \subseteq p0'.fills
          /\ \A i \in DOMAIN p0'.positions :
               i \in dump.img.fills \/ i \notin p0'.fills \/ p0'.positions[i].ts_open >= dump.start
    <3> SUFFICES ASSUME dump.at = 2, NEW i \in DOMAIN p0'.positions
                 PROVE  i \in dump.img.fills \/ i \notin p0'.fills \/ p0'.positions[i].ts_open >= dump.start
      BY <2>1, <2>2 DEF Grows
    <3>1. CASE i \in DOMAIN p0.positions
      BY <2>1, <2>2, <3>1 DEF Grows
    <3>2. CASE i \notin DOMAIN p0.positions
      BY <2>1, <2>2, <3>2 DEF Grows
    <3> QED
      BY <3>1, <3>2
  <2>7. dump.start <= now'
    BY <2>1, <2>2
  <2>8. p0'.ex /\ dump.img.accruals \subseteq p0'.accruals
    BY <2>1, <2>2 DEF Grows
  <2> QED
    BY <2>1, <2>5, <2>6, <2>7, <2>8 DEF DumpFits
<1> QED
  BY <1>1, <1>2

\* Programs leave the dumps alone, which stay right as time passes.
LEMMA SavedKept ==
  ASSUME BookInv, now' \in Nat, now <= now', UNCHANGED saved
  PROVE  SavedFit'
<1>1. \A s \in saved : Sane(s.db, now')
  BY SaneLater DEF BookInv, SavedFit
<1> QED
  BY <1>1 DEF BookInv, SavedFit

\* A step of a program that leaves the file as it is, or creates it.
LEMMA FileKept ==
  ASSUME BookInv, p0' = db(p0, EmptyP0), UNCHANGED <<now, backupVars>>
  PROVE  /\ now' \in Nat /\ Sane(p0, now)' /\ TornIn(p0, windows)' /\ DumpFits' /\ SavedFit' /\ p0'.ex
         /\ p0.ex => p0' = p0
<1>1. p0' \in Database /\ p0'.ex
  BY EmptyShape DEF db, BookInv, Sane
<1>2. now' = now /\ now \in Nat /\ windows' = windows /\ dump' = dump /\ saved' = saved
  BY DEF backupVars, BookInv
<1>3. Sane(p0', now) /\ TornIn(p0', windows)
  <2>1. CASE p0.ex
    BY <2>1 DEF db, BookInv
  <2>2. CASE ~p0.ex
    <3>1. p0' = EmptyP0
      BY <2>2 DEF db
    <3> QED
      BY <3>1, EmptyShape, EmptyIsSane
  <2> QED
    BY <2>1, <2>2
<1>4. p0.ex => p0' = p0
  BY DEF db
<1>5. p0.ex => Grows
  BY <1>4, <1>1 DEF Grows
<1>6. DumpFits'
  BY <1>1, <1>2, <1>5, DumpKept
<1>7. SavedFit'
  BY <1>2, SavedKept
<1> QED
  BY <1>1, <1>2, <1>3, <1>4, <1>6, <1>7
-----------------------------------------------------------------------------
LEMMA FirstToDo ==
  ASSUME NEW d \in Database, NEW T, T \subseteq DOMAIN d.positions, T # {}
  PROVE  Min(T) \in T
<1> DEFINE D == 1..Len(d.positions)
<1>1. DOMAIN d.positions = D /\ Len(d.positions) \in Nat
  BY DatabaseShape
<1>2. IsFiniteSet(D) /\ D \subseteq Int /\ T \subseteq D
  BY <1>1, FS_Interval
<1> HIDE DEF D
<1>3. IsFiniteSet(T) /\ T \subseteq Int
  BY <1>2, FS_Subset
<1> QED
  BY <1>3, Extremes

\* Jobs that stand still keep fitting the file when positions are added or closed.
LEMMA JobsKept ==
  ASSUME BookInv, UNCHANGED job, now' \in Nat, now <= now',
         p0.ex => /\ p0'.ex /\ DOMAIN p0.positions \subseteq DOMAIN p0'.positions
                  /\ p0'.accruals = p0.accruals
                  /\ \A i \in DOMAIN p0.positions : p0'.positions[i].ts_open = p0.positions[i].ts_open
                  /\ \A i \in DOMAIN p0.positions :
                       p0'.positions[i].ts_close = p0.positions[i].ts_close \/ p0'.positions[i].ts_close = now
  PROVE  JobsFit'
<1>1. now \in Nat /\ DOMAIN job = Jobs
  BY DEF BookInv, JobsFit
<1>2. ASSUME NEW j \in Jobs
      PROVE  /\ DOMAIN job[j] = {"at", "now", "todo", "due"} /\ job[j].now \in Nat /\ job[j].now <= now'
             /\ job[j].todo \subseteq DOMAIN p0'.positions
             /\ \A i \in job[j].todo :
                  p0'.positions[i].ts_close = None \/ p0'.positions[i].ts_close >= job[j].now
             /\ ~p0'.ex => job[j].todo = {}
             /\ DueFits(j)'
  <2>1. /\ DOMAIN job[j] = {"at", "now", "todo", "due"} /\ job[j].now \in Nat /\ job[j].now <= now
        /\ job[j].todo \subseteq DOMAIN p0.positions
        /\ \A i \in job[j].todo :
             p0.positions[i].ts_close = None \/ p0.positions[i].ts_close >= job[j].now
        /\ ~p0.ex => job[j].todo = {}
    BY DEF BookInv, JobsFit
  <2>2. job[j].now <= now'
    BY <1>1, <2>1
  <2>3. \A i \in job[j].todo :
          p0'.positions[i].ts_close = None \/ p0'.positions[i].ts_close >= job[j].now
    BY <1>1, <2>1
  <2>4. DueFits(j)'
    <3>1. DueFits(j)
      BY DEF BookInv, JobsFit
    <3>2. CASE job[j].at = "insert"
      <4> DEFINE i == Min(job[j].todo)
      <4>1. i \in job[j].todo
        <5>1. p0 \in Database
          BY DEF BookInv, Sane
        <5> QED
          BY <2>1, <3>1, <3>2, <5>1, FirstToDo DEF DueFits
      <4> HIDE DEF i
      <4> QED
        BY <2>1, <3>1, <3>2, <4>1 DEF DueFits, i
    <3>3. CASE job[j].at # "insert"
      BY <3>3 DEF DueFits
    <3> QED
      BY <3>2, <3>3
  <2> QED
    BY <2>1, <2>2, <2>3, <2>4
<1> QED
  BY <1>1, <1>2 DEF JobsFit

\* A step that leaves the file and the dumps as they are.
LEMMA QuietKept ==
  ASSUME BookInv, UNCHANGED <<p0, backupVars>>, now' \in Nat, now <= now', JobsFit'
  PROVE  BookInv'
<1>1. windows' = windows /\ dump' = dump /\ saved' = saved /\ p0' = p0 /\ now \in Nat
  BY DEF backupVars, BookInv
<1>2. Sane(p0, now)' /\ TornIn(p0, windows)'
  BY <1>1, SaneLater DEF BookInv
<1>3. p0.ex => Grows
  BY <1>1 DEF Grows
<1>4. p0' \in Database
  BY <1>1 DEF BookInv, Sane
<1>5. DumpFits' /\ SavedFit'
  BY <1>1, <1>3, <1>4, DumpKept, SavedKept
<1> QED
  BY <1>2, <1>5 DEF BookInv

LEMMA OpenStartKeeps ==
  ASSUME BookInv, OpenStart, UNCHANGED backupVars
  PROVE  BookInv'
<1>1. p0' = db(p0, EmptyP0) /\ UNCHANGED <<now, job>>
  BY DEF OpenStart
<1>2. /\ now' \in Nat /\ Sane(p0, now)' /\ TornIn(p0, windows)' /\ DumpFits' /\ SavedFit' /\ p0'.ex
      /\ p0.ex => p0' = p0
  BY <1>1, FileKept
<1>3. JobsFit'
  BY <1>1, <1>2, JobsKept DEF BookInv
<1> QED
  BY <1>2, <1>3 DEF BookInv

\* Programs that only read, and the clock.
LEMMA QuietSteps ==
  ASSUME BookInv, OpenNext \/ OpenEnd \/ ClockTicks \/ UNCHANGED <<now, p0, job>>, UNCHANGED backupVars
  PROVE  BookInv'
<1>1. UNCHANGED <<p0, job>> /\ now' \in Nat /\ now <= now'
  BY DEF OpenNext, OpenEnd, ClockTicks, BookInv
<1>2. JobsFit'
  BY <1>1, JobsKept
<1> QED
  BY <1>1, <1>2, QuietKept

LEMMA JobEndKeeps ==
  ASSUME BookInv, NEW j \in Jobs, JobEnd(j), UNCHANGED backupVars
  PROVE  BookInv'
<1>1. UNCHANGED <<now, p0>> /\ now \in Nat /\ job' = [job EXCEPT ![j] = Idle]
  BY DEF JobEnd, BookInv
<1>2. JobsFit'
  BY <1>1 DEF BookInv, JobsFit, DueFits, Idle, backupVars
<1> QED
  BY <1>1, <1>2, QuietKept

\* A job takes the positions open at its clock.
LEMMA JobStartKeeps ==
  ASSUME BookInv, NEW j \in Jobs, JobStart(j), UNCHANGED backupVars
  PROVE  BookInv'
<1>1. p0' = db(p0, EmptyP0) /\ UNCHANGED now
  BY DEF JobStart
<1>2. /\ now' \in Nat /\ Sane(p0, now)' /\ TornIn(p0, windows)' /\ DumpFits' /\ SavedFit' /\ p0'.ex
      /\ p0.ex => p0' = p0
  BY <1>1, FileKept
<1> DEFINE T == OpenIds(p0')
<1>3. job' = [job EXCEPT ![j] = [at |-> "spread", now |-> now, todo |-> T, due |-> 0]]
  BY DEF JobStart
<1>4. T \subseteq DOMAIN p0'.positions /\ \A i \in T : p0'.positions[i].ts_close = None
  BY DEF OpenIds
<1> HIDE DEF T
<1>5. JobsFit'
  <2>1. DOMAIN job' = Jobs /\ job'[j] = [at |-> "spread", now |-> now, todo |-> T, due |-> 0]
    BY <1>3 DEF BookInv, JobsFit
  <2>2. ASSUME NEW k \in Jobs, k # j
        PROVE  /\ job'[k] = job[k]
               /\ job[k].todo \subseteq DOMAIN p0'.positions
               /\ \A i \in job[k].todo :
                    p0'.positions[i].ts_close = None \/ p0'.positions[i].ts_close >= job[k].now
               /\ DueFits(k)'
    <3>1. job'[k] = job[k] /\ DueFits(k)
      BY <1>3, <2>2 DEF BookInv, JobsFit
    <3>2. DueFits(k)'
      BY <1>2, <3>1 DEF DueFits
    <3> QED
      BY <1>2, <3>1, <3>2 DEF BookInv, JobsFit
  <2>5. DueFits(j)'
    BY <2>1 DEF DueFits
  <2>3. \A k \in Jobs : DOMAIN job[k] = {"at", "now", "todo", "due"} /\ job[k].now \in Nat /\ job[k].now <= now
    BY DEF BookInv, JobsFit
  <2>4. now \in Nat /\ now' = now
    BY <1>1 DEF BookInv
  <2> QED
    BY <1>2, <1>4, <2>1, <2>2, <2>3, <2>4, <2>5 DEF JobsFit
<1> QED
  BY <1>2, <1>5 DEF BookInv
-----------------------------------------------------------------------------
\* An entry and its fill are committed together; nothing is booked for it yet.
LEMMA EnteredFits ==
  ASSUME BookInv, NEW p \in Pairs, p0' = Entered(p0, p), UNCHANGED <<now, job, backupVars>>
  PROVE  BookInv'
<1>1. /\ now \in Nat /\ now' = now /\ windows' = windows /\ saved' = saved /\ dump' = dump
      /\ p0 \in Database /\ IsFiniteSet(p0.accruals)
      /\ Placed(p0, now) /\ Booked(p0.accruals, p0.positions) /\ Covered(p0.accruals, p0.positions, now)
  BY DEF BookInv, Sane, backupVars
<1> DEFINE n == Len(p0.positions) + 1
           e == [pair |-> p, ts_open |-> now, ts_close |-> None]
           P == Append(p0.positions, e)
<1>2. /\ DOMAIN p0 = {"ex", "positions", "fills", "accruals"} /\ p0.positions \in Seq(Entry)
      /\ Len(p0.positions) \in Nat /\ DOMAIN p0.positions = 1..Len(p0.positions)
      /\ p0.fills \in SUBSET Nat /\ p0.accruals \in SUBSET Accrual
  BY <1>1, DatabaseShape
<1>3. e \in Entry /\ e.ts_open = now /\ e.ts_close = None
  BY <1>1 DEF Entry
<1>4. p0' = [p0 EXCEPT !.positions = P, !.fills = p0.fills \cup {n}]
  BY <1>2 DEF Entered
<1> HIDE DEF e
<1>5. /\ P \in Seq(Entry) /\ Len(P) = n /\ DOMAIN P = 1..n /\ P[n] = e
      /\ \A i \in DOMAIN p0.positions : P[i] = p0.positions[i]
  BY <1>2, <1>3
<1> HIDE DEF P
<1>6. /\ p0'.positions = P /\ p0'.fills = p0.fills \cup {n} /\ p0'.accruals = p0.accruals
      /\ p0'.ex = p0.ex
  BY <1>2, <1>4
<1>7. n \in Nat
  BY <1>2
<1>8. p0' \in Database
  BY <1>1, <1>2, <1>4, <1>5, <1>7 DEF Database
<1>9. \A i \in DOMAIN P : i \in DOMAIN p0.positions \/ i = n
  BY <1>2, <1>5
<1>10. n \notin DOMAIN p0.positions /\ DOMAIN p0.positions \subseteq DOMAIN P
  BY <1>2, <1>5
<1> HIDE DEF n
<1>11. ASSUME NEW j \in Jobs
       PROVE  /\ HoursOf(p0.accruals, <<n, j>>) = 0
              /\ LastOf(p0.accruals, <<n, j>>, now) \in Nat /\ LastOf(p0.accruals, <<n, j>>, now) >= now
  <2>1. \A a \in p0.accruals : Key(a) # <<n, j>>
    BY <1>1, <1>10 DEF Placed, Key
  <2> DEFINE k == <<n, j>>
  <2> HIDE DEF k
  <2>2. \A a \in p0.accruals : Key(a) # k
    BY <2>1 DEF k
  <2>3. HoursOf(p0.accruals, k) = 0 /\ LastOf(p0.accruals, k, now) \in Nat /\ LastOf(p0.accruals, k, now) >= now
    BY <1>1, <1>2, <2>2, HoursType, LastIsLatest
  <2> QED
    BY <2>3 DEF k
<1>12. ASSUME NEW i \in DOMAIN P, NEW j \in Jobs
       PROVE  /\ HoursOf(p0.accruals, <<i, j>>) <= LastOf(p0.accruals, <<i, j>>, P[i].ts_open) - P[i].ts_open
              /\ HoursOf(p0.accruals, <<i, j>>) <= Until(P[i], now) - P[i].ts_open
  <2>1. CASE i = n
    <3>1. P[i].ts_open = now /\ Until(P[i], now) = now
      BY <1>3, <1>5, <2>1 DEF Until
    <3> DEFINE h == HoursOf(p0.accruals, <<n, j>>)
               l == LastOf(p0.accruals, <<n, j>>, now)
    <3>2. h = 0 /\ l \in Nat /\ l >= now
      BY <1>11
    <3> HIDE DEF h, l
    <3>3. h <= l - now /\ h <= now - now
      BY <1>1, <3>2
    <3> QED
      BY <2>1, <3>1, <3>3 DEF h, l
  <2>2. CASE i \in DOMAIN p0.positions
    BY <1>1, <1>5, <2>2 DEF Booked, Covered
  <2> QED
    BY <1>9, <2>1, <2>2
<1>13. Booked(p0.accruals, P) /\ Covered(p0.accruals, P, now)
  BY <1>12 DEF Booked, Covered
<1>14. \A i \in DOMAIN P : P[i].ts_open <= now
  BY <1>1, <1>3, <1>5, <1>9 DEF Placed
<1>15. p0'.fills \subseteq DOMAIN P /\ \A a \in p0.accruals : a.pos \in DOMAIN P
  BY <1>1, <1>5, <1>6, <1>7, <1>10 DEF Placed, n
<1>16. Sane(p0, now)'
  BY <1>1, <1>6, <1>8, <1>12, <1>13, <1>14, <1>15 DEF Sane, Placed
<1>17. TornIn(p0, windows)'
  BY <1>1, <1>5, <1>6, <1>9 DEF BookInv, TornIn
<1>18. p0.ex => Grows
  BY <1>3, <1>5, <1>6, <1>9, <1>10 DEF Grows
<1>19. DumpFits' /\ SavedFit'
  BY <1>1, <1>8, <1>18, DumpKept, SavedKept
<1>20. JobsFit'
  BY <1>1, <1>5, <1>6, <1>10, JobsKept
<1> QED
  BY <1>1, <1>16, <1>17, <1>19, <1>20 DEF BookInv

LEMMA VerdictKeeps ==
  ASSUME BookInv, OpenVerdict, UNCHANGED backupVars
  PROVE  BookInv'
<1>1. opener.at \in Pairs /\ UNCHANGED <<now, job>> /\ (p0' = Entered(p0, opener.at) \/ p0' = p0)
  BY DEF OpenVerdict
<1>2. CASE p0' = p0
  BY <1>1, <1>2, QuietSteps
<1>3. CASE p0' = Entered(p0, opener.at)
  BY <1>1, <1>3, EnteredFits
<1> QED
  BY <1>1, <1>2, <1>3

LEMMA CloseKeeps ==
  ASSUME BookInv, run_close, UNCHANGED backupVars
  PROVE  BookInv'
<1>1. /\ now \in Nat /\ now' = now /\ windows' = windows /\ saved' = saved /\ dump' = dump /\ job' = job
      /\ p0 \in Database /\ IsFiniteSet(p0.accruals)
      /\ Placed(p0, now) /\ Booked(p0.accruals, p0.positions) /\ Covered(p0.accruals, p0.positions, now)
  BY DEF BookInv, Sane, backupVars, run_close
<1>2. PICK i \in DOMAIN p0.positions :
        p0.positions[i].ts_close = None /\ p0' = [p0 EXCEPT !.positions[i].ts_close = now]
  BY DEF run_close, OpenIds
<1>3. /\ DOMAIN p0 = {"ex", "positions", "fills", "accruals"} /\ p0.positions \in Seq(Entry)
      /\ Len(p0.positions) \in Nat /\ DOMAIN p0.positions = 1..Len(p0.positions)
      /\ p0.fills \in SUBSET Nat /\ p0.accruals \in SUBSET Accrual
  BY <1>1, DatabaseShape
<1> DEFINE e == [p0.positions[i] EXCEPT !.ts_close = now]
           P == [p0.positions EXCEPT ![i] = e]
<1>4. p0.positions[i] \in Entry
  BY <1>3
<1>5. e \in Entry /\ e.ts_close = now /\ e.ts_open = p0.positions[i].ts_open
  BY <1>1, <1>4 DEF Entry
<1>6. p0' = [p0 EXCEPT !.positions = P]
  BY <1>2
<1> HIDE DEF e
<1>7. P \in Seq(Entry) /\ DOMAIN P = DOMAIN p0.positions
  BY <1>3, <1>5
<1>8. \A k \in DOMAIN P : P[k] = IF k = i THEN e ELSE p0.positions[k]
  BY <1>3
<1> HIDE DEF P
<1>9. p0'.positions = P /\ p0'.fills = p0.fills /\ p0'.accruals = p0.accruals /\ p0'.ex = p0.ex
  BY <1>3, <1>6
<1>10. p0' \in Database
  BY <1>1, <1>6, <1>7 DEF Database
<1>11. \A k \in DOMAIN P : P[k].ts_open = p0.positions[k].ts_open
  BY <1>5, <1>8
<1>12. Booked(p0.accruals, P)
  BY <1>1, <1>7, <1>11 DEF Booked
<1>13. \A k \in DOMAIN P : Until(P[k], now) = Until(p0.positions[k], now)
  BY <1>1, <1>2, <1>5, <1>7, <1>8 DEF Until, None
<1>14. Covered(p0.accruals, P, now)
  BY <1>1, <1>7, <1>11, <1>13 DEF Covered
<1>15. Placed(p0, now)'
  BY <1>1, <1>7, <1>9, <1>11 DEF Placed
<1>16. Sane(p0, now)'
  BY <1>1, <1>9, <1>10, <1>12, <1>14, <1>15 DEF Sane
<1>17. TornIn(p0, windows)'
  BY <1>1, <1>7, <1>9, <1>11 DEF BookInv, TornIn
<1>18. p0.ex => Grows
  BY <1>7, <1>9, <1>11 DEF Grows
<1>19. DumpFits' /\ SavedFit'
  BY <1>1, <1>10, <1>18, DumpKept, SavedKept
<1>20. JobsFit'
  BY <1>1, <1>5, <1>7, <1>8, <1>9, JobsKept
<1> QED
  BY <1>1, <1>16, <1>17, <1>19, <1>20 DEF BookInv
-----------------------------------------------------------------------------
LEMMA PositivePart ==
  ASSUME NEW x \in Int
  PROVE  Max({x, 0}) = IF x > 0 THEN x ELSE 0
<1> DEFINE S == {x, 0}
<1>1. \A m \in S : (\A y \in S : m >= y) => m = IF x > 0 THEN x ELSE 0
  OBVIOUS
<1>2. \E m \in S : \A y \in S : m >= y
  OBVIOUS
<1> QED
  BY <1>1, <1>2 DEF Max

\* The hours due begin behind every row of the position, the job's own among them.
LEMMA DueBehindOwn ==
  ASSUME BookInv, NEW i \in DOMAIN p0.positions, NEW j \in Jobs, NEW t \in Nat, HoursDue(p0, i, t) > 0
  PROVE  /\ HoursDue(p0, i, t) \in Nat
         /\ HoursDue(p0, i, t) + LastOf(p0.accruals, <<i, j>>, p0.positions[i].ts_open) <= t
<1> DEFINE A == p0.accruals
           o == p0.positions[i].ts_open
           R == AccrualsOf(p0, i)
           T == {a.ts : a \in R}
           U == T \cup {o}
           last == last_accrual_ts(p0, i)
           f == [a \in R |-> a.ts]
           own == LastOf(A, <<i, j>>, o)
           V == {a.ts : a \in RowsOf(A, <<i, j>>)} \cup {o}
           h == HoursDue(p0, i, t)
<1>1. /\ A \in SUBSET Accrual /\ IsFiniteSet(A) /\ o \in Nat
  BY DatabaseShape DEF BookInv, Sane
<1>2. R \subseteq A /\ f \in Surjection(R, T) /\ T \subseteq Nat
  BY <1>1 DEF AccrualsOf, Surjection, Accrual
<1>3. V \subseteq U
  BY DEF RowsOf, AccrualsOf, Key
<1>4. last = Max(U) /\ own = Max(V)
  BY DEF last_accrual_ts, LastOf
<1>5. h = Max({t - last, 0})
  BY DEF HoursDue
<1>6. o \in V /\ U = T \cup {o} /\ h > 0
  OBVIOUS
<1> HIDE DEF f, R, T, last, own, h, A, o, V, U
<1>7. IsFiniteSet(U) /\ U \subseteq Int /\ U # {}
  <2>1. IsFiniteSet(T)
    BY <1>1, <1>2, FS_Subset, FS_Surjection
  <2> QED
    BY <1>1, <1>2, <1>6, <2>1, FS_AddElement
<1>8. last \in U /\ \A x \in U : x <= last
  BY <1>4, <1>7, Extremes
<1>9. own \in V
  <2>1. IsFiniteSet(V) /\ V \subseteq Int /\ V # {}
    BY <1>3, <1>6, <1>7, FS_Subset
  <2> QED
    BY <1>4, <2>1, Extremes
<1>10. own \in Int /\ last \in Int /\ own <= last
  BY <1>3, <1>7, <1>8, <1>9
<1>11. h = IF t - last > 0 THEN t - last ELSE 0
  BY <1>5, <1>10, PositivePart
<1>12. h \in Nat /\ h + own <= t
  BY <1>6, <1>10, <1>11
<1> QED
  BY <1>12 DEF h, own, A, o

LEMMA ReadKeeps ==
  ASSUME BookInv, NEW j \in Jobs, JobRead(j), UNCHANGED backupVars
  PROVE  BookInv'
<1> DEFINE T == job[j].todo
           i == Min(T)
           h == HoursDue(p0, i, job[j].now)
<1>1. /\ T # {} /\ UNCHANGED <<now, p0>> /\ job[j].at = "spread"
      /\ \/ h > 0 /\ job' = [job EXCEPT ![j].at = "insert", ![j].due = h]
         \/ job' = [job EXCEPT ![j].todo = T \ {i}]
  BY DEF JobRead
<1>2. /\ now \in Nat /\ DOMAIN job = Jobs /\ DOMAIN job[j] = {"at", "now", "todo", "due"}
      /\ job[j].now \in Nat /\ job[j].now <= now /\ T \subseteq DOMAIN p0.positions
      /\ \A k \in T : p0.positions[k].ts_close = None \/ p0.positions[k].ts_close >= job[j].now
      /\ p0.ex /\ p0 \in Database
  BY <1>1 DEF BookInv, JobsFit, Sane
<1>3. i \in T
  BY <1>1, <1>2, FirstToDo
<1> HIDE DEF i
<1>4. /\ DOMAIN job' = Jobs /\ \A k \in Jobs : k # j => job'[k] = job[k]
      /\ DOMAIN job'[j] = {"at", "now", "todo", "due"} /\ job'[j].now = job[j].now
      /\ job'[j].todo \subseteq T
  BY <1>1, <1>2
<1>5. DueFits(j)'
  <2>1. CASE job' = [job EXCEPT ![j].todo = T \ {i}]
    <3>1. job'[j].at = "spread"
      BY <1>1, <1>2, <2>1
    <3> QED
      BY <3>1 DEF DueFits
  <2>2. CASE h > 0 /\ job' = [job EXCEPT ![j].at = "insert", ![j].due = h]
    <3>1. job'[j].todo = T /\ job'[j].due = h /\ job'[j].now = job[j].now
      BY <1>2, <2>2
    <3>2. h \in Nat /\ h + LastOf(p0.accruals, <<i, j>>, p0.positions[i].ts_open) <= job[j].now
      BY <1>2, <1>3, <2>2, DueBehindOwn
    <3> HIDE DEF h, T
    <3> QED
      BY <1>1, <1>2, <2>2, <3>1, <3>2 DEF DueFits, i
  <2> QED
    BY <1>1, <2>1, <2>2
<1>6. JobsFit'
  <2>1. \A k \in Jobs :
          /\ DOMAIN job[k] = {"at", "now", "todo", "due"} /\ job[k].now \in Nat /\ job[k].now <= now
          /\ job[k].todo \subseteq DOMAIN p0.positions
          /\ \A n \in job[k].todo :
               p0.positions[n].ts_close = None \/ p0.positions[n].ts_close >= job[k].now
          /\ ~p0.ex => job[k].todo = {}
          /\ DueFits(k)
    BY DEF BookInv, JobsFit
  <2>2. ASSUME NEW k \in Jobs, k # j PROVE DueFits(k)'
    BY <1>1, <1>4, <2>1, <2>2 DEF DueFits
  <2>3. ASSUME NEW k \in Jobs
        PROVE  /\ DOMAIN job'[k] = {"at", "now", "todo", "due"} /\ job'[k].now \in Nat /\ job'[k].now <= now'
               /\ job'[k].todo \subseteq DOMAIN p0'.positions
               /\ \A n \in job'[k].todo :
                    p0'.positions[n].ts_close = None \/ p0'.positions[n].ts_close >= job'[k].now
               /\ ~p0'.ex => job'[k].todo = {}
               /\ DueFits(k)'
    <3>1. CASE k = j
      BY <1>1, <1>2, <1>4, <1>5, <3>1
    <3>2. CASE k # j
      BY <1>1, <1>4, <2>1, <2>2, <3>2
    <3> QED
      BY <3>1, <3>2
  <2> QED
    BY <1>4, <2>3 DEF JobsFit
<1> QED
  BY <1>1, <1>2, <1>6, QuietKept

\* A row takes the carry of its job and position to the job's clock, at which it
\* was held.
LEMMA JobInsertKeeps ==
  ASSUME BookInv, NEW j \in Jobs, JobInsert(j), UNCHANGED backupVars
  PROVE  BookInv'
<1> DEFINE A == p0.accruals
           P == p0.positions
           i == Min(job[j].todo)
           key == <<i, j>>
           o == P[i].ts_open
           last == LastOf(A, key, o)
           h == job[j].due
           t == job[j].now
           r == [pos |-> i, ts |-> now, hours |-> h, by |-> j]
           B == A \cup {r}
<1>1. /\ now \in Nat /\ now' = now /\ windows' = windows /\ saved' = saved /\ dump' = dump
      /\ p0 \in Database /\ IsFiniteSet(A)
      /\ Placed(p0, now) /\ Booked(A, P) /\ Covered(A, P, now)
  BY DEF BookInv, Sane, backupVars, JobInsert
<1>2. /\ DOMAIN p0 = {"ex", "positions", "fills", "accruals"} /\ A \in SUBSET Accrual
      /\ \A k \in DOMAIN P : P[k].ts_open \in Nat
  BY <1>1, DatabaseShape
<1>3. /\ DOMAIN job = Jobs /\ DOMAIN job[j] = {"at", "now", "todo", "due"}
      /\ t \in Nat /\ t <= now /\ job[j].todo \subseteq DOMAIN P /\ job[j].todo # {} /\ p0.ex
      /\ \A k \in job[j].todo : P[k].ts_close = None \/ P[k].ts_close >= t
      /\ h \in Nat /\ h > 0 /\ h + last <= t
  BY DEF JobInsert, BookInv, JobsFit, DueFits
<1>4. i \in job[j].todo /\ i \in DOMAIN P
  BY <1>1, <1>3, FirstToDo
<1>5. P[i].ts_close = None \/ P[i].ts_close >= t
  BY <1>3, <1>4
<1>6. o \in Nat /\ i \in Nat
  BY <1>1, <1>4, DatabaseShape
<1>7. p0' = [p0 EXCEPT !.accruals = B]
  BY DEF JobInsert
<1>8. job' = [job EXCEPT ![j].at = "spread", ![j].todo = job[j].todo \ {i}, ![j].due = 0]
  BY DEF JobInsert
<1>9. last \in Nat /\ last >= o /\ \A a \in RowsOf(A, key) : last >= a.ts
  <2> HIDE DEF key, o
  <2> QED
    BY <1>1, <1>2, <1>6, LastIsLatest
<1>10. r \in Accrual /\ r.pos = i /\ r.ts = now /\ r.hours = h /\ Key(r) = key
  BY <1>1, <1>3, <1>6 DEF Accrual, Key
<1> HIDE DEF i
<1>11. r \notin A
  <2>1. r \in A => r \in RowsOf(A, key)
    BY <1>10 DEF RowsOf
  <2>2. last < now
    <3> HIDE DEF last, h, t
    <3> QED
      BY <1>1, <1>3, <1>9
  <2> HIDE DEF last, r
  <2> QED
    BY <1>1, <1>9, <1>10, <2>1, <2>2
<1> HIDE DEF r
<1>12. A \subseteq B /\ r \in B /\ B = A \cup {r}
  OBVIOUS
<1> HIDE DEF B, key
<1>13. /\ IsFiniteSet(B) /\ B \in SUBSET Accrual
       /\ HoursOf(B, key) = h + HoursOf(A, key)
       /\ \A k : k # key => RowsOf(B, k) = RowsOf(A, k)
  <2>1. /\ A \in SUBSET Accrual /\ IsFiniteSet(A) /\ r \in Accrual /\ r \notin A /\ B = A \cup {r}
        /\ Key(r) = key /\ r.hours = h
    BY <1>1, <1>2, <1>10, <1>11, <1>12
  <2> HIDE DEF A, h
  <2> QED
    BY <2>1, OneMoreRow
<1>14. \A k : k # key => HoursOf(B, k) = HoursOf(A, k) /\ \A x : LastOf(B, k, x) = LastOf(A, k, x)
  BY <1>13 DEF HoursOf, LastOf
<1>15. HoursOf(A, key) \in Nat /\ HoursOf(A, key) <= last - o
  <2>1. HoursOf(A, key) \in Nat
    BY <1>1, <1>2, HoursType
  <2>2. HoursOf(A, key) <= last - o
    BY <1>1, <1>4 DEF Booked, key
  <2> QED
    BY <2>1, <2>2
<1>16. HoursOf(B, key) \in Nat /\ HoursOf(B, key) <= t - o
  <2> HIDE DEF last, o, h, t
  <2> QED
    BY <1>3, <1>6, <1>9, <1>13, <1>15
<1>17. LastOf(B, key, o) \in Nat /\ LastOf(B, key, o) >= now
  <2>1. r \in RowsOf(B, key)
    BY <1>10, <1>12 DEF RowsOf
  <2> QED
    BY <1>6, <1>10, <1>13, <2>1, LastIsLatest
<1>18. Until(P[i], now) >= t /\ Until(P[i], now) \in Nat
  BY <1>1, <1>3, <1>4, <1>5, DatabaseShape DEF Until
<1>19. Booked(B, P) /\ Covered(B, P, now)
  <2>1. ASSUME NEW k \in DOMAIN P, NEW w \in Jobs, <<k, w>> = key
        PROVE  /\ HoursOf(B, <<k, w>>) <= LastOf(B, <<k, w>>, P[k].ts_open) - P[k].ts_open
               /\ HoursOf(B, <<k, w>>) <= Until(P[k], now) - P[k].ts_open
    <3>1. k = i
      BY <2>1 DEF key
    <3>2. HoursOf(B, key) <= LastOf(B, key, o) - o /\ HoursOf(B, key) <= Until(P[i], now) - o
      <4> HIDE DEF o, t
      <4> QED
        BY <1>1, <1>3, <1>6, <1>16, <1>17, <1>18
    <3> QED
      BY <2>1, <3>1, <3>2
  <2>2. ASSUME NEW k \in DOMAIN P, NEW w \in Jobs, <<k, w>> # key
        PROVE  /\ HoursOf(B, <<k, w>>) <= LastOf(B, <<k, w>>, P[k].ts_open) - P[k].ts_open
               /\ HoursOf(B, <<k, w>>) <= Until(P[k], now) - P[k].ts_open
    BY <1>1, <1>14, <2>2 DEF Booked, Covered
  <2> QED
    BY <2>1, <2>2 DEF Booked, Covered
<1>20. p0'.accruals = B /\ p0'.positions = P /\ p0'.fills = p0.fills /\ p0'.ex = p0.ex
  BY <1>2, <1>7
<1>21. p0' \in Database
  BY <1>1, <1>7, <1>13 DEF Database
<1>22. Placed(p0, now)'
  BY <1>1, <1>4, <1>10, <1>12, <1>20 DEF Placed
<1>23. Sane(p0, now)'
  BY <1>1, <1>13, <1>19, <1>20, <1>21, <1>22 DEF Sane
<1>24. TornIn(p0, windows)'
  BY <1>1, <1>20 DEF BookInv, TornIn
<1>25. p0.ex => Grows
  BY <1>12, <1>20 DEF Grows
<1>26. DumpFits' /\ SavedFit'
  BY <1>1, <1>21, <1>25, DumpKept, SavedKept
<1>27. JobsFit'
  <2>1. /\ DOMAIN job' = Jobs /\ DOMAIN job'[j] = {"at", "now", "todo", "due"} /\ job'[j].now = t
        /\ job'[j].at = "spread"
        /\ job'[j].todo \subseteq job[j].todo /\ \A k \in Jobs : k # j => job'[k] = job[k]
    BY <1>3, <1>8
  <2>2. \A k \in Jobs :
          /\ DOMAIN job[k] = {"at", "now", "todo", "due"} /\ job[k].now \in Nat /\ job[k].now <= now
          /\ job[k].todo \subseteq DOMAIN P
          /\ \A n \in job[k].todo : P[n].ts_close = None \/ P[n].ts_close >= job[k].now
          /\ DueFits(k)
    BY DEF BookInv, JobsFit
  <2>3. ASSUME NEW k \in Jobs PROVE DueFits(k)'
    <3>1. CASE k = j
      BY <2>1, <3>1 DEF DueFits
    <3>2. CASE k # j
      <4>1. job'[k] = job[k] /\ DueFits(k)
        BY <2>1, <2>2, <3>2
      <4>2. \A n, x : LastOf(B, <<n, k>>, x) = LastOf(A, <<n, k>>, x)
        BY <1>14, <3>2 DEF key
      <4> QED
        BY <1>20, <4>1, <4>2 DEF DueFits
    <3> QED
      BY <3>1, <3>2
  <2>4. ASSUME NEW k \in Jobs
        PROVE  /\ DOMAIN job'[k] = {"at", "now", "todo", "due"} /\ job'[k].now \in Nat /\ job'[k].now <= now
               /\ job'[k].todo \subseteq DOMAIN P
               /\ \A n \in job'[k].todo : P[n].ts_close = None \/ P[n].ts_close >= job'[k].now
    <3>1. CASE k = j
      BY <1>3, <2>1, <3>1
    <3>2. CASE k # j
      BY <2>1, <2>2, <3>2
    <3> QED
      BY <3>1, <3>2
  <2> QED
    BY <1>1, <1>3, <1>20, <2>1, <2>3, <2>4 DEF JobsFit
<1> QED
  BY <1>1, <1>23, <1>24, <1>26, <1>27 DEF BookInv
-----------------------------------------------------------------------------
\* One table of a dump: later tables are newer, and only `positions` is last.
LEMMA DumpKeeps ==
  ASSUME BookInv, DumpTable
  PROVE  BookInv'
<1>1. /\ UNCHANGED <<now, p0, job, windows>> /\ p0.ex /\ now \in Nat
      /\ p0 \in Database /\ IsFiniteSet(p0.accruals) /\ Placed(p0, now)
      /\ Booked(p0.accruals, p0.positions) /\ Covered(p0.accruals, p0.positions, now)
  BY DEF DumpTable, ledgerVars, BookInv, Sane
<1>2. Sane(p0, now)' /\ TornIn(p0, windows)'
  BY <1>1 DEF BookInv
<1>3. JobsFit'
  BY <1>1, JobsKept
<1>4. CASE dump = NoDump
  <2> DEFINE img == [EmptyP0 EXCEPT !.accruals = p0.accruals]
  <2>1. saved' = saved /\ dump' = [at |-> 1, img |-> img, start |-> now]
    BY <1>4 DEF DumpTable, NoDump, DumpOrder, ReadTable
  <2>2. img \in Database /\ img.ex /\ img.accruals = p0.accruals
    <3>1. p0.accruals \in SUBSET Accrual
      BY <1>1, DatabaseShape
    <3> QED
      BY <3>1, EmptyShape DEF Database
  <2> HIDE DEF img
  <2>3. DumpFits'
    BY <1>1, <2>1, <2>2 DEF DumpFits
  <2>4. SavedFit'
    BY <1>1, <2>1, SavedKept
  <2> QED
    BY <1>1, <1>2, <1>3, <2>3, <2>4 DEF BookInv
<1>5. CASE dump # NoDump
  <2>1. /\ dump.at \in {1, 2}
        /\ DOMAIN dump = {"at", "img", "start"} /\ dump.start \in Nat /\ dump.start <= now
        /\ dump.img \in Database /\ dump.img.ex
        /\ dump.img.accruals \subseteq p0.accruals /\ Booked(dump.img.accruals, p0.positions)
        /\ dump.at = 2 =>
             /\ dump.img.fills \subseteq p0.fills
             /\ \A i \in DOMAIN p0.positions :
                  i \in dump.img.fills \/ i \notin p0.fills \/ p0.positions[i].ts_open >= dump.start
    BY <1>5 DEF BookInv, DumpFits
  <2>2. CASE dump.at = 1
    <3> DEFINE img == [dump.img EXCEPT !.fills = p0.fills]
    <3>1. saved' = saved /\ dump' = [at |-> 2, img |-> img, start |-> dump.start]
      BY <2>2 DEF DumpTable, DumpOrder, ReadTable
    <3>2. img \in Database /\ img.ex /\ img.accruals = dump.img.accruals /\ img.fills = p0.fills
      <4>1. p0.fills \in SUBSET Nat
        BY <1>1, DatabaseShape
      <4> QED
        BY <2>1, <4>1 DEF Database
    <3> HIDE DEF img
    <3>3. DumpFits'
      BY <1>1, <2>1, <3>1, <3>2 DEF DumpFits
    <3>4. SavedFit'
      BY <1>1, <3>1, SavedKept
    <3> QED
      BY <1>1, <1>2, <1>3, <3>3, <3>4 DEF BookInv
  <2>3. CASE dump.at = 2
    <3> DEFINE img == [dump.img EXCEPT !.positions = p0.positions]
               ran == windows \cup {<<dump.start, now>>}
    <3>1. saved' = {[db |-> img, ran |-> ran]} /\ dump' = NoDump
      BY <2>3 DEF DumpTable, DumpOrder, ReadTable
    <3>2. /\ img \in Database /\ img.ex /\ img.accruals = dump.img.accruals /\ img.fills = dump.img.fills
          /\ img.positions = p0.positions
      <4>1. p0.positions \in Seq(Entry)
        BY <1>1, DatabaseShape
      <4> QED
        BY <2>1, <4>1 DEF Database
    <3> HIDE DEF img
    <3>3. p0.accruals \in SUBSET Accrual /\ IsFiniteSet(img.accruals) /\ img.accruals \in SUBSET Accrual
      <4>1. p0.accruals \in SUBSET Accrual
        BY <1>1, DatabaseShape
      <4> QED
        BY <1>1, <2>1, <3>2, <4>1, FS_Subset
    <3>4. Covered(img.accruals, img.positions, now)
      <4> SUFFICES ASSUME NEW i \in DOMAIN p0.positions, NEW j \in Jobs
                   PROVE  HoursOf(img.accruals, <<i, j>>)
                            <= Until(p0.positions[i], now) - p0.positions[i].ts_open
        BY <3>2 DEF Covered
      <4> DEFINE k == <<i, j>>
      <4> HIDE DEF k
      <4>1. HoursOf(img.accruals, k) <= HoursOf(p0.accruals, k)
        BY <1>1, <2>1, <3>2, <3>3, FewerHours
      <4>2. HoursOf(img.accruals, k) \in Nat /\ HoursOf(p0.accruals, k) \in Nat
        BY <1>1, <3>3, HoursType
      <4>3. p0.positions[i].ts_open \in Nat /\ Until(p0.positions[i], now) \in Int
        BY <1>1, DatabaseShape DEF Until
      <4>4. HoursOf(p0.accruals, k) <= Until(p0.positions[i], now) - p0.positions[i].ts_open
        BY <1>1 DEF Covered, k
      <4>5. HoursOf(img.accruals, k) <= Until(p0.positions[i], now) - p0.positions[i].ts_open
        BY <4>1, <4>2, <4>3, <4>4
      <4> QED
        BY <4>5 DEF k
    <3>5. Placed(img, now)
      BY <1>1, <2>1, <2>3, <3>2 DEF Placed
    <3>6. Sane(img, now)
      BY <2>1, <3>2, <3>3, <3>4, <3>5 DEF Sane
    <3>7. TornIn(img, ran)
      <4> SUFFICES ASSUME NEW i \in DOMAIN p0.positions, i \notin img.fills
                   PROVE  \E w \in ran : p0.positions[i].ts_open \in w[1]..w[2]
        BY <3>2 DEF TornIn
      <4>1. CASE i \notin p0.fills
        BY <4>1 DEF BookInv, TornIn
      <4>2. CASE i \in p0.fills
        <5>1. p0.positions[i].ts_open \in Nat /\ p0.positions[i].ts_open <= now
          BY <1>1, DatabaseShape DEF Placed
        <5>2. p0.positions[i].ts_open \in dump.start..now
          BY <1>1, <2>1, <2>3, <3>2, <4>2, <5>1
        <5>3. <<dump.start, now>> \in ran /\ <<dump.start, now>>[1] = dump.start /\ <<dump.start, now>>[2] = now
          OBVIOUS
        <5> QED
          BY <5>2, <5>3
      <4> QED
        BY <4>1, <4>2
    <3>8. SavedFit'
      BY <1>1, <3>1, <3>2, <3>6, <3>7 DEF SavedFit
    <3>9. DumpFits'
      BY <3>1 DEF DumpFits
    <3> QED
      BY <1>1, <1>2, <1>3, <3>8, <3>9 DEF BookInv
  <2> QED
    BY <2>1, <2>2, <2>3
<1> QED
  BY <1>4, <1>5

LEMMA WipeKeeps ==
  ASSUME BookInv, Wipe
  PROVE  BookInv'
<1>1. /\ p0' = [EmptyP0 EXCEPT !.ex = FALSE] /\ job' = [j \in Jobs |-> Idle]
      /\ dump' = NoDump /\ windows' = {} /\ UNCHANGED <<now, saved>> /\ now \in Nat
  BY DEF Wipe, BookInv
<1>2. p0' \in Database /\ p0'.positions = <<>> /\ p0'.accruals = {} /\ p0'.fills = {}
  BY <1>1, EmptyShape DEF Database
<1>3. Sane(p0, now)' /\ TornIn(p0, windows)'
  BY <1>2, EmptyIsSane
<1>4. JobsFit'
  BY <1>1 DEF JobsFit, DueFits, Idle
<1>5. SavedFit' /\ DumpFits'
  BY <1>1, SavedKept DEF DumpFits
<1> QED
  BY <1>1, <1>3, <1>4, <1>5 DEF BookInv

LEMMA RestoreKeeps ==
  ASSUME BookInv, restore
  PROVE  BookInv'
<1>1. ~p0.ex /\ UNCHANGED <<now, job, dump, saved>> /\ now \in Nat
  BY DEF restore, BookInv
<1>2. PICK s \in saved : p0' = s.db /\ windows' = s.ran
  BY DEF restore
<1>3. Sane(p0, now)' /\ TornIn(p0, windows)' /\ p0'.ex
  BY <1>1, <1>2 DEF BookInv, SavedFit
<1>4. JobsFit'
  BY <1>1, <1>3 DEF BookInv, JobsFit, DueFits
<1>5. SavedFit'
  BY <1>1, SavedKept
<1>6. DumpFits'
  BY <1>1 DEF BookInv, DumpFits
<1> QED
  BY <1>1, <1>3, <1>4, <1>5, <1>6 DEF BookInv
-----------------------------------------------------------------------------
LEMMA BookStep ==
  ASSUME BookInv, [BookNext]_bookVars
  PROVE  BookInv'
<1>1. CASE LedgerNext /\ UNCHANGED backupVars
  BY <1>1, OpenStartKeeps, QuietSteps, VerdictKeeps, CloseKeeps, JobStartKeeps, ReadKeeps,
     JobInsertKeeps, JobEndKeeps
     DEF LedgerNext
<1>2. CASE DumpTable
  BY <1>2, DumpKeeps
<1>3. CASE Wipe
  BY <1>3, WipeKeeps
<1>4. CASE restore
  BY <1>4, RestoreKeeps
<1>5. CASE UNCHANGED bookVars
  <2>1. UNCHANGED <<now, p0, job>> /\ UNCHANGED backupVars
    BY <1>5 DEF bookVars, backupVars
  <2> QED
    BY <2>1, QuietSteps
<1> QED
  BY <1>1, <1>2, <1>3, <1>4, <1>5 DEF BookNext

\* The inductive invariant of the paper book, its dumps and its restores.
THEOREM BookInvariant == BookSpec => []BookInv
<1>1. BookInit => BookInv
  BY BookInitially
<1>2. BookInv /\ [BookNext]_bookVars => BookInv'
  BY BookStep
<1> QED
  BY <1>1, <1>2, PTL DEF BookSpec

\* What several jobs have booked for a position is at most so many times what one
\* may book.
LEMMA TogetherAtMost ==
  ASSUME NEW A \in SUBSET Accrual, IsFiniteSet(A), NEW i, NEW most \in Nat,
         \A j \in Jobs : HoursOf(A, <<i, j>>) <= most, NEW S, S = {a \in A : a.pos = i}
  PROVE  HoursIn(S) <= Cardinality(Jobs) * most
<1> DEFINE w == [a \in A |-> a.hours]
           R(V) == {a \in A : a.pos = i /\ a.by \in V}
           Good == {V \in SUBSET Jobs : Total(w, R(V)) <= Cardinality(V) * most}
<1>1. \A a \in A : w[a] = a.hours /\ w[a] \in Nat
  BY DEF Accrual
<1>2. IsFiniteSet(Jobs)
  BY LedgerBounds
<1>3. \A V : IsFiniteSet(R(V)) /\ R(V) \subseteq A
  <2>1. \A V : R(V) \subseteq A
    OBVIOUS
  <2> QED
    BY <2>1, FS_Subset
<1>4. \A j \in Jobs : R({j}) = RowsOf(A, <<i, j>>)
  BY DEF RowsOf, Key
<1>5. \A V, j : R(V) = R(V \ {j}) \cup R({j} \cap V) /\ R(V \ {j}) \cap R({j} \cap V) = {}
  OBVIOUS
<1>6. R({}) = {} /\ R(Jobs) = S
  BY DEF Accrual
<1> HIDE DEF R, w
<1>7. ASSUME NEW j \in Jobs
      PROVE  Total(w, R({j})) <= most /\ Total(w, R({j})) \in Nat
  <2>1. HoursIn(R({j})) = Total(w, R({j}))
    BY <1>1, <1>3, HoursIsTotal
  <2>2. HoursOf(A, <<i, j>>) = HoursIn(R({j}))
    BY <1>4 DEF HoursOf
  <2>3. Total(w, R({j})) \in Nat
    BY <1>1, <1>3, TotalType
  <2> QED
    BY <2>1, <2>2, <2>3
<1>8. ASSUME NEW V \in SUBSET Jobs, \A U \in SUBSET V : U # V => U \in Good
      PROVE  V \in Good
  <2>1. CASE V = {}
    <3>1. Total(w, R(V)) = 0 /\ Cardinality(V) = 0
      BY <1>6, <2>1, TotalOfNothing, FS_EmptySet
    <3>2. 0 <= 0 * most
      OBVIOUS
    <3> QED
      BY <3>1, <3>2
  <2>2. CASE V # {}
    <3>1. PICK j \in V : TRUE
      BY <2>2
    <3> DEFINE U == V \ {j}
    <3>2. U \in SUBSET V /\ U # V /\ V = U \cup {j} /\ j \notin U /\ {j} \cap V = {j}
      BY <3>1
    <3>3. IsFiniteSet(V) /\ IsFiniteSet(U)
      BY <1>2, FS_Subset
    <3>4. Cardinality(V) = Cardinality(U) + 1 /\ Cardinality(U) \in Nat
      BY <3>2, <3>3, FS_AddElement, FS_CardinalityType
    <3>5. Total(w, R(U)) <= Cardinality(U) * most
      BY <1>8, <3>2
    <3>6. R(V) = R(U) \cup R({j}) /\ R(U) \cap R({j}) = {}
      BY <1>5, <3>2
    <3> HIDE DEF U, Good
    <3>7. Total(w, R(V)) = Total(w, R(U)) + Total(w, R({j}))
      <4>1. \A x \in R(U) \cup R({j}) : w[x] \in Int
        BY <1>1, <1>3
      <4> DEFINE X == R(U)
                 Y == R({j})
      <4>2. IsFiniteSet(X) /\ IsFiniteSet(Y) /\ X \cap Y = {} /\ \A x \in X \cup Y : w[x] \in Int
        BY <1>3, <3>6, <4>1
      <4> HIDE DEF X, Y
      <4>3. Total(w, X \cup Y) = Total(w, X) + Total(w, Y)
        BY <4>2, TotalOfUnion
      <4> QED
        BY <3>6, <4>3 DEF X, Y
    <3>8. Total(w, R(U)) \in Nat
      BY <1>1, <1>3, TotalType
    <3>9. Total(w, R({j})) <= most /\ Total(w, R({j})) \in Nat
      BY <1>7, <3>1
    <3> DEFINE c == Cardinality(U)
               x == Total(w, R(U))
               y == Total(w, R({j}))
    <3>10. c \in Nat /\ x \in Nat /\ y \in Nat /\ x <= c * most /\ y <= most
      BY <3>4, <3>5, <3>8, <3>9
    <3>11. Total(w, R(V)) = x + y /\ Cardinality(V) = c + 1
      BY <3>4, <3>7
    <3> HIDE DEF c, x, y
    <3>12. (c + 1) * most = c * most + most /\ c * most \in Nat
      BY <3>10
    <3>13. x + y <= (c + 1) * most
      BY <3>10, <3>12
    <3> QED
      BY <3>11, <3>13 DEF Good
  <2> QED
    BY <2>1, <2>2
<1>9. SUBSET Jobs \subseteq Good
  <2> HIDE DEF Good
  <2> QED
    BY <1>2, <1>8, SubsetInduction
<1>10. Jobs \in Good
  BY <1>9
<1>11. HoursIn(R(Jobs)) = Total(w, R(Jobs))
  BY <1>1, <1>3, HoursIsTotal
<1> QED
  BY <1>6, <1>10, <1>11

\* However many jobs run together, late, after a close or after a restore, a position
\* is never booked more hours of carry than each job could have seen (drift_job.py).
THEOREM CarryIsEarned == BookSpec => []CarryWithinHolding
<1>1. BookInv => CarryWithinHolding
  <2> SUFFICES ASSUME BookInv, NEW i \in DOMAIN p0.positions
               PROVE  HoursAccrued(i) <= Cardinality(Jobs) * (EndOf(i) - p0.positions[i].ts_open)
    BY DEF CarryWithinHolding, PosIds
  <2> DEFINE A == p0.accruals
             most == EndOf(i) - p0.positions[i].ts_open
  <2>1. /\ now \in Nat /\ p0 \in Database /\ IsFiniteSet(A) /\ A \in SUBSET Accrual
        /\ p0.positions[i].ts_open \in Nat /\ p0.positions[i].ts_open <= now
        /\ p0.positions[i].ts_close = None \/ p0.positions[i].ts_close \in Nat
        /\ Covered(A, p0.positions, now)
    BY DatabaseShape DEF BookInv, Sane, Placed
  <2>2. \A j \in Jobs : HoursOf(A, <<i, j>>) <= most
    BY <2>1 DEF Covered, Until, EndOf
  <2>3. HoursAccrued(i) = HoursIn({a \in A : a.pos = i})
    BY DEF HoursAccrued, HoursIn, AccrualsOf
  <2>4. most \in Int
    BY <2>1 DEF EndOf, None
  <2>5. CASE Jobs = {}
    <3>1. A = {}
      BY <2>1, <2>5 DEF Accrual
    <3>2. HoursIn({a \in A : a.pos = i}) = Total([a \in A |-> 0], {a \in A : a.pos = i})
      BY <3>1, FS_EmptySet, HoursIsTotal
    <3>3. {a \in A : a.pos = i} = {}
      BY <3>1
    <3> QED
      <4>1. HoursAccrued(i) = 0 /\ Cardinality(Jobs) = 0
        BY <2>3, <2>5, <3>2, <3>3, TotalOfNothing, FS_EmptySet
      <4> HIDE DEF most
      <4>2. 0 * most = 0
        BY <2>4
      <4> QED
        BY <4>1, <4>2 DEF most
  <2>6. CASE Jobs # {}
    <3>1. most >= 0
      <4>1. PICK j \in Jobs : TRUE
        BY <2>6
      <4>2. HoursOf(A, <<i, j>>) \in Nat /\ HoursOf(A, <<i, j>>) <= most
        BY <2>1, <2>2, <4>1, HoursType
      <4> QED
        BY <2>4, <4>2
    <3> HIDE DEF A, most
    <3> DEFINE S == {a \in A : a.pos = i}
    <3>2. most \in Nat /\ S = {a \in A : a.pos = i}
      BY <2>4, <3>1
    <3> HIDE DEF S
    <3>3. HoursIn(S) <= Cardinality(Jobs) * most
      BY <2>1, <2>2, <3>2, TogetherAtMost
    <3> QED
      BY <2>3, <3>2, <3>3 DEF most
  <2> QED
    BY <2>5, <2>6
<1> QED
  BY <1>1, BookInvariant, PTL

\* In the live file and in every restored one rows have their positions, and a position
\* without fills was opened while a dump ran (db_backup.py:45).
THEOREM RowsBelong == BookSpec => []TablesBelongTogether
<1>1. BookInv => TablesBelongTogether
  BY DEF BookInv, Sane, Placed, TornIn, TablesBelongTogether, RowsHaveTheirPosition, TornOnlyByDump, PosIds
<1> QED
  BY <1>1, BookInvariant, PTL

-----------------------------------------------------------------------------
(* The trickle and v3.db.                                                   *)
Row == [pos : Positions, ts : Nat]

\* How often row r is booked in the log L.
Times(L, r) == {k \in DOMAIN L : L[k] = r}
Bookings(L, r) == Cardinality(Times(L, r))

LEMMA SetAsSequence ==
  ASSUME NEW S, IsFiniteSet(S)
  PROVE  SetToSeq(S) \in Seq(S) /\ IsInjective(SetToSeq(S))
<1> DEFINE D == 1..Cardinality(S)
<1>1. Cardinality(S) \in Nat /\ ExistsBijection(D, S)
  BY FS_CardinalityType
<1>2. \E f \in [D -> S] : IsInjective(f)
  <2> HIDE DEF D
  <2> QED
    BY <1>1 DEF ExistsBijection, Bijection, Injection
<1>3. SetToSeq(S) \in [D -> S] /\ IsInjective(SetToSeq(S))
  <2>1. SetToSeq(S) = CHOOSE f \in [D -> S] : IsInjective(f)
    BY DEF SetToSeq
  <2> HIDE DEF D
  <2> QED
    BY <1>2, <2>1
<1>4. SetToSeq(S) \in Seq(S)
  <2> DEFINE f == SetToSeq(S)
  <2>1. f \in [D -> S]
    BY <1>3
  <2> HIDE DEF f
  <2>2. f \in Seq(S)
    BY <1>1, <2>1
  <2> QED
    BY <2>2 DEF f
<1> QED
  BY <1>3, <1>4

LEMMA TimesAreFinite ==
  ASSUME NEW L \in Seq(Row), NEW r
  PROVE  IsFiniteSet(Times(L, r)) /\ Bookings(L, r) \in Nat
<1> DEFINE D == 1..Len(L)
<1>1. DOMAIN L = D /\ Len(L) \in Nat /\ IsFiniteSet(D)
  BY FS_Interval
<1>2. Times(L, r) \subseteq D
  BY <1>1 DEF Times
<1> HIDE DEF D
<1> QED
  BY <1>1, <1>2, FS_Subset, FS_CardinalityType DEF Bookings

\* A batch of different rows books each of them at most once more.
LEMMA OneBatch ==
  ASSUME NEW L \in Seq(Row), NEW S \in SUBSET Row, IsFiniteSet(S), NEW r
  PROVE  LET M == L \o SetToSeq(S)
         IN  /\ M \in Seq(Row)
             /\ Bookings(M, r) <= Bookings(L, r) + 1
             /\ r \notin S => Bookings(M, r) = Bookings(L, r)
<1> DEFINE Q == SetToSeq(S)
           M == L \o Q
           n == Len(L)
<1>1. Q \in Seq(S) /\ IsInjective(Q)
  BY SetAsSequence
<1> HIDE DEF Q
<1>2. /\ n \in Nat /\ Len(Q) \in Nat /\ M \in Seq(Row) /\ DOMAIN M = 1..(n + Len(Q))
      /\ DOMAIN L = 1..n /\ DOMAIN Q = 1..Len(Q)
      /\ \A k \in 1..n : M[k] = L[k]
      /\ \A k \in 1..Len(Q) : M[n + k] = Q[k] /\ Q[k] \in S
  BY <1>1
<1> HIDE DEF M, n
<1>3. \A k \in DOMAIN M : k \in 1..n \/ \E j \in 1..Len(Q) : k = n + j
  <2> SUFFICES ASSUME NEW k \in 1..(n + Len(Q)), k \notin 1..n PROVE \E j \in 1..Len(Q) : k = n + j
    BY <1>2
  <2>1. (k - n) \in 1..Len(Q) /\ k = n + (k - n)
    BY <1>2
  <2> QED
    BY <2>1
<1>4. Times(L, r) \subseteq Times(M, r)
  BY <1>2 DEF Times
<1> DEFINE T == Times(L, r)
<1>5. IsFiniteSet(T) /\ Cardinality(T) \in Nat
  BY TimesAreFinite DEF Bookings
<1>6. CASE \E j \in 1..Len(Q) : Q[j] = r
  <2>1. PICK j \in 1..Len(Q) : Q[j] = r
    BY <1>6
  <2>2. \A i \in 1..Len(Q) : Q[i] = r => i = j
    BY <1>1, <1>2, <2>1 DEF IsInjective
  <2>3. Times(M, r) \subseteq T \cup {n + j}
    <3> SUFFICES ASSUME NEW k \in DOMAIN M, M[k] = r PROVE k \in T \/ k = n + j
      BY DEF Times
    <3>1. CASE k \in 1..n
      BY <1>2, <3>1 DEF Times
    <3>2. CASE k \notin 1..n
      <4>1. PICK i \in 1..Len(Q) : k = n + i
        BY <1>3, <3>2
      <4> QED
        BY <1>2, <2>2, <4>1
    <3> QED
      BY <3>1, <3>2
  <2>4. n + j \in Times(M, r)
    BY <1>2, <2>1 DEF Times
  <2>5. Times(M, r) = T \cup {n + j}
    BY <1>4, <2>3, <2>4
  <2> DEFINE x == n + j
  <2> HIDE DEF T, x
  <2>6. Cardinality(T \cup {x}) <= Cardinality(T) + 1
    BY <1>5, OneMore
  <2>7. r \in S
    BY <1>2, <2>1
  <2> QED
    BY <1>2, <2>5, <2>6, <2>7 DEF Bookings, T, x, M, Q
<1>7. CASE ~\E j \in 1..Len(Q) : Q[j] = r
  <2>1. Times(M, r) = T
    BY <1>2, <1>3, <1>4, <1>7 DEF Times
  <2>2. Bookings(M, r) = Bookings(L, r) /\ Bookings(L, r) \in Nat
    BY <1>5, <2>1 DEF Bookings
  <2> QED
    BY <1>2, <2>2 DEF M, Q
<1> QED
  BY <1>6, <1>7
-----------------------------------------------------------------------------
File(d) ==
  /\ DOMAIN d = {"ex", "kv", "pnl_log", "repaired"} /\ d.ex \in BOOLEAN
  /\ d.kv \in Nat \cup {Never} /\ d.pnl_log \in Seq(Row)

\* No row is booked more than n times.
AtMost(L, n) == \A r \in Row : Bookings(L, r) <= n

\* An hour the trickle may still write in the live file.
Writable(t) == t > v3.kv \/ t = trickling

TrickleInv ==
  /\ atHour \in Nat /\ trickling \in Nat \cup {Never} /\ used.restores \in Nat
  /\ DOMAIN used = {"dumps", "restores", "losses"} /\ DOMAIN copying = {"at", "img"}
  /\ held \subseteq Positions
  /\ File(v3) /\ (trickling # Never => v3.ex /\ v3.kv = trickling)
  /\ copying.at \in 0..2 /\ File(copying.img) /\ copying.img.pnl_log = <<>> /\ copying.img.ex
  /\ AtMost(v3.pnl_log, 1 + used.restores)
  /\ \A r \in Row : Writable(r.ts) => Bookings(v3.pnl_log, r) <= used.restores
  /\ \A d \in dumped : File(d) /\ d.ex /\ AtMost(d.pnl_log, 1 + used.restores)

LEMMA EmptyLog ==
  /\ File(EmptyV3) /\ EmptyV3.ex /\ EmptyV3.kv = Never /\ EmptyV3.pnl_log = <<>>
  /\ \A r \in Row : Bookings(<<>>, r) = 0
<1>1. <<>> \in Seq(Row) /\ \A r : Times(<<>>, r) = {}
  BY DEF Times
<1>2. \A r \in Row : Bookings(<<>>, r) = 0
  BY <1>1, FS_EmptySet DEF Bookings
<1> QED
  BY <1>1, <1>2 DEF File, EmptyV3

LEMMA TrickleInitially == TrickleInit => TrickleInv
<1> SUFFICES ASSUME TrickleInit PROVE TrickleInv
  OBVIOUS
<1>1. /\ atHour = 0 /\ held = {} /\ v3 = EmptyV3 /\ trickling = Never /\ dumped = {}
      /\ copying.at = 0 /\ copying.img = EmptyV3 /\ DOMAIN copying = {"at", "img"}
      /\ used.restores = 0 /\ DOMAIN used = {"dumps", "restores", "losses"}
  BY DEF TrickleInit, NoCopy
<1> QED
  BY <1>1, EmptyLog DEF TrickleInv, AtMost

\* A new stamp is later than every earlier one of the file.
LEMMA StampKeeps ==
  ASSUME TrickleInv, TrickleStamp
  PROVE  TrickleInv'
<1> DEFINE c == Connected
<1>1. /\ trickling' = atHour /\ v3' = [c EXCEPT !.kv = atHour]
      /\ UNCHANGED <<atHour, held, copying, dumped, used>> /\ atHour \in Nat
      /\ c.kv = Never \/ atHour - c.kv >= 1
  BY DEF TrickleStamp, Due, TrickleInv
<1>2. File(c) /\ c.ex
  BY EmptyLog DEF Connected, TrickleInv
<1>3. /\ AtMost(c.pnl_log, 1 + used.restores)
      /\ \A r \in Row : r.ts > c.kv => Bookings(c.pnl_log, r) <= used.restores
  BY EmptyLog DEF Connected, TrickleInv, AtMost, Writable
<1> HIDE DEF c
<1>4. File(v3') /\ v3'.ex /\ v3'.kv = atHour /\ v3'.pnl_log = c.pnl_log
  BY <1>1, <1>2 DEF File
<1>5. \A r \in Row : r.ts \in Nat
  BY DEF Row
<1>6. c.kv \in Nat \cup {Never}
  BY <1>2 DEF File
<1>7. \A r \in Row : Writable(r.ts)' => Bookings(v3'.pnl_log, r) <= used.restores
  BY <1>1, <1>3, <1>4, <1>5, <1>6 DEF Writable, Never
<1> QED
  BY <1>1, <1>3, <1>4, <1>7 DEF TrickleInv

\* The rows of the stamped hour, which no other batch of the file has written.
LEMMA RowsKeep ==
  ASSUME TrickleInv, TrickleRows
  PROVE  TrickleInv'
<1> DEFINE S == {[pos |-> p, ts |-> trickling] : p \in held}
           L == v3.pnl_log
           M == L \o SetToSeq(S)
<1>1. /\ trickling \in Nat /\ trickling # Never /\ trickling' = Never /\ v3' = [v3 EXCEPT !.pnl_log = M]
      /\ UNCHANGED <<atHour, held, copying, dumped, used>> /\ v3.kv = trickling /\ v3.ex /\ File(v3)
      /\ used.restores \in Nat /\ held \subseteq Positions
  BY DEF TrickleRows, TrickleInv
<1>2. L \in Seq(Row) /\ S \in SUBSET Row /\ \A r \in S : r.ts = trickling
  BY <1>1 DEF File, Row
<1>3. IsFiniteSet(S)
  <2> DEFINE f == [p \in held |-> [pos |-> p, ts |-> trickling]]
  <2>1. IsFiniteSet(held)
    BY <1>1, TrickleBounds, FS_Subset
  <2>2. f \in Surjection(held, S)
    BY DEF Surjection
  <2> HIDE DEF f, S
  <2> QED
    BY <2>1, <2>2, FS_Surjection
<1> HIDE DEF S
<1>4. ASSUME NEW r \in Row
      PROVE  /\ M \in Seq(Row) /\ Bookings(L, r) \in Nat /\ Bookings(M, r) \in Nat
             /\ Bookings(M, r) <= Bookings(L, r) + 1
             /\ r \notin S => Bookings(M, r) = Bookings(L, r)
  <2>1. /\ M \in Seq(Row) /\ Bookings(M, r) <= Bookings(L, r) + 1
        /\ r \notin S => Bookings(M, r) = Bookings(L, r)
    BY <1>2, <1>3, OneBatch
  <2> HIDE DEF M, L
  <2> QED
    BY <1>2, <2>1, TimesAreFinite
<1>5. M \in Seq(Row)
  BY <1>2, <1>3, OneBatch
<1> HIDE DEF M
<1>6. File(v3') /\ v3'.ex /\ v3'.kv = trickling /\ v3'.pnl_log = M
  BY <1>1, <1>5 DEF File
<1>7. \A r \in Row : r.ts \in Nat
  BY DEF Row
<1>8. \A r \in Row : Bookings(L, r) <= 1 + used.restores /\ (Writable(r.ts) => Bookings(L, r) <= used.restores)
  BY DEF TrickleInv, AtMost
<1>9. AtMost(M, 1 + used.restores)
  <2> SUFFICES ASSUME NEW r \in Row PROVE Bookings(M, r) <= 1 + used.restores
    BY DEF AtMost
  <2>1. CASE r \in S
    <3>1. Writable(r.ts)
      BY <1>1, <1>2, <2>1 DEF Writable
    <3>2. Bookings(L, r) <= used.restores
      BY <1>8, <3>1
    <3>3. Bookings(M, r) <= Bookings(L, r) + 1 /\ Bookings(M, r) \in Nat /\ Bookings(L, r) \in Nat
      BY <1>4
    <3> QED
      BY <1>1, <3>2, <3>3
  <2>2. CASE r \notin S
    BY <1>4, <1>8, <2>2
  <2> QED
    BY <2>1, <2>2
<1>10. \A r \in Row : Writable(r.ts)' => Bookings(M, r) <= used.restores
  <2> SUFFICES ASSUME NEW r \in Row, Writable(r.ts)' PROVE Bookings(M, r) <= used.restores
    OBVIOUS
  <2>1. r.ts > trickling
    BY <1>1, <1>6, <1>7 DEF Writable, Never
  <2>2. r \notin S /\ Writable(r.ts)
    BY <1>1, <1>2, <1>7, <2>1 DEF Writable
  <2> QED
    BY <1>4, <1>8, <2>2
<1> QED
  BY <1>1, <1>6, <1>9, <1>10 DEF TrickleInv

\* The rows are the last table of a dump, so it holds them as the file does.
LEMMA CopyKeeps ==
  ASSUME TrickleInv, dump_state
  PROVE  TrickleInv'
<1> DEFINE n == copying.at + 1
           img == ReadV3(TableOrder[n])
<1>1. /\ UNCHANGED <<atHour, held, v3, trickling>> /\ v3.ex /\ n \in 1..3
      /\ used'.restores = used.restores /\ DOMAIN used' = DOMAIN used
      /\ IF n = 3 THEN dumped' = {img} /\ copying' = NoCopy
                  ELSE dumped' = dumped /\ copying' = [at |-> n, img |-> img]
  BY DEF dump_state, TrickleInv, TableOrder
<1>2. File(v3) /\ File(copying.img) /\ copying.img.ex /\ copying.img.pnl_log = <<>>
  BY DEF TrickleInv
<1>3. CASE n = 3
  <2>1. img = [copying.img EXCEPT !.pnl_log = v3.pnl_log]
    BY <1>3 DEF ReadV3, TableOrder
  <2>2. File(img) /\ img.ex /\ img.pnl_log = v3.pnl_log
    BY <1>2, <2>1 DEF File
  <2> HIDE DEF img
  <2>3. /\ DOMAIN copying' = {"at", "img"} /\ copying'.at = 0 /\ copying'.img = EmptyV3
        /\ dumped' = {img}
    BY <1>1, <1>3 DEF NoCopy
  <2>4. \A r \in Row : Writable(r.ts)' <=> Writable(r.ts)
    BY <1>1 DEF Writable
  <2> QED
    BY <1>1, <2>2, <2>3, <2>4, EmptyLog DEF TrickleInv
<1>4. CASE n # 3
  <2>1. img = [copying.img EXCEPT !.repaired = v3.repaired] \/ img = [copying.img EXCEPT !.kv = v3.kv]
    BY <1>1, <1>4 DEF ReadV3, TableOrder
  <2>2. File(img) /\ img.ex /\ img.pnl_log = <<>>
    BY <1>2, <2>1 DEF File
  <2> HIDE DEF img
  <2>3. /\ DOMAIN copying' = {"at", "img"} /\ copying'.at \in 0..2 /\ copying'.img = img
        /\ dumped' = dumped
    BY <1>1, <1>4
  <2>4. \A r \in Row : Writable(r.ts)' <=> Writable(r.ts)
    BY <1>1 DEF Writable
  <2> QED
    BY <1>1, <2>2, <2>3, <2>4 DEF TrickleInv
<1> QED
  BY <1>3, <1>4

LEMMA RollbackKeeps ==
  ASSUME TrickleInv, Rollback
  PROVE  TrickleInv'
<1>1. /\ UNCHANGED <<atHour, held, dumped>> /\ trickling' = Never /\ copying' = NoCopy
      /\ used'.restores = used.restores /\ DOMAIN used' = DOMAIN used
      /\ v3' = [EmptyV3 EXCEPT !.ex = FALSE]
  BY DEF Rollback, TrickleInv
<1>2. File(v3') /\ v3'.pnl_log = <<>>
  BY <1>1, EmptyLog DEF File
<1>3. DOMAIN copying' = {"at", "img"} /\ copying'.at = 0 /\ copying'.img = EmptyV3
  BY <1>1 DEF NoCopy
<1> QED
  BY <1>1, <1>2, <1>3, EmptyLog DEF TrickleInv, AtMost

\* A restore and a merge put a dump in place; either may let an hour be booked again.
LEMMA ReplaceKeeps ==
  ASSUME TrickleInv, restoreV3 \/ merge
  PROVE  TrickleInv'
<1>1. /\ v3' \in dumped /\ UNCHANGED <<atHour, held, copying, dumped>>
      /\ used' = [used EXCEPT !.restores = @ + 1]
      /\ trickling' = Never
  BY DEF restoreV3, merge, TrickleInv
<1>2. DOMAIN used' = DOMAIN used /\ used'.restores = used.restores + 1 /\ used.restores \in Nat
  BY <1>1 DEF TrickleInv
<1>3. File(v3') /\ AtMost(v3'.pnl_log, 1 + used.restores)
  BY <1>1 DEF TrickleInv
<1>4. \A d \in dumped \cup {v3'} : AtMost(d.pnl_log, 1 + used'.restores)
  <2> SUFFICES ASSUME NEW d \in dumped, NEW r \in Row PROVE Bookings(d.pnl_log, r) <= 1 + used'.restores
    BY <1>1 DEF AtMost
  <2>1. d.pnl_log \in Seq(Row) /\ Bookings(d.pnl_log, r) <= 1 + used.restores
    BY DEF TrickleInv, AtMost, File
  <2>2. Bookings(d.pnl_log, r) \in Nat
    BY <2>1, TimesAreFinite
  <2> QED
    BY <1>2, <2>1, <2>2
<1>5. \A r \in Row : Bookings(v3'.pnl_log, r) <= used'.restores
  BY <1>2, <1>3 DEF AtMost
<1> QED
  BY <1>1, <1>2, <1>3, <1>4, <1>5 DEF TrickleInv

LEMMA LogOthersKeep ==
  ASSUME TrickleInv, recover \/ BooksChange \/ AnHour \/ UNCHANGED trickleVars
  PROVE  TrickleInv'
<1>1. /\ UNCHANGED <<trickling, copying, dumped, used>> /\ atHour' \in Nat /\ held' \subseteq Positions
      /\ v3' = v3 \/ v3' = [v3 EXCEPT !.repaired = TRUE]
  BY DEF recover, BooksChange, AnHour, trickleVars, TrickleInv
<1>2. File(v3') /\ v3'.ex = v3.ex /\ v3'.kv = v3.kv /\ v3'.pnl_log = v3.pnl_log
  BY <1>1 DEF TrickleInv, File
<1>3. \A r \in Row : Writable(r.ts)' <=> Writable(r.ts)
  BY <1>1, <1>2 DEF Writable
<1> QED
  BY <1>1, <1>2, <1>3 DEF TrickleInv
-----------------------------------------------------------------------------
\* The inductive invariant of the trickle, its dumps and its restores.
THEOREM TrickleInvariant == TrickleSpec => []TrickleInv
<1>1. TrickleInit => TrickleInv
  BY TrickleInitially
<1>2. TrickleInv /\ [TrickleNext]_trickleVars => TrickleInv'
  BY StampKeeps, RowsKeep, CopyKeeps, RollbackKeeps, ReplaceKeeps, LogOthersKeep DEF TrickleNext
<1> QED
  BY <1>1, <1>2, PTL DEF TrickleSpec

\* The trickle books an hour of a position once, and once more for every restore or merge
\* (v3_portfolio.py: the stamp is committed before the rows).
THEOREM TrickleBooksOnce == TrickleSpec => []HourBookedOnce
<1>1. TrickleInv => HourBookedOnce
  <2> SUFFICES ASSUME TrickleInv, NEW p \in Positions, NEW t \in 0..atHour
               PROVE  Bookings(v3.pnl_log, [pos |-> p, ts |-> t]) <= 1 + used.restores
    BY DEF HourBookedOnce, Bookings, Times
  <2>1. [pos |-> p, ts |-> t] \in Row
    BY DEF TrickleInv, Row
  <2> QED
    BY <2>1 DEF TrickleInv, AtMost
<1> QED
  BY <1>1, TrickleInvariant, PTL
=============================================================================
