--------------------------- MODULE HarvesterProofs ----------------------------
(***************************************************************************)
(* Harvester, for any opportunities, allocation and bounds: the two loops   *)
(* never execute one opportunity at once, and between executions the venues *)
(* hold what the books say.                                                 *)
(***************************************************************************)
EXTENDS Harvester, SumLemmas

OnceEach(s) == \A i, j \in 1..Len(s) : s[i] = s[j] => i = j

-----------------------------------------------------------------------------
\* Popping the items of D leaves the others, each once.
IsKept(g, s, D, m) ==
  g = [n \in 0..m |-> IF n = 0 THEN <<>>
                      ELSE IF s[n] \in D THEN g[n - 1] ELSE Append(g[n - 1], s[n])]

LEMMA KeptExists ==
  ASSUME NEW s, NEW D, NEW m \in Nat
  PROVE  \E g : IsKept(g, s, D, m)
<1> DEFINE Good == {n \in 0..m : \E g : IsKept(g, s, D, n)}
<1>1. 0 \in Good
  <2>1. IsKept([n \in 0..0 |-> <<>>], s, D, 0)
    BY DEF IsKept
  <2> QED
    BY <2>1
<1>2. ASSUME NEW k \in 0..(m - 1), k \in Good PROVE k + 1 \in Good
  <2>1. PICK g : IsKept(g, s, D, k)
    BY <1>2
  <2> DEFINE next == IF s[k + 1] \in D THEN g[k] ELSE Append(g[k], s[k + 1])
             h == [n \in 0..(k + 1) |-> IF n = k + 1 THEN next ELSE g[n]]
  <2>2. \A n \in 0..k : g[n] = IF n = 0 THEN <<>>
                               ELSE IF s[n] \in D THEN g[n - 1] ELSE Append(g[n - 1], s[n])
    BY <2>1 DEF IsKept
  <2>3. \A n \in 0..k : h[n] = g[n]
    OBVIOUS
  <2>4. h[k + 1] = next
    OBVIOUS
  <2> DEFINE body(n) == IF n = 0 THEN <<>> ELSE IF s[n] \in D THEN h[n - 1] ELSE Append(h[n - 1], s[n])
  <2>5. \A n \in 0..(k + 1) : h[n] = body(n)
    <3> SUFFICES ASSUME NEW n \in 0..(k + 1) PROVE h[n] = body(n)
      OBVIOUS
    <3>1. CASE n = k + 1
      BY <2>3, <2>4, <3>1
    <3>2. CASE n # k + 1
      <4>1. n \in 0..k /\ (n # 0 => n - 1 \in 0..k)
        BY <3>2
      <4> HIDE DEF h, next
      <4> QED
        BY <2>2, <2>3, <4>1
    <3> QED
      BY <3>1, <3>2
  <2>6. h = [n \in 0..(k + 1) |-> h[n]]
    OBVIOUS
  <2> HIDE DEF h
  <2>7. h = [n \in 0..(k + 1) |-> body(n)]
    BY <2>5, <2>6
  <2>8. IsKept(h, s, D, k + 1)
    BY <2>7 DEF IsKept
  <2> QED
    BY <2>8
<1>3. 0..m \subseteq Good
  <2> HIDE DEF Good
  <2> QED
    BY <1>1, <1>2, UpToInduction
<1> QED
  BY <1>3

\* t holds, once each, the items among the first n of s that are not in D.
IsRest(t, s, D, n) ==
  /\ OnceEach(t)
  /\ \A i \in 1..Len(t) : \E j \in 1..n : t[i] = s[j] /\ s[j] \notin D
  /\ \A j \in 1..n : s[j] \notin D => \E i \in 1..Len(t) : t[i] = s[j]

LEMMA RestGrows ==
  ASSUME NEW S, NEW s \in Seq(S), NEW t \in Seq(S), NEW D, NEW k \in 0..(Len(s) - 1),
         OnceEach(s), IsRest(t, s, D, k), s[k + 1] \notin D
  PROVE  Append(t, s[k + 1]) \in Seq(S) /\ IsRest(Append(t, s[k + 1]), s, D, k + 1)
<1> DEFINE u == Append(t, s[k + 1])
<1>1. k + 1 \in 1..Len(s) /\ k \in Nat /\ s[k + 1] \in S
  OBVIOUS
<1>2. /\ u \in Seq(S) /\ Len(u) = Len(t) + 1 /\ Len(t) \in Nat /\ u[Len(u)] = s[k + 1]
      /\ \A i \in 1..Len(t) : u[i] = t[i]
  BY <1>1
<1> HIDE DEF u
<1>3. \A i \in 1..Len(t) : t[i] # s[k + 1]
  BY <1>1 DEF OnceEach, IsRest
<1>4. OnceEach(u)
  <2> SUFFICES ASSUME NEW i \in 1..Len(u), NEW j \in 1..Len(u), u[i] = u[j] PROVE i = j
    BY DEF OnceEach
  <2>1. CASE i \in 1..Len(t) /\ j \in 1..Len(t)
    BY <1>2, <2>1 DEF OnceEach, IsRest
  <2>2. CASE i = Len(u) /\ j # Len(u)
    BY <1>2, <1>3, <2>2
  <2>3. CASE i # Len(u) /\ j = Len(u)
    BY <1>2, <1>3, <2>3
  <2> QED
    BY <1>2, <2>1, <2>2, <2>3
<1>5. ASSUME NEW i \in 1..Len(u) PROVE \E j \in 1..(k + 1) : u[i] = s[j] /\ s[j] \notin D
  <2>1. CASE i = Len(u)
    BY <1>1, <1>2, <2>1
  <2>2. CASE i # Len(u)
    <3>1. i \in 1..Len(t) /\ u[i] = t[i]
      BY <1>2, <2>2
    <3>2. PICK j \in 1..k : t[i] = s[j] /\ s[j] \notin D
      BY <3>1 DEF IsRest
    <3>3. j \in 1..(k + 1)
      BY <1>1
    <3> QED
      BY <3>1, <3>2, <3>3
  <2> QED
    BY <2>1, <2>2
<1>6. ASSUME NEW j \in 1..(k + 1), s[j] \notin D PROVE \E i \in 1..Len(u) : u[i] = s[j]
  <2>1. CASE j = k + 1
    BY <1>2, <2>1
  <2>2. CASE j # k + 1
    <3>1. j \in 1..k
      BY <1>1, <2>2
    <3>2. PICK i \in 1..Len(t) : t[i] = s[j]
      BY <1>6, <3>1 DEF IsRest
    <3>3. i \in 1..Len(u) /\ u[i] = t[i]
      BY <1>2
    <3> QED
      BY <3>2, <3>3
  <2> QED
    BY <2>1, <2>2
<1> QED
  BY <1>2, <1>4, <1>5, <1>6 DEF IsRest, u

LEMMA WithoutKeepsOthers ==
  ASSUME NEW S, NEW s \in Seq(S), OnceEach(s), NEW D
  PROVE  /\ Without(s, D) \in Seq(S) /\ OnceEach(Without(s, D))
         /\ \A o : Contains(Without(s, D), o) <=> Contains(s, o) /\ o \notin D
<1> DEFINE g == CHOOSE f : IsKept(f, s, D, Len(s))
           Good == {n \in 0..Len(s) : g[n] \in Seq(S) /\ IsRest(g[n], s, D, n)}
<1>1. IsKept(g, s, D, Len(s)) /\ Len(s) \in Nat
  BY KeptExists
<1>2. Without(s, D) = g[Len(s)]
  BY DEF Without, IsKept
<1> HIDE DEF g
<1>3. \A n \in 0..Len(s) : g[n] = IF n = 0 THEN <<>>
                                  ELSE IF s[n] \in D THEN g[n - 1] ELSE Append(g[n - 1], s[n])
  BY <1>1 DEF IsKept
<1>4. 0 \in Good
  <2>1. g[0] = <<>>
    BY <1>1, <1>3
  <2>2. <<>> \in Seq(S) /\ IsRest(<<>>, s, D, 0)
    BY DEF IsRest, OnceEach
  <2>3. g[0] \in Seq(S) /\ IsRest(g[0], s, D, 0)
    BY <2>1, <2>2
  <2> QED
    BY <1>1, <2>3
<1>5. ASSUME NEW k \in 0..(Len(s) - 1), k \in Good PROVE k + 1 \in Good
  <2>1. /\ g[k] \in Seq(S) /\ IsRest(g[k], s, D, k)
        /\ k + 1 \in 0..Len(s) /\ k + 1 # 0 /\ (k + 1) - 1 = k
    BY <1>5
  <2>2. g[k + 1] = IF s[k + 1] \in D THEN g[k] ELSE Append(g[k], s[k + 1])
    BY <1>3, <2>1
  <2>3. CASE s[k + 1] \in D
    <3>1. IsRest(g[k], s, D, k + 1)
      <4>1. \A j \in 1..(k + 1) : j \in 1..k \/ j = k + 1
        OBVIOUS
      <4>2. \A j \in 1..k : j \in 1..(k + 1)
        OBVIOUS
      <4> QED
        BY <2>1, <2>3, <4>1, <4>2 DEF IsRest
    <3> QED
      BY <2>1, <2>2, <2>3, <3>1
  <2>4. CASE s[k + 1] \notin D
    <3>1. Append(g[k], s[k + 1]) \in Seq(S) /\ IsRest(Append(g[k], s[k + 1]), s, D, k + 1)
      BY <2>1, <2>4, RestGrows
    <3> QED
      BY <2>1, <2>2, <2>4, <3>1
  <2> QED
    BY <2>3, <2>4
<1>6. 0..Len(s) \subseteq Good
  <2> HIDE DEF Good
  <2> QED
    BY <1>1, <1>4, <1>5, UpToInduction
<1>7. g[Len(s)] \in Seq(S) /\ IsRest(g[Len(s)], s, D, Len(s))
  BY <1>1, <1>6
<1> DEFINE t == g[Len(s)]
<1>8. \A o : Contains(t, o) <=> Contains(s, o) /\ o \notin D
  <2> HIDE DEF t
  <2> QED
    BY <1>7 DEF Contains, IsRest, t
<1> QED
  BY <1>2, <1>7, <1>8 DEF IsRest
-----------------------------------------------------------------------------
Execs == {"opp", "dir", "stage", "ask", "got"}

\* What the loops hold, whatever has failed: the harvester executes an opportunity
\* that is not in the books, the monitor the item its iterator has delivered.
LoopShape ==
  /\ DOMAIN ex = Loops /\ \A p \in Loops : DOMAIN ex[p] = Execs
  /\ hpc \in {"idle", "fetch", "execute"} /\ mpc \in {"idle", "visit", "execute"}
  /\ hpc = "execute" => hopp \in Opps /\ ~Tracked(hopp) /\ ex["harvest"].opp = hopp
  /\ hpc # "execute" => ex["harvest"] = None /\ hopp = "none"
  /\ mpc = "execute" => mi >= 1 /\ ex["monitor"].opp = active[mi]
  /\ mpc # "execute" => ex["monitor"] = None

\* The items already visited, the one being unwound aside.
Visited == 1..(IF mpc = "execute" THEN mi - 1 ELSE mi)

BookShape ==
  /\ active \in Seq(Opps) /\ OnceEach(active)
  /\ mi \in Nat /\ mlen \in Nat /\ mi <= mlen /\ mlen <= Len(active)
  /\ \A o \in mdrop : \E i \in Visited : active[i] = o
  /\ mpc = "idle" => mi = 0 /\ mlen = 0
  /\ DOMAIN held = Opps /\ \A o \in Opps : DOMAIN held[o] = {"entry", "sig", "seen"}
  /\ faults \in Nat /\ astray \in Nat

Lots == [Legs -> 0..Alloc]
Full == [Legs -> 1..Alloc]

\* Where an entry stands: not filled yet, one-legged and to be taken back, or over.
EntryLots(e) ==
  \/ e.stage = "legs" /\ e.dir = 1 /\ e.ask = [l \in Legs |-> Alloc] /\ pos[e.opp] = Flat
  \/ e.stage = "close" /\ e.dir = -1 /\ e.ask \in Lots \ Full /\ pos[e.opp] = e.ask
  \/ e.stage = "done" /\ e.got \in Lots /\ pos[e.opp] = IF Filled(e) THEN e.got ELSE Flat

\* An unwind asks for exactly what the venues hold.
UnwindLots(e) ==
  \/ e.stage = "legs" /\ e.dir = -1 /\ e.ask \in Full /\ pos[e.opp] = e.ask
  \/ e.stage = "done" /\ e.got \in Full /\ pos[e.opp] = Flat

\* No lost reply, no order astray, no lost iteration.
Sound == Unharmed

LotsMatch ==
  /\ pos \in [Opps -> [Legs -> Int]]
  /\ \A o \in Opps : Tracked(o) => held[o].entry \in Full
  /\ \A o \in mdrop : pos[o] = Flat
  /\ hpc = "execute" => EntryLots(ex["harvest"])
  /\ mpc = "execute" => UnwindLots(ex["monitor"])

HarvInv == LoopShape /\ BookShape /\ (Sound => LotsMatch /\ VenueMatchesBooks)

-----------------------------------------------------------------------------
LEMMA TrackedIsIndex ==
  ASSUME active \in Seq(Opps), NEW o
  PROVE  Tracked(o) <=> \E i \in 1..Len(active) : active[i] = o
BY DEF Tracked, Contains

\* The executions are of different opportunities, and of none already unwound.
LEMMA ExecutionsApart ==
  ASSUME LoopShape, BookShape
  PROVE  /\ \A o \in mdrop : o \in Opps /\ Tracked(o)
         /\ hpc = "execute" => hopp \notin mdrop
         /\ mpc = "execute" =>
              /\ mi \in 1..Len(active) /\ active[mi] \in Opps /\ Tracked(active[mi])
              /\ active[mi] \notin mdrop /\ (hpc = "execute" => active[mi] # hopp)
         /\ NoCrossedExecutions
<1>1. active \in Seq(Opps) /\ Len(active) \in Nat
  BY DEF BookShape
<1>2. \A o \in mdrop : o \in Opps /\ Tracked(o)
  <2> SUFFICES ASSUME NEW o \in mdrop PROVE o \in Opps /\ Tracked(o)
    OBVIOUS
  <2>1. PICK i \in Visited : active[i] = o
    BY DEF BookShape
  <2>2. i \in 1..Len(active)
    BY <1>1, <2>1 DEF Visited, BookShape
  <2> QED
    BY <1>1, <2>1, <2>2, TrackedIsIndex
<1>3. ASSUME mpc = "execute"
      PROVE  mi \in 1..Len(active) /\ active[mi] \in Opps /\ Tracked(active[mi]) /\ active[mi] \notin mdrop
  <2>1. mi \in 1..Len(active)
    BY <1>1, <1>3 DEF LoopShape, BookShape
  <2>2. active[mi] \in Opps /\ Tracked(active[mi])
    BY <1>1, <2>1, TrackedIsIndex
  <2>3. \A i \in Visited : i \in 1..Len(active) /\ i # mi
    BY <1>1, <1>3, <2>1 DEF Visited
  <2>4. \A i \in Visited : active[i] # active[mi]
    BY <2>1, <2>3 DEF BookShape, OnceEach
  <2> QED
    BY <2>1, <2>2, <2>4 DEF BookShape
<1>4. NoCrossedExecutions
  BY <1>3, HarvesterAssumption DEF LoopShape, NoCrossedExecutions, None
<1> QED
  BY <1>2, <1>3, <1>4 DEF LoopShape

LEMMA LegsAreTwo == Legs = {"buy", "sell"} /\ Loops = {"harvest", "monitor"}
BY DEF Legs, Loops

LEMMA HarvestInitially == Init => HarvInv
<1> SUFFICES ASSUME Init PROVE HarvInv
  OBVIOUS
<1>1. LoopShape
  BY DEF Init, LoopShape, None, Execs, Loops
<1>2. BookShape
  BY HarvesterAssumption DEF Init, BookShape, NotHeld, OnceEach, Visited
<1>3. \A o : ~Tracked(o)
  BY DEF Init, Tracked, Contains
<1>4. LotsMatch /\ VenueMatchesBooks
  BY <1>3 DEF Init, LotsMatch, VenueMatchesBooks, Flat
<1> QED
  BY <1>1, <1>2, <1>4 DEF HarvInv
-----------------------------------------------------------------------------
\* What AfterAnswer makes of an answered execution.
LEMMA AnsweredExecution ==
  ASSUME NEW e, DOMAIN e = Execs, NEW n, NEW f, f = [e EXCEPT !.got = n]
  PROVE  /\ DOMAIN AfterAnswer(f) = Execs /\ AfterAnswer(f).opp = e.opp /\ AfterAnswer(f).got = n
         /\ e.stage = "legs" /\ n # Flat /\ ~(\A l \in Legs : n[l] > 0) =>
              /\ AfterAnswer(f).stage = "close" /\ AfterAnswer(f).dir = -e.dir /\ AfterAnswer(f).ask = n
         /\ e.stage # "legs" \/ n = Flat \/ (\A l \in Legs : n[l] > 0) =>
              AfterAnswer(f).stage = "done"
<1>1. /\ DOMAIN f = Execs /\ f.opp = e.opp /\ f.got = n /\ f.stage = e.stage /\ f.dir = e.dir
  BY DEF Execs
<1> HIDE DEF Execs
<1>2. Filled(f) <=> \A l \in Legs : n[l] > 0
  BY <1>1 DEF Filled
<1>3. CASE e.stage = "legs" /\ n # Flat /\ ~(\A l \in Legs : n[l] > 0)
  <2>1. AfterAnswer(f) = [f EXCEPT !.dir = -@, !.stage = "close", !.ask = f.got]
    BY <1>1, <1>2, <1>3 DEF AfterAnswer
  <2> QED
    BY <1>1, <1>3, <2>1 DEF Execs
<1>4. CASE ~(e.stage = "legs" /\ n # Flat /\ ~(\A l \in Legs : n[l] > 0))
  <2>1. AfterAnswer(f) = [f EXCEPT !.stage = "done"]
    BY <1>1, <1>2, <1>4 DEF AfterAnswer
  <2> QED
    BY <1>1, <1>4, <2>1 DEF Execs
<1> QED
  BY <1>3, <1>4

\* A reduce-only order for what the venue holds can be filled whole.
LEMMA FillsWhole ==
  ASSUME NEW e, NEW l \in Legs, e.ask[l] \in Nat,
         e.stage # "close" \/ (e.dir = -1 /\ pos[e.opp][l] = e.ask[l])
  PROVE  Fillable(e, l) = e.ask[l]
<1>1. CASE e.stage = "close" /\ l \notin Gtc
  <2> DEFINE a == e.ask[l]
  <2>1. -(e.dir) * pos[e.opp][l] = a
    BY <1>1
  <2>2. Max({0, a}) = a
    <3>1. \A x \in {0, a} : a >= x
      OBVIOUS
    <3>2. \A m \in {0, a} : (\A x \in {0, a} : m >= x) => m = a
      OBVIOUS
    <3> QED
      BY <3>1, <3>2 DEF Max
  <2>3. Min({a, a}) = a
    BY DEF Min
  <2> HIDE DEF a
  <2>4. Fillable(e, l) = Min({a, Max({0, -(e.dir) * pos[e.opp][l]})})
    BY <1>1 DEF Fillable, a
  <2> QED
    BY <2>1, <2>2, <2>3, <2>4 DEF a
<1>2. CASE ~(e.stage = "close" /\ l \notin Gtc)
  BY <1>2 DEF Fillable
<1> QED
  BY <1>1, <1>2

\* The venues' lots after an answer.
LEMMA MovedLots ==
  ASSUME NEW e, e.opp \in Opps, pos \in [Opps -> [Legs -> Int]], NEW n \in [Legs -> Int], pos' = Moved(e, n),
         e.dir \in {1, -1}
  PROVE  /\ pos' \in [Opps -> [Legs -> Int]]
         /\ \A o \in Opps \ {e.opp} : pos'[o] = pos[o]
         /\ e.dir = 1 /\ pos[e.opp] = Flat => pos'[e.opp] = n
         /\ e.dir = -1 /\ pos[e.opp] = n => pos'[e.opp] = Flat
<1> DEFINE m == [l \in Legs |-> pos[e.opp][l] + e.dir * n[l]]
<1>1. pos' = [pos EXCEPT ![e.opp] = m]
  BY DEF Moved
<1>2. m \in [Legs -> Int]
  BY DEF Legs
<1>3. e.dir = 1 /\ pos[e.opp] = Flat => m = n
  <2> SUFFICES ASSUME e.dir = 1, pos[e.opp] = Flat PROVE m = n
    OBVIOUS
  <2>1. \A l \in Legs : pos[e.opp][l] + e.dir * n[l] = n[l]
    BY DEF Flat
  <2> QED
    BY <2>1
<1>4. e.dir = -1 /\ pos[e.opp] = n => m = Flat
  <2> SUFFICES ASSUME e.dir = -1, pos[e.opp] = n PROVE m = Flat
    OBVIOUS
  <2>1. \A l \in Legs : pos[e.opp][l] + e.dir * n[l] = 0
    OBVIOUS
  <2> QED
    BY <2>1 DEF Flat
<1> HIDE DEF m
<1> QED
  BY <1>1, <1>2, <1>3, <1>4
\* An answer leaves the loops where they are.
LEMMA ShapesKept ==
  ASSUME LoopShape, BookShape, NEW p \in Loops, ex[p].stage # "none", NEW a, DOMAIN a = Execs, a.opp = ex[p].opp,
         ex' = [ex EXCEPT ![p] = a], UNCHANGED <<books, feed, hvars, mvars>>, (faults' \in Nat /\ astray' \in Nat)
  PROVE  LoopShape' /\ BookShape'
<1> USE DEF books, feed, hvars, mvars
<1>1. /\ DOMAIN ex' = Loops /\ ex'[p] = a /\ \A q \in Loops \ {p} : ex'[q] = ex[q]
  BY DEF LoopShape
<1>2. \A q \in Loops : DOMAIN ex'[q] = Execs /\ ex'[q].opp = ex[q].opp
  BY <1>1 DEF LoopShape
<1>3. (p = "harvest" => hpc = "execute") /\ (p = "monitor" => mpc = "execute")
  BY DEF LoopShape, None
<1>4. (hpc # "execute" => ex'["harvest"] = None) /\ (mpc # "execute" => ex'["monitor"] = None)
  BY <1>1, <1>3, LegsAreTwo DEF LoopShape
<1>5. \A o : Tracked(o)' <=> Tracked(o)
  BY DEF Tracked
<1>6. LoopShape'
  BY <1>1, <1>2, <1>4, <1>5, LegsAreTwo DEF LoopShape
<1>7. BookShape'
  BY DEF BookShape, Visited
<1> QED
  BY <1>6, <1>7

\* The lots of an execution are nobody else's.
LEMMA OthersUntouched ==
  ASSUME LotsMatch, VenueMatchesBooks, Sound, NEW p \in Loops, DOMAIN ex = Loops, NEW a, a.opp = ex[p].opp,
         ex' = [ex EXCEPT ![p] = a], UNCHANGED <<books, hvars, mvars>>, ex[p].opp \notin mdrop,
         pos' \in [Opps -> [Legs -> Int]], \A q \in Opps \ {ex[p].opp} : pos'[q] = pos[q],
         hpc = "execute" => EntryLots(ex["harvest"])', mpc = "execute" => UnwindLots(ex["monitor"])',
         mdrop \subseteq Opps
  PROVE  (LotsMatch /\ VenueMatchesBooks)'
<1>1. active' = active /\ held' = held /\ mdrop' = mdrop /\ hpc' = hpc /\ mpc' = mpc
  BY DEF books, hvars, mvars
<1>2. \A q : Tracked(q)' <=> Tracked(q)
  BY <1>1 DEF Tracked
<1>3. \A q \in mdrop : pos'[q] = Flat
  BY DEF LotsMatch
<1>4. LotsMatch'
  BY <1>1, <1>2, <1>3 DEF LotsMatch
<1>5. \A q \in Loops : ex'[q].opp = ex[q].opp
  OBVIOUS
<1>6. InFlight' = InFlight /\ ex[p].opp \in InFlight
  BY <1>5 DEF InFlight
<1>7. \A q \in Opps \ (InFlight \cup mdrop) : pos[q] = IF Tracked(q) THEN held[q].entry ELSE Flat
  BY DEF VenueMatchesBooks, Sound
<1>8. ASSUME NEW q \in Opps \ (InFlight' \cup mdrop')
      PROVE  pos'[q] = IF Tracked(q)' THEN held'[q].entry ELSE Flat
  <2>1. q \in Opps \ (InFlight \cup mdrop) /\ q # ex[p].opp
    BY <1>1, <1>6, <1>8
  <2>2. pos'[q] = pos[q]
    BY <2>1
  <2> QED
    BY <1>1, <1>2, <1>7, <2>1, <2>2
<1>9. VenueMatchesBooks'
  BY <1>8 DEF VenueMatchesBooks
<1> QED
  BY <1>4, <1>9

LEMMA LegsKeep ==
  ASSUME HarvInv, NEW p \in Loops, LegsAnswered(p)
  PROVE  HarvInv'
<1> DEFINE e == ex[p]
           o == ex[p].opp
<1>1. PICK n \in Fills(e) :
        /\ IF Whole(e, n) /\ rest' = rest THEN UNCHANGED <<faults, astray>> ELSE Astray
        /\ pos' = Moved(e, n)
        /\ ex' = [ex EXCEPT ![p] = AfterAnswer([e EXCEPT !.got = n])]
  BY DEF LegsAnswered
<1>2. /\ e.stage \in {"legs", "close"} /\ UNCHANGED <<books, feed, hvars, mvars, raced>>
      /\ DOMAIN e = Execs /\ DOMAIN ex = Loops
  BY DEF LegsAnswered, HarvInv, LoopShape
<1> DEFINE f == [e EXCEPT !.got = n]
           a == AfterAnswer(f)
<1>3. /\ DOMAIN a = Execs /\ a.opp = o /\ a.got = n
      /\ e.stage = "legs" /\ n # Flat /\ ~(\A l \in Legs : n[l] > 0) =>
           a.stage = "close" /\ a.dir = -e.dir /\ a.ask = n
      /\ e.stage # "legs" \/ n = Flat \/ (\A l \in Legs : n[l] > 0) => a.stage = "done"
  <2>1. DOMAIN e = Execs /\ f = [e EXCEPT !.got = n]
    BY <1>2
  <2> HIDE DEF e, f
  <2> QED
    BY <2>1, AnsweredExecution DEF e
<1>4. /\ ex' = [ex EXCEPT ![p] = a] /\ ex'[p] = a /\ \A q \in Loops \ {p} : ex'[q] = ex[q]
  BY <1>1, <1>2
<1>5. n \in Lots
  BY <1>1 DEF Fills, Lots
<1>6. pos' = Moved(e, n) /\ ((Whole(e, n) /\ faults' = faults /\ astray' = astray) \/ Astray)
  BY <1>1
<1> HIDE DEF a, f
<1>7. LoopShape' /\ BookShape'
  <2>1. (faults' \in Nat /\ astray' \in Nat)
    BY <1>6 DEF HarvInv, BookShape, Astray
  <2>2. e.stage # "none"
    BY <1>2
  <2> QED
    BY <1>2, <1>3, <1>4, <2>1, <2>2, ShapesKept DEF HarvInv
<1>8. ASSUME Sound' PROVE (LotsMatch /\ VenueMatchesBooks)'
  <2>1. Sound /\ Whole(e, n)
    BY <1>2, <1>6, <1>8 DEF Sound, Unharmed, Astray, HarvInv, BookShape
  <2>2. LotsMatch /\ VenueMatchesBooks
    BY <2>1 DEF HarvInv
  <2>3. /\ \A q \in mdrop : q \in Opps /\ Tracked(q)
        /\ hpc = "execute" => hopp \notin mdrop
        /\ mpc = "execute" =>
             /\ active[mi] \in Opps /\ Tracked(active[mi])
             /\ active[mi] \notin mdrop /\ (hpc = "execute" => active[mi] # hopp)
    BY ExecutionsApart DEF HarvInv
  <2>4. (p = "harvest" /\ hpc = "execute") \/ (p = "monitor" /\ mpc = "execute")
    BY <1>2, LegsAreTwo DEF HarvInv, LoopShape, None
  <2>5. o \in Opps /\ o \notin mdrop
    BY <2>3, <2>4 DEF HarvInv, LoopShape
  <2>6. n \in [Legs -> Int] /\ n \in Lots
    BY <1>5 DEF Lots
  <2>7. e.dir \in {1, -1}
    BY <1>2, <2>2, <2>4 DEF LotsMatch, EntryLots, UnwindLots
  <2>8. /\ pos' \in [Opps -> [Legs -> Int]]
        /\ \A q \in Opps \ {o} : pos'[q] = pos[q]
        /\ e.dir = 1 /\ pos[o] = Flat => pos'[o] = n
        /\ e.dir = -1 /\ pos[o] = n => pos'[o] = Flat
    <3>1. e.opp \in Opps
      BY <2>5
    <3> HIDE DEF e
    <3>2. /\ pos' \in [Opps -> [Legs -> Int]]
          /\ \A q \in Opps \ {e.opp} : pos'[q] = pos[q]
          /\ e.dir = 1 /\ pos[e.opp] = Flat => pos'[e.opp] = n
          /\ e.dir = -1 /\ pos[e.opp] = n => pos'[e.opp] = Flat
      BY <1>6, <2>2, <2>6, <2>7, <3>1, MovedLots DEF LotsMatch
    <3> QED
      BY <3>2 DEF e
  <2>9. ASSUME e.ask \in Lots, e.dir = -1, pos[o] = e.ask PROVE n = e.ask
    <3>1. \A l \in Legs : e.ask[l] \in Nat
      BY <2>9, HarvesterAssumption DEF Lots
    <3> HIDE DEF e
    <3>2. \A l \in Legs : n[l] = Fillable(e, l)
      BY <2>1, <2>9 DEF Whole
    <3>3. \A l \in Legs : Fillable(e, l) = e.ask[l]
      BY <2>9, <3>1, FillsWhole DEF e
    <3> QED
      BY <2>6, <2>9, <3>2, <3>3 DEF Lots
  <2>10. CASE p = "harvest"
    <3>1. hpc = "execute" /\ o = hopp /\ EntryLots(e)
      BY <2>2, <2>4, <2>10 DEF HarvInv, LoopShape, LotsMatch
    <3>2. EntryLots(ex["harvest"])'
      <4>1. CASE e.stage = "legs"
        <5>1. e.dir = 1 /\ pos'[o] = n
          BY <2>8, <3>1, <4>1 DEF EntryLots
        <5>2. CASE \A l \in Legs : n[l] > 0
          <6>1. a.stage = "done" /\ a.got \in Lots /\ Filled(a)
            BY <1>3, <2>6, <5>2 DEF Filled
          <6> QED
            BY <1>3, <1>4, <2>10, <5>1, <6>1 DEF EntryLots
        <5>3. CASE n = Flat
          <6>1. a.stage = "done" /\ a.got \in Lots /\ ~Filled(a)
            BY <1>3, <2>6, <5>3 DEF Filled, Flat, Legs
          <6> QED
            BY <1>3, <1>4, <2>10, <5>1, <5>3, <6>1 DEF EntryLots
        <5>4. CASE n # Flat /\ ~(\A l \in Legs : n[l] > 0)
          <6>1. a.stage = "close" /\ a.dir = -1 /\ a.ask = n
            BY <1>3, <4>1, <5>1, <5>4
          <6>2. n \notin Full
            BY <5>4, HarvesterAssumption DEF Full
          <6> QED
            BY <1>3, <1>4, <2>6, <2>10, <5>1, <6>1, <6>2 DEF EntryLots
        <5> QED
          BY <5>2, <5>3, <5>4
      <4>2. CASE e.stage = "close"
        <5>1. e.dir = -1 /\ e.ask \in Lots \ Full /\ pos[o] = e.ask
          BY <3>1, <4>2 DEF EntryLots
        <5>2. n = e.ask /\ pos'[o] = Flat
          BY <2>8, <2>9, <5>1
        <5>3. ~(\A l \in Legs : n[l] > 0)
          BY <2>6, <5>1, <5>2, HarvesterAssumption DEF Full, Lots
        <5>4. a.stage = "done" /\ a.got \in Lots /\ ~Filled(a)
          BY <1>3, <2>6, <4>2, <5>3 DEF Filled
        <5> QED
          BY <1>3, <1>4, <2>10, <5>2, <5>4 DEF EntryLots
      <4> QED
        BY <1>2, <4>1, <4>2
    <3>3. mpc = "execute" => UnwindLots(ex["monitor"])'
      <4> SUFFICES ASSUME mpc = "execute" PROVE UnwindLots(ex["monitor"])'
        OBVIOUS
      <4>1. UnwindLots(ex["monitor"]) /\ ex["monitor"].opp = active[mi]
        BY <2>2 DEF LotsMatch, HarvInv, LoopShape
      <4>2. ex'["monitor"] = ex["monitor"]
        BY <1>4, <2>10, LegsAreTwo
      <4>3. pos'[active[mi]] = pos[active[mi]]
        BY <2>3, <2>8, <3>1
      <4> QED
        BY <4>1, <4>2, <4>3 DEF UnwindLots
    <3> QED
      <4>1. (hpc = "execute" => EntryLots(ex["harvest"])') /\ (mpc = "execute" => UnwindLots(ex["monitor"])')
        BY <3>1, <3>2, <3>3
      <4>2. mdrop \subseteq Opps /\ o = ex[p].opp
        BY <2>3
      <4> HIDE DEF e, o
      <4> QED
        BY <1>2, <1>3, <1>4, <2>1, <2>2, <2>5, <2>8, <4>1, <4>2, OthersUntouched
  <2>11. CASE p = "monitor"
    <3>1. mpc = "execute" /\ o = active[mi] /\ UnwindLots(e)
      BY <2>2, <2>4, <2>11 DEF HarvInv, LoopShape, LotsMatch
    <3>2. UnwindLots(ex["monitor"])'
      <4>1. e.stage = "legs" /\ e.dir = -1 /\ e.ask \in Full /\ pos[o] = e.ask
        BY <1>2, <3>1 DEF UnwindLots
      <4>2. e.ask \in Lots
        BY <4>1, HarvesterAssumption DEF Lots, Full
      <4>3. n = e.ask /\ pos'[o] = Flat
        BY <2>8, <2>9, <4>1, <4>2
      <4>4. a.stage = "done" /\ a.got \in Full
        BY <1>3, <4>1, <4>3, HarvesterAssumption DEF Full
      <4> QED
        BY <1>3, <1>4, <2>11, <4>3, <4>4 DEF UnwindLots
    <3>3. hpc = "execute" => EntryLots(ex["harvest"])'
      <4> SUFFICES ASSUME hpc = "execute" PROVE EntryLots(ex["harvest"])'
        OBVIOUS
      <4>1. EntryLots(ex["harvest"]) /\ ex["harvest"].opp = hopp /\ hopp \in Opps
        BY <2>2 DEF LotsMatch, HarvInv, LoopShape
      <4>2. ex'["harvest"] = ex["harvest"]
        BY <1>4, <2>11, LegsAreTwo
      <4>3. pos'[hopp] = pos[hopp]
        BY <2>3, <2>8, <3>1, <4>1
      <4> QED
        BY <4>1, <4>2, <4>3 DEF EntryLots
    <3> QED
      <4>1. (hpc = "execute" => EntryLots(ex["harvest"])') /\ (mpc = "execute" => UnwindLots(ex["monitor"])')
        BY <3>1, <3>2, <3>3
      <4>2. mdrop \subseteq Opps /\ o = ex[p].opp
        BY <2>3
      <4> HIDE DEF e, o
      <4> QED
        BY <1>2, <1>3, <1>4, <2>1, <2>2, <2>5, <2>8, <4>1, <4>2, OthersUntouched
  <2> QED
    BY <2>10, <2>11, LegsAreTwo
<1> QED
  BY <1>7, <1>8 DEF HarvInv
-----------------------------------------------------------------------------
\* What touches neither the books, the loops nor the executions.
LEMMA ShapesUntouched ==
  ASSUME LoopShape, BookShape, UNCHANGED <<books, hvars, mvars, ex>>, (faults' \in Nat /\ astray' \in Nat)
  PROVE  LoopShape' /\ BookShape'
<1> USE DEF books, hvars, mvars
<1>1. \A o : Tracked(o)' <=> Tracked(o)
  BY DEF Tracked
<1>2. LoopShape'
  BY <1>1 DEF LoopShape
<1>3. BookShape'
  BY DEF BookShape, Visited
<1> QED
  BY <1>2, <1>3

LEMMA FaultIsUnsound ==
  ASSUME BookShape, Fault
  PROVE  (faults' \in Nat /\ astray' \in Nat) /\ ~Sound'
BY DEF BookShape, Fault, Sound, Unharmed

LEMMA LostKeeps ==
  ASSUME HarvInv, NEW p \in Loops, NEW l \in Legs, ReplyLost(p, l)
  PROVE  HarvInv'
<1>1. LoopShape /\ BookShape /\ Fault
  BY DEF HarvInv, ReplyLost
<1>2. (faults' \in Nat /\ astray' \in Nat) /\ ~Sound'
  BY <1>1, FaultIsUnsound
<1>3. UNCHANGED <<books, feed, hvars, mvars>> /\ ex[p].stage # "none"
  BY DEF ReplyLost
<1> DEFINE e == ex[p]
           told == [m \in Legs |-> IF m = l THEN 0 ELSE Fillable(e, m)]
           f == [e EXCEPT !.got = told]
           a == AfterAnswer(f)
<1>4. CASE ex' = [ex EXCEPT ![p] = a]
  <2>1. DOMAIN e = Execs /\ f = [e EXCEPT !.got = told]
    BY <1>1 DEF LoopShape
  <2> HIDE DEF told, f
  <2>2. DOMAIN a = Execs /\ a.opp = ex[p].opp
    <3> HIDE DEF e
    <3>1. DOMAIN a = Execs /\ a.opp = e.opp
      BY <2>1, AnsweredExecution
    <3> QED
      BY <3>1 DEF e
  <2> HIDE DEF a
  <2> QED
    BY <1>1, <1>2, <1>3, <1>4, <2>2, ShapesKept DEF HarvInv
<1>5. CASE UNCHANGED ex
  BY <1>1, <1>2, <1>3, <1>5, ShapesUntouched DEF HarvInv
<1> QED
  BY <1>4, <1>5 DEF ReplyLost

\* A remainder rests only behind an order that ended astray.
RestIsAstray == astray \in Nat /\ (astray = 0 => rest = NoRest)

LEMMA RestStaysAstray == RestIsAstray /\ [Next]_vars => RestIsAstray'
<1> USE DEF RestIsAstray
<1> SUFFICES ASSUME RestIsAstray, [Next]_vars PROVE RestIsAstray'
  OBVIOUS
<1>1. CASE UNCHANGED <<rest, astray>>
  BY <1>1
<1>2. CASE \E p \in Loops : LegsAnswered(p)
  <2>1. \/ UNCHANGED <<rest, faults, astray>>
        \/ Astray
    BY <1>2 DEF LegsAnswered
  <2> QED
    BY <2>1 DEF Astray
<1>3. CASE LateFill
  <2>1. PICK o \in Opps, l \in Gtc : rest[o][l] # 0
    BY <1>3 DEF LateFill
  <2>2. Gtc \subseteq Legs
    BY HarvesterAssumption
  <2>3. rest # NoRest
    BY <2>1, <2>2 DEF NoRest, Flat
  <2> QED
    BY <1>3, <2>3 DEF LateFill
<1>4. CASE \E p \in Loops, l \in Legs : ReplyLost(p, l)
  BY <1>1, <1>4 DEF ReplyLost, Fault
<1>5. CASE Harvesting \/ Monitoring \/ Tick \/ Restart \/ UNCHANGED vars
  BY <1>1, <1>5 DEF Harvesting, Monitoring, HCheck, HFetch, HRecord, HGiveUp, MBegin, MVisit, MUnwound,
     MIncomplete, MError, MEnd, Tick, Restart, Fault, vars
<1> QED
  BY <1>2, <1>3, <1>4, <1>5 DEF Next, Execution

LEMMA LateKeeps ==
  ASSUME HarvInv, RestIsAstray, LateFill
  PROVE  HarvInv'
<1>1. PICK o \in Opps, l \in Gtc : rest[o][l] # 0
  BY DEF LateFill
<1>2. rest # NoRest
  BY <1>1, HarvesterAssumption DEF NoRest, Flat
<1>3. LoopShape /\ BookShape /\ UNCHANGED <<books, hvars, mvars, ex, faults, astray>>
  BY DEF HarvInv, LateFill
<1>4. ~Sound'
  BY <1>2, <1>3 DEF RestIsAstray, Sound, Unharmed
<1>5. (faults' \in Nat /\ astray' \in Nat)
  BY <1>3 DEF BookShape
<1> QED
  BY <1>3, <1>4, <1>5, ShapesUntouched DEF HarvInv

LEMMA RestartKeeps ==
  ASSUME HarvInv, Restart
  PROVE  HarvInv'
<1>1. LoopShape /\ BookShape /\ Fault
  BY DEF HarvInv, Restart
<1>2. (faults' \in Nat /\ astray' \in Nat) /\ ~Sound'
  BY <1>1, FaultIsUnsound
<1>3. LoopShape'
  BY <1>1 DEF Restart, LoopShape, hvars, mvars
<1>4. BookShape'
  BY <1>1, <1>2 DEF Restart, BookShape, hvars, mvars, OnceEach, Visited, NotHeld
<1> QED
  BY <1>2, <1>3, <1>4 DEF HarvInv
-----------------------------------------------------------------------------
\* What holds of the loops' executions between two steps.
LEMMA CheckKeeps ==
  ASSUME HarvInv, HCheck
  PROVE  HarvInv'
<1> USE DEF HCheck, books, feed, mvars
<1>1. \A o : Tracked(o)' <=> Tracked(o)
  BY DEF Tracked
<1>2. LoopShape'
  BY <1>1 DEF HarvInv, LoopShape
<1>3. BookShape'
  BY DEF HarvInv, BookShape, Visited
<1>4. Sound' => Sound
  BY DEF Sound, Unharmed
<1>5. LotsMatch => LotsMatch'
  BY <1>1 DEF LotsMatch, UnwindLots
<1>6. VenueMatchesBooks => VenueMatchesBooks'
  BY <1>1 DEF VenueMatchesBooks, Unharmed, InFlight
<1> QED
  BY <1>2, <1>3, <1>4, <1>5, <1>6 DEF HarvInv

\* What is neither tracked nor in the harvester's hands is on no venue.
LEMMA UntrackedIsFlat ==
  ASSUME LoopShape, BookShape, Sound, VenueMatchesBooks, NEW o \in Opps, ~Tracked(o), hpc # "execute"
  PROVE  pos[o] = Flat
<1>1. o \notin mdrop
  BY ExecutionsApart
<1>2. o \notin InFlight
  <2>1. ex["harvest"].opp # o
    BY HarvesterAssumption DEF LoopShape, None
  <2>2. ex["monitor"].opp # o
    BY ExecutionsApart, HarvesterAssumption DEF LoopShape, None
  <2> QED
    BY <2>1, <2>2, LegsAreTwo DEF InFlight
<1> QED
  BY <1>1, <1>2 DEF VenueMatchesBooks, Sound

LEMMA FetchKeeps ==
  ASSUME HarvInv, HFetch
  PROVE  HarvInv'
<1> USE DEF books, mvars
<1>1. /\ hpc = "fetch" /\ UNCHANGED <<pos, rest, active, held, mpc, mi, mlen, mdrop, mrisk, faults, astray, raced>>
      /\ LoopShape /\ BookShape /\ DOMAIN ex = Loops
  BY DEF HFetch, HarvInv, LoopShape
<1>2. \A o : Tracked(o)' <=> Tracked(o)
  BY <1>1 DEF Tracked
<1>3. BookShape'
  BY <1>1 DEF BookShape, Visited
<1>4. Sound' => Sound
  BY <1>1 DEF Sound, Unharmed
<1>5. ASSUME NEW o \in Opps, Enterable(o), Launch("harvest", o, 1, [l \in Legs |-> Alloc]),
             hpc' = "execute", hopp' = o
      PROVE  HarvInv'
  <2> DEFINE a == [opp |-> o, dir |-> 1, stage |-> "legs", ask |-> [l \in Legs |-> Alloc], got |-> Flat]
  <2>1. ex' = [ex EXCEPT !["harvest"] = a]
    BY <1>5 DEF Launch
  <2>2. DOMAIN ex' = Loops /\ ex'["harvest"] = a /\ ex'["monitor"] = ex["monitor"]
    BY <1>1, <2>1, LegsAreTwo
  <2>3. /\ DOMAIN a = Execs /\ a.opp = o /\ a.stage = "legs" /\ a.dir = 1
        /\ a.ask = [l \in Legs |-> Alloc]
    BY DEF Execs
  <2> HIDE DEF a
  <2>4. ~Tracked(o)'
    BY <1>2, <1>5 DEF Enterable
  <2>5. LoopShape'
    BY <1>1, <1>2, <1>5, <2>2, <2>3, <2>4, LegsAreTwo DEF LoopShape
  <2>6. ASSUME Sound PROVE (LotsMatch /\ VenueMatchesBooks)'
    <3>1. LotsMatch /\ VenueMatchesBooks
      BY <2>6 DEF HarvInv
    <3>2. pos[o] = Flat
      BY <1>1, <1>5, <2>6, <3>1, UntrackedIsFlat DEF Enterable
    <3>3. EntryLots(ex["harvest"])'
      BY <1>1, <2>2, <2>3, <3>2 DEF EntryLots
    <3>4. mpc = "execute" => UnwindLots(ex["monitor"])'
      BY <1>1, <2>2, <3>1 DEF LotsMatch, UnwindLots
    <3>5. LotsMatch'
      BY <1>1, <1>2, <3>1, <3>3, <3>4 DEF LotsMatch
    <3>6. InFlight' = {o, ex["monitor"].opp} /\ InFlight = {"none", ex["monitor"].opp}
      BY <1>1, <2>2, <2>3, LegsAreTwo DEF InFlight, LoopShape, None
    <3>7. \A q \in Opps \ (InFlight \cup mdrop) : pos[q] = IF Tracked(q) THEN held[q].entry ELSE Flat
      BY <2>6, <3>1 DEF VenueMatchesBooks, Sound
    <3>8. ASSUME NEW q \in Opps \ (InFlight' \cup mdrop')
          PROVE  pos'[q] = IF Tracked(q)' THEN held'[q].entry ELSE Flat
      <4>1. q \in Opps \ (InFlight \cup mdrop)
        BY <1>1, <3>6, <3>8, HarvesterAssumption
      <4> QED
        BY <1>1, <1>2, <3>7, <4>1
    <3> QED
      BY <3>5, <3>8 DEF VenueMatchesBooks
  <2> QED
    BY <1>3, <1>4, <2>5, <2>6 DEF HarvInv
<1>6. CASE hpc' = "idle" /\ UNCHANGED <<hopp, ex>>
  <2>1. LoopShape'
    BY <1>1, <1>2, <1>6 DEF LoopShape
  <2>2. LotsMatch => LotsMatch'
    BY <1>1, <1>2, <1>6 DEF LotsMatch, UnwindLots
  <2>3. VenueMatchesBooks => VenueMatchesBooks'
    BY <1>1, <1>2, <1>6 DEF VenueMatchesBooks, Unharmed, InFlight
  <2> QED
    BY <1>3, <1>4, <2>1, <2>2, <2>3 DEF HarvInv
<1> QED
  BY <1>5, <1>6 DEF HFetch
-----------------------------------------------------------------------------
LEMMA FullIsFilled ==
  ASSUME NEW e, e.got \in Lots
  PROVE  Filled(e) <=> e.got \in Full
BY HarvesterAssumption DEF Filled, Lots, Full

LEMMA NoneShape == DOMAIN None = Execs /\ None.opp = "none"
BY DEF None, Execs

\* A recorded entry stands behind the others, with what the venues hold.
LEMMA RecordKeeps ==
  ASSUME HarvInv, HRecord
  PROVE  HarvInv'
<1> USE DEF mvars
<1>1. /\ hpc = "execute" /\ mpc # "visit" /\ hopp \in Opps /\ ~Tracked(hopp) /\ ex["harvest"].opp = hopp
      /\ LoopShape /\ BookShape /\ active \in Seq(Opps) /\ Len(active) \in Nat /\ DOMAIN ex = Loops
      /\ hpc' = "idle" /\ hopp' = "none"
      /\ UNCHANGED <<pos, mpc, mi, mlen, mdrop, mrisk, faults, astray, raced>>
  <2>1. LoopShape /\ BookShape /\ hpc = "execute" /\ mpc # "visit"
    BY DEF HRecord, HarvesterRuns, HarvInv
  <2>2. /\ hpc' = "idle" /\ hopp' = "none"
        /\ UNCHANGED <<pos, mpc, mi, mlen, mdrop, mrisk, faults, astray, raced>>
    BY DEF HRecord
  <2> QED
    BY <2>1, <2>2 DEF LoopShape, BookShape
<1> DEFINE h == [entry |-> ex["harvest"].got, sig |-> latest[hopp], seen |-> age]
<1>2. held' = [held EXCEPT ![hopp] = h] /\ DOMAIN h = {"entry", "sig", "seen"} /\ h.entry = ex["harvest"].got
  BY DEF HRecord
<1> HIDE DEF h
<1>3. active' = Append(active, hopp) /\ ex' = [ex EXCEPT !["harvest"] = None]
  BY <1>1 DEF HRecord
<1>4. ex'["harvest"] = None /\ ex'["monitor"] = ex["monitor"] /\ DOMAIN ex' = Loops
  BY <1>1, <1>3, LegsAreTwo
<1>5. /\ active' \in Seq(Opps) /\ Len(active') = Len(active) + 1 /\ active'[Len(active) + 1] = hopp
      /\ \A i \in 1..Len(active) : active'[i] = active[i]
  BY <1>1, <1>3
<1>6. \A q : Tracked(q) <=> \E i \in 1..Len(active) : active[i] = q
  BY <1>1 DEF Tracked, Contains
<1>7. \A q : Tracked(q)' <=> \E i \in 1..Len(active') : active'[i] = q
  BY <1>5 DEF Tracked, Contains
<1>8. \A q : Tracked(q)' <=> Tracked(q) \/ q = hopp
  <2>1. \A i : i \in 1..Len(active') <=> i \in 1..Len(active) \/ i = Len(active) + 1
    BY <1>1, <1>5
  <2> QED
    BY <1>5, <1>6, <1>7, <2>1
<1>9. OnceEach(active')
  <2> SUFFICES ASSUME NEW i \in 1..Len(active'), NEW j \in 1..Len(active'), active'[i] = active'[j]
               PROVE  i = j
    BY DEF OnceEach
  <2>1. \A n \in 1..Len(active') : n \in 1..Len(active) \/ n = Len(active) + 1
    BY <1>1, <1>5
  <2>2. \A n \in 1..Len(active) : active[n] # hopp
    BY <1>1, <1>6
  <2>3. \A n, k \in 1..Len(active) : active[n] = active[k] => n = k
    BY <1>1 DEF BookShape, OnceEach
  <2> QED
    BY <1>5, <2>1, <2>2, <2>3
<1>10. mpc = "execute" => mi \in 1..Len(active) /\ ex["monitor"].opp = active[mi]
  BY <1>1, ExecutionsApart DEF LoopShape
<1>11. LoopShape'
  BY <1>1, <1>4, <1>5, <1>10, LegsAreTwo, NoneShape DEF LoopShape
<1>12. \A i \in Visited : i \in 1..Len(active)
  BY <1>1, <1>10 DEF Visited, BookShape
<1>13. \A o \in mdrop' : \E i \in Visited' : active'[i] = o
  BY <1>1, <1>5, <1>12 DEF BookShape, Visited
<1>14. DOMAIN held' = Opps /\ \A o \in Opps : DOMAIN held'[o] = {"entry", "sig", "seen"}
  BY <1>1, <1>2 DEF BookShape
<1>15. BookShape'
  BY <1>1, <1>5, <1>9, <1>13, <1>14 DEF BookShape
<1>16. ASSUME Sound' PROVE (LotsMatch /\ VenueMatchesBooks)'
  <2>1. Sound
    BY <1>1, <1>16 DEF Sound, Unharmed
  <2>2. LotsMatch /\ VenueMatchesBooks
    BY <2>1 DEF HarvInv
  <2>3. ex["harvest"].stage = "done" /\ Filled(ex["harvest"])
    BY DEF HRecord, FullyFilled
  <2>4. ex["harvest"].got \in Full /\ pos[hopp] = ex["harvest"].got
    <3>1. EntryLots(ex["harvest"])
      BY <1>1, <2>2 DEF LotsMatch
    <3>2. ex["harvest"].got \in Lots /\ pos[hopp] = ex["harvest"].got
      BY <1>1, <2>3, <3>1 DEF EntryLots
    <3> QED
      BY <2>3, <3>2, FullIsFilled
  <2>5. held'[hopp].entry = pos[hopp] /\ \A q \in Opps \ {hopp} : held'[q] = held[q]
    BY <1>1, <1>2, <2>4 DEF BookShape
  <2>6. \A q \in Opps : Tracked(q)' => held'[q].entry \in Full
    BY <1>8, <2>2, <2>4, <2>5 DEF LotsMatch
  <2>7. mpc' = "execute" => UnwindLots(ex["monitor"])'
    BY <1>1, <1>4, <2>2 DEF LotsMatch, UnwindLots
  <2>8. LotsMatch'
    BY <1>1, <2>2, <2>6, <2>7 DEF LotsMatch
  <2>9. InFlight' = {"none", ex["monitor"].opp} /\ InFlight = {hopp, ex["monitor"].opp}
    BY <1>1, <1>4, LegsAreTwo, NoneShape DEF InFlight
  <2>10. \A q \in Opps \ (InFlight \cup mdrop) : pos[q] = IF Tracked(q) THEN held[q].entry ELSE Flat
    BY <2>1, <2>2 DEF VenueMatchesBooks, Sound
  <2>11. ASSUME NEW q \in Opps \ (InFlight' \cup mdrop')
         PROVE  pos'[q] = IF Tracked(q)' THEN held'[q].entry ELSE Flat
    <3>1. CASE q = hopp
      BY <1>1, <1>8, <2>5, <3>1
    <3>2. CASE q # hopp
      <4>1. q \in Opps \ (InFlight \cup mdrop)
        BY <1>1, <2>9, <2>11, <3>2
      <4> QED
        BY <1>1, <1>8, <2>5, <2>10, <3>2, <4>1
    <3> QED
      BY <3>1, <3>2
  <2> QED
    BY <2>8, <2>11 DEF VenueMatchesBooks
<1> QED
  BY <1>11, <1>15, <1>16 DEF HarvInv

\* A failed entry left nothing on the venues.
LEMMA GiveUpKeeps ==
  ASSUME HarvInv, HGiveUp
  PROVE  HarvInv'
<1> USE DEF mvars, books
<1>1. /\ hpc = "execute" /\ hopp \in Opps /\ ~Tracked(hopp) /\ ex["harvest"].opp = hopp
      /\ LoopShape /\ BookShape /\ DOMAIN ex = Loops /\ hpc' = "idle" /\ hopp' = "none"
      /\ UNCHANGED <<pos, active, held, mpc, mi, mlen, mdrop, mrisk, faults, astray, raced>>
      /\ ex' = [ex EXCEPT !["harvest"] = None]
  BY DEF HGiveUp, HarvInv, LoopShape
<1>2. ex'["harvest"] = None /\ ex'["monitor"] = ex["monitor"] /\ DOMAIN ex' = Loops
  BY <1>1, LegsAreTwo
<1>3. \A q : Tracked(q)' <=> Tracked(q)
  BY <1>1 DEF Tracked
<1>4. LoopShape'
  BY <1>1, <1>2, LegsAreTwo, NoneShape DEF LoopShape
<1>5. BookShape'
  BY <1>1 DEF BookShape, Visited
<1>6. ASSUME Sound' PROVE (LotsMatch /\ VenueMatchesBooks)'
  <2>1. Sound
    BY <1>1, <1>6 DEF Sound, Unharmed
  <2>2. LotsMatch /\ VenueMatchesBooks
    BY <2>1 DEF HarvInv
  <2>3. pos[hopp] = Flat
    <3>1. ex["harvest"].stage = "done" /\ ~Filled(ex["harvest"])
      BY DEF HGiveUp, Failed
    <3>2. EntryLots(ex["harvest"])
      BY <1>1, <2>2 DEF LotsMatch
    <3> QED
      BY <1>1, <3>1, <3>2 DEF EntryLots
  <2>4. mpc' = "execute" => UnwindLots(ex["monitor"])'
    BY <1>1, <1>2, <2>2 DEF LotsMatch, UnwindLots
  <2>5. LotsMatch'
    BY <1>1, <1>3, <2>2, <2>4 DEF LotsMatch
  <2>6. InFlight' = {"none", ex["monitor"].opp} /\ InFlight = {hopp, ex["monitor"].opp}
    BY <1>1, <1>2, LegsAreTwo, NoneShape DEF InFlight
  <2>7. \A q \in Opps \ (InFlight \cup mdrop) : pos[q] = IF Tracked(q) THEN held[q].entry ELSE Flat
    BY <2>1, <2>2 DEF VenueMatchesBooks, Sound
  <2>8. ASSUME NEW q \in Opps \ (InFlight' \cup mdrop')
        PROVE  pos'[q] = IF Tracked(q)' THEN held'[q].entry ELSE Flat
    <3>1. CASE q = hopp
      BY <1>1, <1>3, <2>3, <3>1
    <3>2. CASE q # hopp
      <4>1. q \in Opps \ (InFlight \cup mdrop)
        BY <1>1, <2>6, <2>8, <3>2
      <4> QED
        BY <1>1, <1>3, <2>7, <4>1
    <3> QED
      BY <3>1, <3>2
  <2> QED
    BY <2>5, <2>8 DEF VenueMatchesBooks
<1> QED
  BY <1>4, <1>5, <1>6 DEF HarvInv
-----------------------------------------------------------------------------
LEMMA BeginKeeps ==
  ASSUME HarvInv, MBegin
  PROVE  HarvInv'
<1> USE DEF MBegin, books, hvars
<1>1. mi = 0 /\ mdrop = {}
  BY DEF HarvInv, BookShape, Visited
<1>2. \A q : Tracked(q)' <=> Tracked(q)
  BY DEF Tracked
<1>3. LoopShape'
  BY <1>2 DEF HarvInv, LoopShape
<1>4. BookShape'
  <2>1. Len(active) \in Nat
    BY DEF HarvInv, BookShape
  <2> QED
    BY <2>1 DEF HarvInv, BookShape
<1>5. Sound' => Sound
  BY DEF Sound, Unharmed
<1>6. LotsMatch => LotsMatch'
  BY <1>1, <1>2 DEF LotsMatch, EntryLots
<1>7. VenueMatchesBooks => VenueMatchesBooks'
  BY <1>1, <1>2 DEF VenueMatchesBooks, Unharmed, InFlight
<1> QED
  BY <1>3, <1>4, <1>5, <1>6, <1>7 DEF HarvInv

\* The item the iterator delivers is held in full and nobody executes it.
LEMMA VisitedIsQuiet ==
  ASSUME HarvInv, mpc = "visit", mi < mlen, Len(active) = mlen
  PROVE  LET o == active[mi + 1]
         IN  /\ o \in Opps /\ Tracked(o) /\ o \notin mdrop /\ o \notin InFlight
             /\ Sound => held[o].entry \in Full /\ pos[o] = held[o].entry
<1> DEFINE o == active[mi + 1]
<1>1. /\ LoopShape /\ BookShape /\ active \in Seq(Opps) /\ mi \in Nat /\ mi + 1 \in 1..Len(active)
  BY DEF HarvInv, BookShape
<1>2. o \in Opps /\ Tracked(o)
  BY <1>1, TrackedIsIndex
<1>3. o \notin mdrop
  <2>1. \A i \in Visited : i \in 1..Len(active) /\ i # mi + 1
    BY <1>1 DEF Visited
  <2>2. \A i \in Visited : active[i] # o
    BY <1>1, <2>1 DEF BookShape, OnceEach
  <2> QED
    BY <1>1, <2>2 DEF BookShape
<1>4. o \notin InFlight
  <2>1. ex["monitor"].opp # o /\ ex["harvest"].opp # o
    BY <1>1, <1>2, HarvesterAssumption, NoneShape DEF LoopShape
  <2> QED
    BY <2>1, LegsAreTwo DEF InFlight
<1> HIDE DEF o
<1>5. Sound => held[o].entry \in Full /\ pos[o] = held[o].entry
  <2>1. Sound => LotsMatch /\ VenueMatchesBooks
    BY DEF HarvInv
  <2> QED
    BY <1>2, <1>3, <1>4, <2>1 DEF LotsMatch, VenueMatchesBooks, Sound
<1> QED
  BY <1>2, <1>3, <1>4, <1>5 DEF o

LEMMA VisitKeeps ==
  ASSUME HarvInv, MVisit
  PROVE  HarvInv'
<1> DEFINE o == active[mi + 1]
<1>1. /\ mpc = "visit" /\ mi < mlen /\ Len(active) = mlen /\ mi' = mi + 1
      /\ UNCHANGED <<pos, active, hpc, hopp, mlen, mdrop, faults, astray, raced>>
      /\ LoopShape /\ BookShape
  BY DEF MVisit, HarvInv, hvars
<1>2. /\ o \in Opps /\ Tracked(o) /\ o \notin mdrop /\ o \notin InFlight
      /\ Sound => held[o].entry \in Full /\ pos[o] = held[o].entry
  BY <1>1, VisitedIsQuiet
<1>3. mi \in Nat /\ DOMAIN ex = Loops /\ ex["monitor"] = None
  BY <1>1 DEF BookShape, LoopShape
<1>4. \A q : Tracked(q)' <=> Tracked(q)
  BY <1>1 DEF Tracked
<1>5. /\ DOMAIN held' = Opps
      /\ \A q \in Opps : DOMAIN held'[q] = {"entry", "sig", "seen"} /\ held'[q].entry = held[q].entry
  <2>1. DOMAIN held = Opps /\ \A q \in Opps : DOMAIN held[q] = {"entry", "sig", "seen"}
    BY <1>1 DEF BookShape
  <2>2. held' = held \/ held' = [held EXCEPT ![o].seen = SeenAge(o)]
    BY DEF MVisit
  <2> HIDE DEF o
  <2> QED
    BY <2>1, <2>2
<1>6. Sound' => Sound
  BY <1>1 DEF Sound, Unharmed
<1> DEFINE a == [opp |-> o, dir |-> -1, stage |-> "legs", ask |-> held[o].entry, got |-> Flat]
<1>7. (mpc' = "execute" /\ ex' = [ex EXCEPT !["monitor"] = a]) \/ (mpc' = "visit" /\ ex' = ex)
  BY <1>1 DEF MVisit, UnwindPosition, Launch
<1>8. /\ DOMAIN a = Execs /\ a.opp = o /\ a.stage = "legs" /\ a.dir = -1 /\ a.ask = held[o].entry
  BY DEF Execs
<1> HIDE DEF a, o
<1>9. mpc' = "execute" => DOMAIN ex' = Loops /\ ex'["monitor"] = a /\ ex'["harvest"] = ex["harvest"]
  BY <1>3, <1>7, LegsAreTwo
<1>10. active'[mi'] = o
  BY <1>1 DEF o
<1>11. LoopShape'
  BY <1>1, <1>3, <1>4, <1>7, <1>8, <1>9, <1>10, LegsAreTwo DEF LoopShape
<1>12. \A i \in Visited : i \in Visited'
  BY <1>1, <1>3, <1>7 DEF Visited
<1>13. BookShape'
  BY <1>1, <1>3, <1>5, <1>7, <1>12 DEF BookShape
<1>14. ASSUME Sound PROVE (LotsMatch /\ VenueMatchesBooks)'
  <2>1. LotsMatch /\ VenueMatchesBooks
    BY <1>14 DEF HarvInv
  <2>2. \A q \in mdrop : pos[q] = Flat
    BY <2>1 DEF LotsMatch
  <2>3. ex'["harvest"] = ex["harvest"] /\ DOMAIN ex' = Loops
    BY <1>3, <1>7, <1>9
  <2>4. hpc' = "execute" => EntryLots(ex["harvest"])'
    BY <1>1, <2>1, <2>3 DEF LotsMatch, EntryLots
  <2>5. mpc' = "execute" => UnwindLots(ex["monitor"])'
    BY <1>1, <1>2, <1>8, <1>9, <1>14 DEF UnwindLots
  <2>6. LotsMatch'
    BY <1>1, <1>4, <1>5, <2>1, <2>2, <2>4, <2>5 DEF LotsMatch
  <2>7. \A q \in Opps \ (InFlight \cup mdrop) : pos[q] = IF Tracked(q) THEN held[q].entry ELSE Flat
    BY <1>14, <2>1 DEF VenueMatchesBooks, Sound
  <2>8. \A q \in Opps : q \in InFlight => q \in InFlight'
    BY <1>3, <2>3, HarvesterAssumption, LegsAreTwo, NoneShape DEF InFlight
  <2>9. ASSUME NEW q \in Opps \ (InFlight' \cup mdrop')
        PROVE  pos'[q] = IF Tracked(q)' THEN held'[q].entry ELSE Flat
    <3>1. q \in Opps \ (InFlight \cup mdrop)
      BY <1>1, <2>8, <2>9
    <3> QED
      BY <1>1, <1>4, <1>5, <2>7, <3>1
  <2> QED
    BY <2>6, <2>9 DEF VenueMatchesBooks
<1> QED
  BY <1>6, <1>11, <1>13, <1>14 DEF HarvInv
-----------------------------------------------------------------------------
\* After an unwind the iterator goes on; the filled one is to be removed.
LEMMA AfterUnwindKeeps ==
  ASSUME HarvInv, mpc = "execute", mpc' = "visit", ex' = [ex EXCEPT !["monitor"] = None],
         UNCHANGED <<pos, rest, books, feed, hvars, mi, mlen, mrisk, faults, astray, raced>>,
         mdrop' = mdrop \cup {active[mi]} \/ mdrop' = mdrop,
         Sound => mdrop' = mdrop \cup {active[mi]} /\ pos[active[mi]] = Flat
  PROVE  HarvInv'
<1> USE DEF books, hvars
<1>1. LoopShape /\ BookShape /\ DOMAIN ex = Loops
  BY DEF HarvInv, LoopShape
<1> DEFINE o == active[mi]
<1>2. mi \in 1..Len(active) /\ ex["monitor"].opp = o
  BY <1>1, ExecutionsApart DEF LoopShape
<1> HIDE DEF o
<1>3. ex'["monitor"] = None /\ ex'["harvest"] = ex["harvest"] /\ DOMAIN ex' = Loops
  BY <1>1, LegsAreTwo
<1>4. \A q : Tracked(q)' <=> Tracked(q)
  BY DEF Tracked
<1>5. LoopShape'
  BY <1>1, <1>3, <1>4, LegsAreTwo, NoneShape DEF LoopShape
<1>6. BookShape'
  <2>1. \A i \in Visited : i \in Visited'
    BY <1>1 DEF Visited, BookShape
  <2>2. mi \in Visited'
    BY <1>1, <1>2 DEF Visited, BookShape
  <2>3. \A q \in mdrop' : \E i \in Visited' : active'[i] = q
    BY <1>1, <2>1, <2>2 DEF BookShape
  <2> QED
    BY <1>1, <2>3 DEF BookShape
<1>7. ASSUME Sound' PROVE (LotsMatch /\ VenueMatchesBooks)'
  <2>1. Sound
    BY <1>7 DEF Sound, Unharmed
  <2>2. LotsMatch /\ VenueMatchesBooks /\ mdrop' = mdrop \cup {o} /\ pos[o] = Flat
    BY <2>1 DEF HarvInv, o
  <2>3. \A q \in mdrop' : pos'[q] = Flat
    BY <2>2 DEF LotsMatch
  <2>4. hpc' = "execute" => EntryLots(ex["harvest"])'
    BY <1>3, <2>2 DEF LotsMatch, EntryLots
  <2>5. LotsMatch'
    BY <1>4, <2>2, <2>3, <2>4 DEF LotsMatch
  <2>6. \A q \in Opps \ (InFlight \cup mdrop) : pos[q] = IF Tracked(q) THEN held[q].entry ELSE Flat
    BY <2>1, <2>2 DEF VenueMatchesBooks, Sound
  <2>7. InFlight = {ex["harvest"].opp, o} /\ InFlight' = {ex["harvest"].opp, "none"}
    BY <1>2, <1>3, LegsAreTwo, NoneShape DEF InFlight
  <2>8. ASSUME NEW q \in Opps \ (InFlight' \cup mdrop')
        PROVE  pos'[q] = IF Tracked(q)' THEN held'[q].entry ELSE Flat
    <3>1. q \in Opps \ (InFlight \cup mdrop)
      BY <2>2, <2>7, <2>8
    <3> QED
      BY <1>4, <2>6, <3>1
  <2> QED
    BY <2>5, <2>8 DEF VenueMatchesBooks
<1> QED
  BY <1>5, <1>6, <1>7 DEF HarvInv

LEMMA UnwoundKeeps ==
  ASSUME HarvInv, MUnwound
  PROVE  HarvInv'
<1>1. mpc = "execute" /\ ex["monitor"].opp = active[mi] /\ mdrop' = mdrop \cup {active[mi]}
  BY DEF MUnwound, HarvInv, LoopShape
<1>2. Sound => pos[active[mi]] = Flat
  <2>1. ex["monitor"].stage = "done"
    BY DEF MUnwound, FullyFilled
  <2>2. Sound => UnwindLots(ex["monitor"])
    BY <1>1 DEF HarvInv, LotsMatch
  <2> QED
    BY <1>1, <2>1, <2>2 DEF UnwindLots
<1>3. mpc' = "visit" /\ ex' = [ex EXCEPT !["monitor"] = None]
  BY DEF MUnwound
<1>4. UNCHANGED <<pos, rest, books, feed, hvars, mi, mlen, mrisk, faults, astray, raced>>
  BY DEF MUnwound
<1> QED
  BY <1>1, <1>2, <1>3, <1>4, AfterUnwindKeeps

\* An unwind fills whole unless a venue failed.
LEMMA IncompleteKeeps ==
  ASSUME HarvInv, MIncomplete
  PROVE  HarvInv'
<1>1. mpc = "execute" /\ mdrop' = mdrop
  BY DEF MIncomplete
<1>2. ~Sound
  <2>1. ex["monitor"].stage = "done" /\ ~Filled(ex["monitor"])
    BY DEF MIncomplete, Failed
  <2>2. Sound => UnwindLots(ex["monitor"])
    BY <1>1 DEF HarvInv, LotsMatch
  <2>3. ASSUME ex["monitor"].got \in Full PROVE Filled(ex["monitor"])
    BY <2>3, HarvesterAssumption DEF Filled, Full
  <2> QED
    BY <2>1, <2>2, <2>3 DEF UnwindLots
<1>3. mpc' = "visit" /\ ex' = [ex EXCEPT !["monitor"] = None]
  BY DEF MIncomplete
<1>4. UNCHANGED <<pos, rest, books, feed, hvars, mi, mlen, mrisk, faults, astray, raced>>
  BY DEF MIncomplete
<1> QED
  BY <1>1, <1>2, <1>3, <1>4, AfterUnwindKeeps

LEMMA ErrorKeeps ==
  ASSUME HarvInv, MError
  PROVE  HarvInv'
<1> USE DEF books, hvars
<1>1. /\ mpc = "visit" /\ mpc' = "idle" /\ mi' = 0 /\ mlen' = 0 /\ mdrop' = {}
      /\ UNCHANGED <<pos, active, held, hpc, hopp, ex, faults, astray>>
      /\ raced' = (raced \/ mdrop # {}) /\ LoopShape /\ BookShape
  BY DEF MError, EndCycle, HarvInv
<1>2. \A q : Tracked(q)' <=> Tracked(q)
  BY <1>1 DEF Tracked
<1>3. LoopShape'
  BY <1>1, <1>2 DEF LoopShape
<1>4. BookShape'
  <2>1. Len(active) \in Nat
    BY <1>1 DEF BookShape
  <2> QED
    BY <1>1, <2>1 DEF BookShape
<1>5. Sound' => Sound /\ mdrop = {}
  BY <1>1 DEF Sound, Unharmed
<1>6. LotsMatch => LotsMatch'
  BY <1>1, <1>2 DEF LotsMatch, EntryLots
<1>7. VenueMatchesBooks /\ mdrop = {} => VenueMatchesBooks' \/ ~Sound
  BY <1>1, <1>2 DEF VenueMatchesBooks, Unharmed, InFlight, Sound
<1> QED
  BY <1>3, <1>4, <1>5, <1>6, <1>7 DEF HarvInv

LEMMA EndKeeps ==
  ASSUME HarvInv, MEnd
  PROVE  HarvInv'
<1> USE DEF hvars
<1>1. /\ mpc = "visit" /\ mpc' = "idle" /\ mi' = 0 /\ mlen' = 0 /\ mdrop' = {}
      /\ UNCHANGED <<pos, hpc, hopp, ex, faults, astray, raced>> /\ LoopShape /\ BookShape
      /\ active' = Without(active, mdrop)
      /\ held' = [o \in Opps |-> IF o \in mdrop THEN NotHeld ELSE held[o]]
  BY DEF MEnd, EndCycle, HarvInv
<1>2. /\ active' \in Seq(Opps) /\ OnceEach(active')
      /\ \A q : Tracked(q)' <=> Tracked(q) /\ q \notin mdrop
  <2>1. active \in Seq(Opps) /\ OnceEach(active)
    BY <1>1 DEF BookShape
  <2>2. /\ Without(active, mdrop) \in Seq(Opps) /\ OnceEach(Without(active, mdrop))
        /\ \A q : Contains(Without(active, mdrop), q) <=> Contains(active, q) /\ q \notin mdrop
    BY <2>1, WithoutKeepsOthers
  <2> QED
    BY <1>1, <2>2 DEF Tracked
<1>3. LoopShape'
  BY <1>1, <1>2 DEF LoopShape
<1>4. BookShape'
  <2>1. Len(active') \in Nat
    BY <1>2
  <2>2. DOMAIN held' = Opps /\ \A o \in Opps : DOMAIN held'[o] = {"entry", "sig", "seen"}
    BY <1>1 DEF BookShape, NotHeld
  <2> QED
    BY <1>1, <1>2, <2>1, <2>2 DEF BookShape
<1>5. ASSUME Sound' PROVE (LotsMatch /\ VenueMatchesBooks)'
  <2>1. Sound
    BY <1>1, <1>5 DEF Sound, Unharmed
  <2>2. LotsMatch /\ VenueMatchesBooks
    BY <2>1 DEF HarvInv
  <2>3. \A o \in Opps : Tracked(o)' => held'[o] = held[o] /\ Tracked(o)
    BY <1>1, <1>2
  <2>4. hpc' = "execute" => EntryLots(ex["harvest"])'
    BY <1>1, <2>2 DEF LotsMatch, EntryLots
  <2>5. LotsMatch'
    BY <1>1, <2>2, <2>3, <2>4 DEF LotsMatch
  <2>6. \A q \in Opps \ (InFlight \cup mdrop) : pos[q] = IF Tracked(q) THEN held[q].entry ELSE Flat
    BY <2>1, <2>2 DEF VenueMatchesBooks, Sound
  <2>7. ASSUME NEW q \in Opps \ (InFlight' \cup mdrop')
        PROVE  pos'[q] = IF Tracked(q)' THEN held'[q].entry ELSE Flat
    <3>1. q \notin InFlight
      BY <1>1, <2>7 DEF InFlight
    <3>2. CASE q \in mdrop
      BY <1>1, <1>2, <2>2, <3>2 DEF LotsMatch
    <3>3. CASE q \notin mdrop
      BY <1>1, <1>2, <2>3, <2>6, <3>1, <3>3
    <3> QED
      BY <3>2, <3>3
  <2> QED
    BY <2>5, <2>7 DEF VenueMatchesBooks
<1> QED
  BY <1>3, <1>4, <1>5 DEF HarvInv

LEMMA TickKeeps ==
  ASSUME HarvInv, Tick
  PROVE  HarvInv'
<1> USE DEF hvars, mvars
<1>1. /\ UNCHANGED <<pos, active, hpc, hopp, mpc, mi, mlen, mdrop, ex, faults, astray, raced>>
      /\ LoopShape /\ BookShape
  BY DEF Tick, HarvInv
<1>2. \A q : Tracked(q)' <=> Tracked(q)
  BY <1>1 DEF Tracked
<1>3. /\ DOMAIN held' = Opps
      /\ \A o \in Opps : DOMAIN held'[o] = {"entry", "sig", "seen"} /\ held'[o].entry = held[o].entry
  <2>1. DOMAIN held = Opps /\ \A o \in Opps : DOMAIN held[o] = {"entry", "sig", "seen"}
    BY <1>1 DEF BookShape
  <2>2. DOMAIN held' = Opps /\ \A o \in Opps : held'[o] = held[o] \/ \E n : held'[o] = [held[o] EXCEPT !.seen = n]
    BY DEF Tick
  <2> QED
    BY <2>1, <2>2
<1>4. LoopShape'
  BY <1>1, <1>2 DEF LoopShape
<1>5. BookShape'
  BY <1>1, <1>3 DEF BookShape, Visited
<1>6. Sound' => Sound
  BY <1>1 DEF Sound, Unharmed
<1>7. LotsMatch => LotsMatch'
  BY <1>1, <1>2, <1>3 DEF LotsMatch, EntryLots, UnwindLots
<1>8. VenueMatchesBooks => VenueMatchesBooks'
  BY <1>1, <1>2, <1>3 DEF VenueMatchesBooks, Unharmed, InFlight
<1> QED
  BY <1>4, <1>5, <1>6, <1>7, <1>8 DEF HarvInv
-----------------------------------------------------------------------------
LEMMA HarvestStep ==
  ASSUME HarvInv, RestIsAstray, [Next]_vars
  PROVE  HarvInv'
<1>1. CASE Harvesting
  BY <1>1, CheckKeeps, FetchKeeps, RecordKeeps, GiveUpKeeps DEF Harvesting
<1>2. CASE Monitoring
  BY <1>2, BeginKeeps, VisitKeeps, UnwoundKeeps, IncompleteKeeps, ErrorKeeps, EndKeeps DEF Monitoring
<1>3. CASE \E p \in Loops : Execution(p)
  BY <1>3, LegsKeep, LostKeeps DEF Execution
<1>4. CASE LateFill
  BY <1>4, LateKeeps
<1>5. CASE Tick
  BY <1>5, TickKeeps
<1>6. CASE Restart
  BY <1>6, RestartKeeps
<1>7. CASE UNCHANGED vars
  <2>1. UNCHANGED <<books, hvars, mvars, ex, pos, faults, astray, raced>>
    BY <1>7 DEF vars
  <2>2. LoopShape' /\ BookShape'
    BY <2>1, ShapesUntouched DEF HarvInv, BookShape
  <2>3. \A q : Tracked(q)' <=> Tracked(q)
    BY <2>1 DEF Tracked, books
  <2>4. (Sound' => Sound) /\ (LotsMatch => LotsMatch') /\ (VenueMatchesBooks => VenueMatchesBooks')
    BY <2>1, <2>3 DEF Sound, Unharmed, LotsMatch, EntryLots, UnwindLots, VenueMatchesBooks, InFlight, books, hvars, mvars
  <2> QED
    BY <2>2, <2>4 DEF HarvInv
<1> QED
  BY <1>1, <1>2, <1>3, <1>4, <1>5, <1>6, <1>7 DEF Next

\* The inductive invariant of the two loops.
THEOREM HarvesterInvariant == Spec => []HarvInv
<1>1. Init => HarvInv /\ RestIsAstray
  BY HarvestInitially DEF Init, RestIsAstray
<1>2. HarvInv /\ RestIsAstray /\ [Next]_vars => HarvInv' /\ RestIsAstray'
  BY HarvestStep, RestStaysAstray
<1> QED
  BY <1>1, <1>2, PTL DEF Spec

\* Unless a reply was lost, the bot restarted, an order ended astray or an iteration was
\* lost behind a filled unwind, the venues hold the entry fills of what is tracked and nothing else: the
\* recovery protocol takes back every one-legged entry (router.py:64).
THEOREM BooksAreTrue == Spec => []VenueMatchesBooks
<1>1. HarvInv => VenueMatchesBooks
  BY DEF HarvInv, VenueMatchesBooks, Sound, Unharmed
<1> QED
  BY <1>1, HarvesterInvariant, PTL

\* The harvester enters only what is not held and the monitor unwinds only what is, so
\* an unwind never meets the entry orders of its own position (main.py:229).
THEOREM LoopsStayApart == Spec => []NoCrossedExecutions
<1>1. HarvInv => NoCrossedExecutions
  BY ExecutionsApart DEF HarvInv
<1> QED
  BY <1>1, HarvesterInvariant, PTL
=============================================================================
