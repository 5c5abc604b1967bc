---------------------------- MODULE ServiceProofs ----------------------------
(***************************************************************************)
(* What works beside the engine, for any number of processes, sessions,      *)
(* names, venues, coins and rows: the tripwire chain, the sessions, the       *)
(* listings job, the real send, the desk, the discovery poll, the scans' pages *)
(* and files, the funding rows, the connectors and the walks of the books.    *)
(* Each part has its inductive invariant, one lemma per action, its theorem.  *)
(***************************************************************************)
EXTENDS TripwireChain, Sessions, EventJobs, RealSend, Desk, Discover, HistoryCache,
        FundingStore, Connectors, HistoryPager, Tripwires,
        FundingSpread, SumLemmas

-----------------------------------------------------------------------------
(* The tripwire chain.                                                      *)
Seen == {"ok", "no", "error", "changed", "skipped"}

ChainType ==
  /\ chain \in [Chains -> [on : BOOLEAN, seen : Seq(Seen), aborted : BOOLEAN]]
  /\ verdict \in [Chains -> {"none", "ERR", "PASS", "FAIL", "FAIL_HARD"}]
  /\ DOMAIN basis = Chains

\* A chain is aborted by its first check or not at all, and only an aborted one
\* skips.
SkipsAreAborted ==
  \A c \in Chains :
    /\ chain[c].aborted => Len(chain[c].seen) >= 1 /\ chain[c].seen[1] = "no"
    /\ ~chain[c].aborted => \A i \in 1 .. Len(chain[c].seen) : chain[c].seen[i] # "skipped"

ChainInv == ChainType /\ SkipsAreAborted /\ PassMeansAllSix

LEMMA SixChecks == Len(TW_NAMES) = 6 /\ TW_NAMES[1] = "identity"
                   /\ \A i \in 2 .. 6 : TW_NAMES[i] # "identity"
  BY DEF TW_NAMES

LEMMA OutcomesAreSeen ==
  ASSUME NEW name PROVE Outcomes(name) \subseteq Seen \ {"skipped"}
  BY DEF Outcomes, Seen

LEMMA ChainStarts == ChainInit => ChainInv
  BY DEF ChainInit, ChainInv, ChainType, SkipsAreAborted, PassMeansAllSix, NotRunning

\* The verdict of six rows is PASS only if each of them says ok: a skipped row
\* stands behind a first row that failed.
LEMMA PassIsSixTimesOk ==
  ASSUME NEW c \in Chains, ChainType, SkipsAreAborted,
         Len(chain[c].seen) = Len(TW_NAMES), VerdictOf(Rows(c)) = "PASS"
  PROVE  chain[c].seen = [i \in 1 .. Len(TW_NAMES) |-> "ok"]
<1> DEFINE s == chain[c].seen
<1>1. s \in Seq(Seen) /\ Len(s) = 6 /\ DOMAIN s = 1 .. 6
  BY SixChecks DEF ChainType
<1>2. Rows(c) = [i \in 1 .. 6 |-> Logged(s[i])]
  BY <1>1 DEF Rows
<1>3. /\ Rows(c)[1] # "fail"
      /\ "fail" \notin ToSet(Rows(c))
  BY DEF VerdictOf
<1>4. \A i \in 1 .. 6 : Logged(s[i]) # "fail"
  BY <1>2, <1>3 DEF ToSet
<1>5. \A i \in 1 .. 6 : s[i] \in {"ok", "skipped"}
  BY <1>4 DEF Logged
<1>6. ~chain[c].aborted
  BY <1>1, <1>5 DEF SkipsAreAborted
<1>7. \A i \in 1 .. 6 : s[i] = "ok"
  BY <1>1, <1>5, <1>6 DEF SkipsAreAborted
<1> QED
  BY <1>1, <1>7, SixChecks

LEMMA CheckKeeps ==
  ASSUME ChainInv, NEW c \in Chains, Check(c) PROVE ChainInv'
<1> DEFINE i == Len(chain[c].seen) + 1
<1>1. PICK o \in Outcomes(TW_NAMES[i]) :
        chain' = [chain EXCEPT ![c].seen = Append(@, o),
                               ![c].aborted = Stops(TW_NAMES[i], o)]
  BY DEF Check
<1>2. chain[c].seen \in Seq(Seen) /\ i \in Nat /\ i >= 1 /\ i <= 6 /\ ~chain[c].aborted
  BY SixChecks DEF ChainInv, ChainType, Check
<1>3. o \in Seen /\ o # "skipped"
  BY OutcomesAreSeen
<1>4. /\ chain'[c].seen = Append(chain[c].seen, o)
      /\ chain'[c].aborted = Stops(TW_NAMES[i], o)
      /\ chain'[c].on = chain[c].on
      /\ \A other \in Chains : other # c => chain'[other] = chain[other]
  BY <1>1 DEF ChainInv, ChainType
<1>5. ChainType'
  <2>1. Append(chain[c].seen, o) \in Seq(Seen) /\ Stops(TW_NAMES[i], o) \in BOOLEAN
    BY <1>2, <1>3 DEF Stops
  <2>2. [chain[c] EXCEPT !.seen = Append(@, o), !.aborted = Stops(TW_NAMES[i], o)]
          \in [on : BOOLEAN, seen : Seq(Seen), aborted : BOOLEAN]
    BY <2>1 DEF ChainInv, ChainType
  <2>3. chain' = [chain EXCEPT ![c] = [chain[c] EXCEPT !.seen = Append(@, o),
                                                       !.aborted = Stops(TW_NAMES[i], o)]]
    BY <1>1 DEF ChainInv, ChainType
  <2> QED
    BY <2>2, <2>3 DEF ChainInv, ChainType, Check
<1>6. Stops(TW_NAMES[i], o) => i = 1 /\ o = "no"
  BY <1>2, SixChecks DEF Stops
<1>7. SkipsAreAborted'
  <2>1. \A j \in 1 .. Len(chain[c].seen) : chain[c].seen[j] # "skipped"
    BY <1>2 DEF ChainInv, SkipsAreAborted
  <2>2. /\ Len(chain'[c].seen) = i /\ chain'[c].seen[i] = o
        /\ \A j \in 1 .. Len(chain[c].seen) : chain'[c].seen[j] = chain[c].seen[j]
    BY <1>2, <1>4
  <2>3. chain'[c].aborted => Len(chain'[c].seen) >= 1 /\ chain'[c].seen[1] = "no"
    BY <1>4, <1>6, <2>2
  <2>4. \A j \in 1 .. Len(chain'[c].seen) : chain'[c].seen[j] # "skipped"
    BY <1>2, <1>3, <2>1, <2>2
  <2> QED
    BY <1>4, <2>3, <2>4 DEF ChainInv, SkipsAreAborted
<1>8. PassMeansAllSix'
  BY DEF ChainInv, PassMeansAllSix, Check
<1> QED
  BY <1>5, <1>7, <1>8 DEF ChainInv

LEMMA SkipKeeps ==
  ASSUME ChainInv, NEW c \in Chains, Skip(c) PROVE ChainInv'
<1>1. chain[c].seen \in Seq(Seen) /\ chain[c].aborted
  BY DEF ChainInv, ChainType, Skip
<1>2. /\ chain'[c].seen = Append(chain[c].seen, "skipped")
      /\ chain'[c].aborted = chain[c].aborted /\ chain'[c].on = chain[c].on
      /\ \A other \in Chains : other # c => chain'[other] = chain[other]
  BY DEF ChainInv, ChainType, Skip
<1>3. ChainType'
  <2>1. Append(chain[c].seen, "skipped") \in Seq(Seen)
    BY <1>1 DEF Seen
  <2>2. [chain[c] EXCEPT !.seen = Append(@, "skipped")]
          \in [on : BOOLEAN, seen : Seq(Seen), aborted : BOOLEAN]
    BY <2>1 DEF ChainInv, ChainType
  <2> QED
    BY <2>2 DEF ChainInv, ChainType, Skip
<1>4. SkipsAreAborted'
  <2>1. Len(chain[c].seen) >= 1 /\ chain[c].seen[1] = "no"
    BY <1>1 DEF ChainInv, SkipsAreAborted
  <2>2. Len(chain'[c].seen) >= 1 /\ chain'[c].seen[1] = "no"
    BY <1>1, <1>2, <2>1
  <2> QED
    BY <1>1, <1>2, <2>2 DEF ChainInv, SkipsAreAborted
<1>5. PassMeansAllSix'
  BY DEF ChainInv, PassMeansAllSix, Skip
<1> QED
  BY <1>3, <1>4, <1>5 DEF ChainInv

LEMMA ConcludeKeeps ==
  ASSUME ChainInv, NEW c \in Chains, Conclude(c) PROVE ChainInv'
<1>1. VerdictOf(Rows(c)) \in {"PASS", "FAIL", "FAIL_HARD"}
  BY DEF VerdictOf
<1>2. ChainType'
  BY <1>1 DEF ChainInv, ChainType, Conclude, NotRunning
<1>3. SkipsAreAborted'
  BY DEF ChainInv, ChainType, SkipsAreAborted, Conclude, NotRunning
<1>4. PassMeansAllSix'
  <2>1. /\ verdict'[c] = VerdictOf(Rows(c)) /\ basis'[c] = chain[c].seen
        /\ \A other \in Chains : other # c => verdict'[other] = verdict[other] /\ basis'[other] = basis[other]
    BY DEF ChainInv, ChainType, Conclude
  <2>2. VerdictOf(Rows(c)) = "PASS" => chain[c].seen = [i \in 1 .. Len(TW_NAMES) |-> "ok"]
    BY PassIsSixTimesOk DEF ChainInv, Conclude
  <2> QED
    BY <2>1, <2>2 DEF ChainInv, PassMeansAllSix
<1> QED
  BY <1>2, <1>3, <1>4 DEF ChainInv

LEMMA ChainOthersKeep ==
  ASSUME ChainInv, NEW c \in Chains, Begin(c) \/ LogFails(c) PROVE ChainInv'
<1>1. PICK b \in BOOLEAN : chain' = [chain EXCEPT ![c] = [on |-> b, seen |-> <<>>, aborted |-> FALSE]]
  BY Zenon DEF Begin, LogFails, NotRunning, Started
<1>2. [on |-> b, seen |-> <<>>, aborted |-> FALSE] \in [on : BOOLEAN, seen : Seq(Seen), aborted : BOOLEAN]
  OBVIOUS
<1>3. chain' \in [Chains -> [on : BOOLEAN, seen : Seq(Seen), aborted : BOOLEAN]]
  BY <1>1, <1>2 DEF ChainInv, ChainType
<1>4. ChainType'
  BY <1>3 DEF ChainInv, ChainType, Begin, LogFails
<1>5. /\ chain'[c].aborted = FALSE /\ Len(chain'[c].seen) = 0
      /\ \A other \in Chains : other # c => chain'[other] = chain[other]
  BY <1>1 DEF ChainInv, ChainType
<1>6. SkipsAreAborted'
  BY <1>5 DEF ChainInv, SkipsAreAborted
<1>7. PassMeansAllSix'
  BY DEF ChainInv, ChainType, PassMeansAllSix, Begin, LogFails
<1> QED
  BY <1>4, <1>6, <1>7 DEF ChainInv

\* The inductive invariant of run_chain (v3_tripwires.py:382).
THEOREM ChainInvariant == ChainSpec => []ChainInv
<1>1. ChainInv /\ [ChainNext]_chainVars => ChainInv'
  <2> SUFFICES ASSUME ChainInv, [ChainNext]_chainVars PROVE ChainInv'
    OBVIOUS
  <2>1. ASSUME NEW c \in Chains, Begin(c) \/ Check(c) \/ Skip(c) \/ Conclude(c) \/ LogFails(c)
        PROVE  ChainInv'
    BY <2>1, CheckKeeps, SkipKeeps, ConcludeKeeps, ChainOthersKeep
  <2>2. CASE Thaw
    BY <2>2 DEF Thaw, ChainInv, ChainType, SkipsAreAborted, PassMeansAllSix
  <2>3. CASE UNCHANGED chainVars
    BY <2>3 DEF chainVars, ChainInv, ChainType, SkipsAreAborted, PassMeansAllSix
  <2> QED
    BY <2>1, <2>2, <2>3 DEF ChainNext
<1> QED
  BY ChainStarts, <1>1, PTL DEF ChainSpec

\* The engine enters only on PASS (v3_exec.py:1205): it stands on six checks of
\* that very chain, however many chains run, skip, fail or lose their log.
THEOREM PassStandsOnSixChecks == ChainSpec => []PassMeansAllSix
  BY ChainInvariant, PTL DEF ChainInv

-----------------------------------------------------------------------------
(* The HTTP session four programs hand around.                              *)
\* Outside its block a program holds nothing open; only the engine keeps stale
\* module variables.
Outside ==
  /\ at = "out" /\ own = No /\ open = {} /\ owned = FALSE
  /\ program # "engine" => ds = No /\ vc = No

\* Inside, all hold the session the program opened, or vc holds none yet.
Inside ==
  /\ program # "cli" /\ at # "out"
  /\ own \in Ids /\ open = {own} /\ ds = own /\ owned = FALSE /\ vc \in {No, own}
  /\ at = "chain" \/ (at = "in" /\ program \in {"engine", "desk"}) => vc = own

\* The chain run from its command line holds the one session it made.
OwnChain ==
  /\ program = "cli" /\ at = "chain" /\ own = No
  /\ vc \in Ids /\ open = {vc} /\ ds = vc /\ owned = TRUE

Places ==
  /\ at \in {"out", "in", "chain", "readopt"}
  /\ at = "readopt" => program = "engine"
  /\ at = "chain" => program # "desk"

SessionInv == Places /\ (Outside \/ Inside \/ OwnChain)

LEMMA EnterKeeps == SessionInv /\ Enter => SessionInv'
<1> SUFFICES ASSUME SessionInv, Enter PROVE Places' /\ Inside'
  BY DEF SessionInv
<1>1. Outside
  BY DEF SessionInv, Inside, OwnChain, Enter
<1>2. PICK s \in Unused : own' = s /\ open' = open \cup {s} /\ ds' = s
  BY DEF Enter
<1>3. s \in Ids /\ s # No
  BY SessionBounds DEF Unused
<1>4. vc' \in {No, s} /\ owned' = FALSE
  BY <1>1, <1>2 DEF Enter, Outside
<1>5. program \in {"engine", "desk"} => vc' = s
  BY <1>2 DEF Enter
<1> QED
  BY <1>1, <1>2, <1>3, <1>4, <1>5 DEF Enter, Inside, Outside, Places

LEMMA ChainBeginsKeeps == SessionInv /\ ChainBegins => SessionInv'
<1> SUFFICES ASSUME SessionInv, ChainBegins PROVE SessionInv'
  OBVIOUS
<1> USE SessionBounds DEF ChainBegins, SessionInv, Places
<1>1. CASE Inside
  <2>1. vc' = own /\ ds' = own /\ owned' = FALSE /\ open' = open
    BY <1>1 DEF Inside, init, Adoptable
  <2> QED
    BY <1>1, <2>1 DEF Inside
<1>2. CASE Outside
  <2>1. program = "cli" /\ vc = No /\ ds = No /\ open = {}
    BY <1>2 DEF Outside
  <2>2. \E s \in Unused : vc' = s /\ ds' = s /\ owned' = TRUE /\ open' = open \cup {s}
    BY <2>1 DEF init, Adoptable
  <2> QED
    BY <1>2, <2>1, <2>2 DEF Outside, OwnChain, Unused
<1> QED
  BY <1>1, <1>2 DEF OwnChain

LEMMA ChainEndsKeeps == SessionInv /\ ChainEnds => SessionInv'
<1> SUFFICES ASSUME SessionInv, ChainEnds PROVE SessionInv'
  OBVIOUS
<1> USE SessionBounds DEF ChainEnds, SessionInv, Places
<1>1. CASE Inside
  BY <1>1 DEF Inside
<1>2. CASE OwnChain
  BY <1>2 DEF OwnChain, Outside
<1> QED
  BY <1>1, <1>2 DEF Outside

LEMMA ChainFailsKeeps == SessionInv /\ ChainFails => SessionInv'
  BY DEF ChainFails, SessionInv, Places, Inside, Outside, OwnChain

LEMMA ReadoptKeeps == SessionInv /\ Readopt => SessionInv'
<1> SUFFICES ASSUME SessionInv, Readopt PROVE SessionInv'
  OBVIOUS
<1>1. Inside
  BY DEF SessionInv, Outside, OwnChain, Readopt
<1>2. vc' = own /\ ds' = own /\ owned' = FALSE /\ open' = open
  BY <1>1, SessionBounds DEF Readopt, Inside, init, Adoptable
<1> QED
  BY <1>1, <1>2 DEF Readopt, SessionInv, Places, Inside

LEMMA LeaveKeeps == SessionInv /\ Leave => SessionInv'
<1> SUFFICES ASSUME SessionInv, Leave PROVE Outside'
  BY DEF SessionInv, Outside, Places
<1>1. Inside
  BY DEF SessionInv, Outside, OwnChain, Leave
<1> QED
  BY <1>1 DEF Leave, Inside, Outside

\* The inductive invariant of the session variables (v3_connectors.py:635).
THEOREM SessionInvariant == SessionSpec => []SessionInv
<1>1. SessionInit => SessionInv
  BY DEF SessionInit, SessionInv, Places, Outside, Programs
<1>2. SessionInv /\ [SessionNext]_sessionVars => SessionInv'
  <2>1. SessionInv /\ UNCHANGED sessionVars => SessionInv'
    BY DEF sessionVars, SessionInv, Places, Outside, Inside, OwnChain
  <2> QED
    BY <2>1, EnterKeeps, ChainBeginsKeeps, ChainEndsKeeps, ChainFailsKeeps, ReadoptKeeps, LeaveKeeps
       DEF SessionNext
<1> QED
  BY <1>1, <1>2, PTL DEF SessionSpec

\* Whatever chains a program runs and however they end, it fetches with open
\* sessions and leaves none behind (v3_connectors.py:635).
THEOREM SessionsHandedOver == SessionSpec => []SessionsAreHandedOver
<1>1. SessionInv => SessionsAreHandedOver
  BY SessionBounds DEF SessionInv, Outside, Inside, OwnChain, SessionsAreHandedOver,
     FetchesUseOpenSession, NoSessionLeaks
<1> QED
  BY <1>1, SessionInvariant, PTL

-----------------------------------------------------------------------------
(* The listings job.                                                        *)
\* While the diff runs, a name that left the feed is written or still to be.
DiffIsCovered == stage = "diff" => baseline \ live \subseteq gone \cup report

EventInv == NoMissedDelisting /\ DiffIsCovered

\* The inductive invariant of run_listings (v3_events.py:229).
THEOREM EventInvariant == EventSpec => []EventInv
<1> USE DEF EventInv, NoMissedDelisting, DiffIsCovered
<1>1. EventInit => EventInv
  BY DEF EventInit
<1>2. EventInv /\ [EventNext]_eventVars => EventInv'
  <2> SUFFICES ASSUME EventInv, [EventNext]_eventVars PROVE EventInv'
    OBVIOUS
  <2>1. CASE Fetch
    BY <2>1 DEF Fetch
  <2>2. CASE Delisted
    BY <2>2 DEF Delisted
  <2>3. CASE SetBaseline
    <3>1. baseline \ live \subseteq gone /\ tracked \ baseline \subseteq gone
      BY <2>3 DEF SetBaseline, Ready
    <3>2. (tracked \cup live) \ live \subseteq gone \ live
      BY <3>1
    <3>3. baseline' \ live' \subseteq gone'
      BY <2>3 DEF SetBaseline
    <3> QED
      BY <2>3, <3>2, <3>3 DEF SetBaseline
  <2>4. CASE HeldAlerts \/ Dies \/ NoFeed \/ DayPasses \/ Market
    BY <2>4 DEF HeldAlerts, Dies, NoFeed, DayPasses, Market
  <2>5. CASE UNCHANGED eventVars
    BY <2>5 DEF eventVars
  <2> QED
    BY <2>1, <2>2, <2>3, <2>4, <2>5 DEF EventNext
<1> QED
  BY <1>1, <1>2, PTL DEF EventSpec

\* A name leaves the baseline only after its delisting was written
\* (v3_events.py:262), wherever the job dies.
THEOREM DelistingIsWritten == EventSpec => []NoMissedDelisting
  BY EventInvariant, PTL DEF EventInv

-----------------------------------------------------------------------------
(* The way to a real order.                                                 *)
\* What a process has loaded was valid when it was loaded, and a client is one
\* of a venue whose signer is shipped.
SendInv ==
  /\ \A s \in settings : valid(s)
  /\ \A c \in client : c.venue \in Shipped
  /\ RealSendNeedsAllGates

LEMMA RequestKeeps ==
  ASSUME SendInv, NEW c \in client, NEW s \in settings, Request(c, s)
  PROVE  SendInv'
<1> DEFINE x == [venue |-> c.venue, with |-> s, nr |-> Cardinality(sends) + 1]
<1>1. CASE require_real(c, s) /\ ~c.dry
  <2>1. ~s.dry /\ s.yes /\ ladder_max(c.venue) >= 3
    BY <1>1 DEF require_real
  <2>2. s.mode = "live"
    BY <2>1 DEF SendInv, valid
  <2>3. c.venue \in exec_ready
    BY DEF SendInv, exec_ready
  <2>4. s.filled[c.venue] = fields(c.venue)
    BY DEF Request, Credentialed
  <2>5. /\ x.venue = c.venue /\ x.with = s
        /\ sends' = sends \cup {x}
    BY <1>1 DEF Request
  <2>6. RealSendNeedsAllGates'
    BY <2>1, <2>2, <2>3, <2>4, <2>5 DEF SendInv, RealSendNeedsAllGates
  <2> QED
    BY <2>6 DEF SendInv, Request
<1>2. CASE ~(require_real(c, s) /\ ~c.dry)
  BY <1>2 DEF SendInv, Request, RealSendNeedsAllGates
<1> QED
  BY <1>1, <1>2

\* The inductive invariant of SignedRestClient under get_settings
\* (v3_venue_adapters.py:371).
THEOREM SendInvariant == SendSpec => []SendInv
<1>1. SendInit => SendInv
  BY DEF SendInit, SendInv, RealSendNeedsAllGates
<1>2. SendInv /\ [SendNext]_sendVars => SendInv'
  <2> SUFFICES ASSUME SendInv, [SendNext]_sendVars PROVE SendInv'
    OBVIOUS
  <2>1. CASE EditEnv
    BY <2>1 DEF EditEnv, SendInv, RealSendNeedsAllGates
  <2>2. CASE get_settings
    BY <2>2 DEF get_settings, SendInv, RealSendNeedsAllGates
  <2>3. CASE Restart
    BY <2>3 DEF Restart, SendInv, RealSendNeedsAllGates
  <2>4. ASSUME NEW v \in SendVenues, NEW dry \in BOOLEAN, Construct(v, dry) PROVE SendInv'
    <3>1. client' = {[venue |-> v, dry |-> dry]} /\ v \in Shipped
      BY <2>4 DEF Construct
    <3>2. \A c \in client' : c.venue \in Shipped
      BY <3>1
    <3> QED
      BY <2>4, <3>2 DEF Construct, SendInv, RealSendNeedsAllGates
  <2>5. ASSUME NEW c \in client, NEW s \in settings, Request(c, s) PROVE SendInv'
    BY <2>5, RequestKeeps
  <2>6. CASE UNCHANGED sendVars
    BY <2>6 DEF sendVars, SendInv, RealSendNeedsAllGates
  <2> QED
    BY <2>1, <2>2, <2>3, <2>4, <2>5, <2>6 DEF SendNext
<1> QED
  BY <1>1, <1>2, PTL DEF SendSpec

\* No edit, no restart and no dry client opens a gate: a real order has all of
\* them behind it (v3_venue_adapters.py:10).
THEOREM RealSendsAreGated == SendSpec => []RealSendNeedsAllGates
  BY SendInvariant, PTL DEF SendInv

-----------------------------------------------------------------------------
(* The desk's choice.                                                       *)
\* A row of pass 2 has its leg's rate, and its leg's price or that of pass 1.
RowsFromContext ==
  \A r \in surface : /\ r.p \in DOMAIN ctx /\ r.h = ctx[r.p].h
                  /\ r.bid \in {ctx[r.p].bid, pass1.bid}

\* A leg's context is asked once and kept.
LEMMA AskKeepsContext ==
  ASSUME RowsFromContext, Ask PROVE RowsFromContext'
<1>1. PICK r \in Pending, native \in DeskRates \cup {Unknown}, bid \in Marks \cup {Unknown} :
        LET got == [h |-> IF native # Unknown THEN native ELSE r.h, bid |-> bid]
        IN  ctx' = [p \in DOMAIN ctx \cup {r.p} |-> IF p = r.p THEN got ELSE ctx[p]]
  BY DEF Ask
<1> DEFINE leg == r.p
<1>2. leg \notin DOMAIN ctx
  BY <1>1 DEF Pending
<1>3. \A p \in DOMAIN ctx : p \in DOMAIN ctx' /\ ctx'[p] = ctx[p]
  <2> DEFINE got == [h |-> IF native # Unknown THEN native ELSE r.h, bid |-> bid]
  <2>1. ctx' = [p \in DOMAIN ctx \cup {leg} |-> IF p = leg THEN got ELSE ctx[p]]
    BY <1>1
  <2> HIDE DEF leg, got
  <2> QED
    BY <1>2, <2>1
<1>4. surface' = surface /\ pass1' = pass1
  BY DEF Ask
<1> QED
  BY <1>3, <1>4 DEF RowsFromContext

\* A row is made from its leg's context.
LEMMA EnrichUsesContext ==
  ASSUME RowsFromContext, Enrich PROVE RowsFromContext'
<1>1. PICK r \in kept, ask \in Marks \cup {Unknown} :
        LET priced == Priced(ctx[r.p], ask)
        IN  surface' = surface \cup {basis_row(r.s, r.p, priced.ask, priced.bid, ctx[r.p].h)}
  BY DEF Enrich
<1> DEFINE priced == Priced(ctx[r.p], ask)
           new == basis_row(r.s, r.p, priced.ask, priced.bid, ctx[r.p].h)
<1>2. r.p \in DOMAIN ctx
  BY DEF Enrich, Pending
<1>3. priced.bid \in {ctx[r.p].bid, pass1.bid}
  BY DEF Priced
<1>4. new.p = r.p /\ new.h = ctx[r.p].h /\ new.bid = priced.bid
  BY DEF basis_row
<1>5. surface' = surface \cup {new} /\ ctx' = ctx /\ pass1' = pass1
  BY <1>1 DEF Enrich
<1> HIDE DEF new, priced
<1> QED
  BY <1>2, <1>3, <1>4, <1>5 DEF RowsFromContext

\* Rows that share a perp leg agree on its rate and, by books, on its price: for any
\* venues, rates and numbers of rows (v3_desk.py:737).
THEOREM LegsAgree == DeskSpec => []BasisRowsAgree
<1>1. DeskInit => RowsFromContext
  BY DEF DeskInit, RowsFromContext
<1>2. RowsFromContext /\ [DeskNext]_deskVars => RowsFromContext'
  <2>1. RowsFromContext /\ UNCHANGED deskVars => RowsFromContext'
    BY DEF RowsFromContext, deskVars
  <2> QED
    BY <2>1, AskKeepsContext, EnrichUsesContext DEF DeskNext
<1>3. RowsFromContext => BasisRowsAgree
  BY DEF RowsFromContext, BasisRowsAgree, Shown
<1> QED
  BY <1>1, <1>2, <1>3, PTL DEF DeskSpec

-----------------------------------------------------------------------------
(* The daily poll.                                                          *)
DiscoverType ==
  /\ day \in 1 .. MaxDays
  /\ watchlist.day \in 0 .. day
  /\ DOMAIN first = 1 .. MaxDays

\* What is new today does not depend on today's rows, so that every poll of the
\* day finds the same.
OneAnswerADay ==
  /\ poll \subseteq {NewCoins} /\ first[day] \subseteq {NewCoins}
  /\ \A dy \in 1 .. MaxDays : dy > day => first[dy] = {}

DiscoverInv == DiscoverType /\ OneAnswerADay /\ RepeatedPollAgrees

\* Replacing today's rows leaves those of the other days.
LEMMA StoreTableKeepsNews == StoreTable => NewCoins' = NewCoins
<1> SUFFICES ASSUME StoreTable PROVE NewCoins' = NewCoins
  OBVIOUS
<1> DEFINE today == [day : {day}, coin : DOMAIN feed]
<1>1. {r \in candidates' : r.day # day} = {r \in candidates : r.day # day}
  BY DEF StoreTable
<1>2. day' = day /\ feed' = feed
  BY DEF StoreTable
<1> QED
  BY <1>1, <1>2 DEF NewCoins, _known_coins

LEMMA StoreTableKeeps == DiscoverInv /\ StoreTable => DiscoverInv'
  BY StoreTableKeepsNews DEF StoreTable, DiscoverInv, DiscoverType, OneAnswerADay, RepeatedPollAgrees

LEMMA WriteWatchlistKeeps == DiscoverInv /\ WriteWatchlist => DiscoverInv'
<1> SUFFICES ASSUME DiscoverInv, WriteWatchlist PROVE DiscoverInv'
  OBVIOUS
<1> USE DEF DiscoverInv, DiscoverType
<1>1. NewCoins' = NewCoins
  BY DEF WriteWatchlist, NewCoins, _known_coins
<1>2. watchlist' = [day |-> day, coins |-> NewCoins]
  BY DEF WriteWatchlist, OneAnswerADay
<1>3. first' = IF first[day] = {} THEN [first EXCEPT ![day] = {NewCoins}] ELSE first
  BY DEF WriteWatchlist, OneAnswerADay
<1>4. first'[day] = {NewCoins}
  BY <1>3 DEF OneAnswerADay
<1>5. DOMAIN first' = 1 .. MaxDays /\ \A dy \in 1 .. MaxDays : dy # day => first'[dy] = first[dy]
  BY <1>3
<1>6. DiscoverType'
  BY <1>2, <1>5, DiscoverBounds DEF WriteWatchlist
<1>7. OneAnswerADay'
  BY <1>1, <1>4, <1>5 DEF OneAnswerADay, WriteWatchlist
<1>8. RepeatedPollAgrees'
  BY <1>2, <1>4 DEF RepeatedPollAgrees
<1> QED
  BY <1>6, <1>7, <1>8

LEMMA NextDayKeeps == DiscoverInv /\ NextDay => DiscoverInv'
  BY DiscoverBounds DEF NextDay, DiscoverInv, DiscoverType, OneAnswerADay, RepeatedPollAgrees

LEMMA PollDiesKeeps == DiscoverInv /\ PollDies => DiscoverInv'
  BY DEF PollDies, DiscoverInv, DiscoverType, OneAnswerADay, RepeatedPollAgrees, NewCoins, _known_coins

\* The inductive invariant of the discovery poll (v3_scanner.py:329).
THEOREM DiscoverInvariant == DiscoverSpec => []DiscoverInv
<1>1. DiscoverInit => DiscoverInv
  BY DiscoverBounds DEF DiscoverInit, DiscoverInv, DiscoverType, OneAnswerADay, RepeatedPollAgrees
<1>2. DiscoverInv /\ UNCHANGED discoverVars => DiscoverInv'
  BY DEF discoverVars, DiscoverInv, DiscoverType, OneAnswerADay, RepeatedPollAgrees, NewCoins, _known_coins
<1>3. DiscoverInv /\ [DiscoverNext]_discoverVars => DiscoverInv'
  BY <1>2, StoreTableKeeps, WriteWatchlistKeeps, NextDayKeeps, PollDiesKeeps DEF DiscoverNext
<1> QED
  BY <1>1, <1>3, PTL DEF DiscoverSpec

\* A poll repeated on a day, after one that died or one that finished, writes
\* the watchlist the first one wrote (v3_scanner.py:337).
THEOREM PollIsIdempotent == DiscoverSpec => []RepeatedPollAgrees
  BY DiscoverInvariant, PTL DEF DiscoverInv

-----------------------------------------------------------------------------
(* The files the scans resume from.                                         *)
\* What the process holds is by coin, and a coin that is out of the way in a
\* collecting run of v2 has every history it wanted, good or asked for.
ScanType ==
  /\ scan \in {"v1", "v2", "sharpe"} /\ saving \in BOOLEAN
  /\ scanAt \in {"idle", "collecting", "last save", "finished"}
  /\ file = Torn \/ DOMAIN file \subseteq Coins
  /\ DOMAIN cache \subseteq Coins /\ busy \subseteq Coins /\ done \subseteq Coins

Answered(c) == \A v \in cand[c] : Has(c, v) /\ (cache[c][v] = "good" \/ <<c, v>> \in tried)

DoneIsAnswered ==
  scan = "v2" /\ scanAt # "idle" =>
    /\ \A c \in done : Answered(c)
    /\ scanAt \in {"last save", "finished"} => done = Coins

\* The Sharpe scan pulls one coin at a time, and the checkpoint is the cache but
\* for the coin whose file is being written.
CheckpointFollows ==
  scan = "sharpe" =>
    /\ file # Torn
    /\ scanAt # "idle" =>
         /\ \E b \in Coins : busy \subseteq {b} /\ busy \cap DOMAIN cache = {}
         /\ \A c \in DOMAIN file : c \in DOMAIN cache /\ cache[c] = file[c]
         /\ \E c \in Coins : DOMAIN cache \ DOMAIN file \subseteq {c}
         /\ ~saving => cache = file

CacheInv == ScanType /\ DoneIsAnswered /\ CheckpointFollows

LEMMA CacheStarts == CacheInit => CacheInv
<1> SUFFICES ASSUME CacheInit PROVE CacheInv
  OBVIOUS
<1>1. DOMAIN NoCache = {} /\ DOMAIN Torn = {"torn"}
  BY DEF NoCache, Torn
<1>2. NoCache # Torn
  BY <1>1
<1> QED
  BY <1>1, <1>2 DEF CacheInit, CacheInv, ScanType, DoneIsAnswered, CheckpointFollows

LEMMA StartScanKeeps ==
  ASSUME CacheInv, StartScan PROVE CacheInv'
<1>0. DOMAIN NoCache = {}
  BY DEF NoCache
<1>1. ScanType'
  BY <1>0 DEF StartScan, CacheInv, ScanType, CheckpointFollows
<1>2. DoneIsAnswered'
  BY DEF StartScan, CacheInv, DoneIsAnswered, Answered
<1>3. CheckpointFollows'
  BY DEF StartScan, CacheInv, CheckpointFollows
<1> QED
  BY <1>1, <1>2, <1>3 DEF CacheInv

LEMMA BeginCoinKeeps ==
  ASSUME CacheInv, NEW c \in Coins, BeginCoin(c) PROVE CacheInv'
<1>1. ScanType'
  BY DEF BeginCoin, CacheInv, ScanType, Waiting
<1>2. DoneIsAnswered'
  <2>1. scan = "v2" /\ Cached(c) => Answered(c)
    BY DEF Cached, Answered, Has
  <2>2. UNCHANGED <<scan, cand, cache, tried, scanAt>> /\ done' \subseteq done \cup {c}
        /\ (done' = done \/ Cached(c)) /\ scanAt = "collecting"
    BY DEF BeginCoin
  <2>3. \A x \in Coins : Answered(x)' <=> Answered(x)
    BY <2>2 DEF Answered, Has
  <2> QED
    BY <2>1, <2>2, <2>3 DEF CacheInv, ScanType, DoneIsAnswered
<1>3. CheckpointFollows'
  <2> SUFFICES ASSUME scan = "sharpe" PROVE CheckpointFollows'
    BY DEF BeginCoin, CheckpointFollows
  <2>1. UNCHANGED <<scan, cache, file, saving, scanAt>> /\ scanAt # "idle"
    BY DEF BeginCoin
  <2>2. \E b \in Coins : busy' \subseteq {b} /\ busy' \cap DOMAIN cache = {}
    <3>1. CASE Cached(c)
      BY <3>1, <2>1 DEF BeginCoin, CacheInv, CheckpointFollows
    <3>2. CASE ~Cached(c)
      <4>1. busy' = busy \cup {c} /\ c \notin DOMAIN cache /\ Cardinality(busy) < 1
        BY <3>2 DEF BeginCoin, Cached
      <4>2. IsFiniteSet(busy)
        BY CacheBounds, FS_Subset DEF CacheInv, ScanType
      <4>3. busy = {}
        BY <4>1, <4>2, FS_CardinalityType, FS_EmptySet
      <4> QED
        BY <4>1, <4>3
    <3> QED
      BY <3>1, <3>2
  <2> QED
    BY <2>1, <2>2 DEF CacheInv, CheckpointFollows
<1> QED
  BY <1>1, <1>2, <1>3 DEF CacheInv

LEMMA CollectedKeeps ==
  ASSUME CacheInv, NEW c \in Coins, NEW h \in [cand[c] -> Histories], Collected(c, h)
  PROVE  CacheInv'
<1>1. /\ DOMAIN cache' = DOMAIN cache \cup {c} /\ cache'[c] = h
      /\ \A x \in DOMAIN cache : x # c => cache'[x] = cache[x]
      /\ scanAt = "collecting" /\ c \in busy /\ UNCHANGED <<scan, cand, runs, scanAt>>
      /\ busy' = busy \ {c} /\ done' = done \cup {c} /\ tried' = tried \cup {c} \X DOMAIN h
      /\ saving' \in BOOLEAN
  BY DEF Collected
<1>2. ScanType'
  BY <1>1 DEF Collected, CacheInv, ScanType
<1>3. DoneIsAnswered'
  <2> SUFFICES ASSUME scan = "v2", NEW x \in done' PROVE Answered(x)'
    BY <1>1 DEF DoneIsAnswered
  <2>1. CASE x = c
    <3>1. DOMAIN h = cand[c]
      OBVIOUS
    <3>2. \A v \in cand[c] : <<c, v>> \in tried'
      BY <1>1, <3>1
    <3> QED
      BY <1>1, <2>1, <3>1, <3>2 DEF Answered, Has
  <2>2. CASE x # c
    <3>1. x \in done /\ Answered(x)
      BY <1>1, <2>2 DEF CacheInv, DoneIsAnswered
    <3> QED
      BY <1>1, <2>2, <3>1 DEF Answered, Has
  <2> QED
    BY <2>1, <2>2
<1>4. CheckpointFollows'
  <2> SUFFICES ASSUME scan = "sharpe" PROVE CheckpointFollows'
    BY <1>1 DEF CheckpointFollows
  <2>1. file' = file /\ saving' /\ ~saving
    BY DEF Collected
  <2>2. cache = file /\ busy = {c} /\ c \notin DOMAIN cache /\ file # Torn
    BY <1>1, <2>1 DEF CacheInv, CheckpointFollows
  <2>3. /\ busy' \subseteq {c} /\ busy' \cap DOMAIN cache' = {}
        /\ \A x \in DOMAIN file' : x \in DOMAIN cache' /\ cache'[x] = file'[x]
        /\ DOMAIN cache' \ DOMAIN file' \subseteq {c}
    BY <1>1, <2>1, <2>2
  <2> QED
    BY <1>1, <2>1, <2>2, <2>3 DEF CheckpointFollows
<1> QED
  BY <1>2, <1>3, <1>4 DEF CacheInv

LEMMA SaveEndsKeeps ==
  ASSUME CacheInv, SaveEnds PROVE CacheInv'
<1>1. ScanType'
  BY DEF SaveEnds, CacheInv, ScanType
<1>2. DoneIsAnswered'
  BY DEF SaveEnds, CacheInv, DoneIsAnswered, ScanType, Answered, Has
<1>3. CheckpointFollows'
  <2>1. cache # Torn
    BY CacheBounds DEF CacheInv, ScanType, Torn
  <2> QED
    BY <2>1 DEF SaveEnds, CacheInv, CheckpointFollows
<1> QED
  BY <1>1, <1>2, <1>3 DEF CacheInv

LEMMA AllCollectedKeeps ==
  ASSUME CacheInv, AllCollected PROVE CacheInv'
<1>1. ScanType'
  BY DEF AllCollected, CacheInv, ScanType
<1>2. DoneIsAnswered'
  BY DEF AllCollected, CacheInv, DoneIsAnswered, Answered, Has
<1>3. CheckpointFollows'
  BY DEF AllCollected, CacheInv, CheckpointFollows
<1> QED
  BY <1>1, <1>2, <1>3 DEF CacheInv

LEMMA EndOrKillKeeps ==
  ASSUME CacheInv, EndOrKill PROVE CacheInv'
<1>1. DOMAIN NoCache = {}
  BY DEF NoCache
<1> QED
  BY <1>1 DEF EndOrKill, CacheInv, ScanType, DoneIsAnswered, CheckpointFollows

LEMMA CacheMeansSound == CacheInv => ResumesSoundly
<1> SUFFICES ASSUME CacheInv PROVE ResumesSoundly
  OBVIOUS
<1>1. FailuresAreRetried
  <2> SUFFICES ASSUME scan = "v2", scanAt = "finished", NEW c \in Coins PROVE Answered(c)
    BY DEF FailuresAreRetried, Answered
  <2> QED
    BY DEF CacheInv, DoneIsAnswered
<1>2. CheckpointLosesOneCoin
  <2> SUFFICES ASSUME scan = "sharpe", scanAt # "idle"
               PROVE  Cardinality(DOMAIN cache \ DOMAIN file) <= 1
    BY DEF CheckpointLosesOneCoin, CacheInv, CheckpointFollows
  <2>1. PICK c \in Coins : DOMAIN cache \ DOMAIN file \subseteq {c}
    BY DEF CacheInv, CheckpointFollows
  <2>2. IsFiniteSet({c}) /\ Cardinality({c}) = 1
    BY FS_Singleton
  <2> QED
    BY <2>1, <2>2, FS_Subset
<1> QED
  BY <1>1, <1>2 DEF ResumesSoundly

\* The inductive invariant of the scans over their files: what is out of the way
\* was answered, and the checkpoint follows the cache.
THEOREM CacheInvariant == CacheSpec => []CacheInv
<1>1. CacheInv /\ [CacheNext]_cacheVars => CacheInv'
  <2> SUFFICES ASSUME CacheInv, [CacheNext]_cacheVars PROVE CacheInv'
    OBVIOUS
  <2>1. CASE UNCHANGED cacheVars
    BY <2>1 DEF cacheVars, CacheInv, ScanType, DoneIsAnswered, Answered, Has, CheckpointFollows
  <2>2. CASE Collect
    BY <2>2, CollectedKeeps DEF Collect
  <2> QED
    BY <2>1, <2>2, StartScanKeeps, BeginCoinKeeps, SaveEndsKeeps, AllCollectedKeeps, EndOrKillKeeps DEF CacheNext
<1> QED
  BY CacheStarts, <1>1, PTL DEF CacheSpec

\* Killed anywhere, failed or short, a v2 scan that finishes has asked for every
\* history it lacks, and the Sharpe checkpoint is never torn and loses one coin
\* at most (funding_history_scan_v2.py:408, sharpe_floorscan.py:199).
THEOREM ScansResumeSoundly == CacheSpec => []ResumesSoundly
  BY CacheInvariant, CacheMeansSound, PTL

-----------------------------------------------------------------------------
(* The rows of funding_obs.                                                 *)
\* A row that is there keeps its interval when others are inserted.
LEMMA InsertKeeps ==
  ASSUME NEW new, insert_funding(new), NEW k \in DOMAIN obs PROVE obs'[k] = obs[k]
  BY DEF insert_funding

RightStays == \A k \in SharpeRows : obs[k] = Interval => obs'[k] = Interval

LEMMA LoadsKeepRight ==
  ASSUME LoadNative \/ LoadSharpe \/ FetchCoins PROVE RightStays
<1>1. PICK new : insert_funding(new)
  <2>1. CASE LoadNative
    BY <2>1 DEF LoadNative
  <2>2. CASE LoadSharpe
    BY <2>2 DEF LoadSharpe
  <2>3. CASE FetchCoins
    BY <2>3 DEF FetchCoins
  <2> QED
    BY <2>1, <2>2, <2>3
<1>2. \A k \in DOMAIN obs : obs'[k] = obs[k]
  BY <1>1, InsertKeeps
<1> QED
  BY <1>2 DEF RightStays, SharpeRows

LEMMA RestampKeepsRight == ASSUME Restamp PROVE RightStays
  BY DEF Restamp, RightStays, SharpeRows

\* What restamp has set right stays right: for any interval and any order of loads,
\* fetches and restamps.
THEOREM RestampSticks == StoreSpec => RightRowsStayRight
<1>1. [StoreNext]_storeVars => [RightStays]_storeVars
  BY LoadsKeepRight, RestampKeepsRight DEF StoreNext
<1> QED
  BY <1>1, PTL DEF StoreSpec, RightRowsStayRight, RightStays

-----------------------------------------------------------------------------
(* The inferred interval and the cross-check.                               *)
step(rows, i) == rows[i + 1] - rows[i]

\* The steps between the rows of a contract: its interval, or twice that where a
\* settlement is missing, which is so at one place at most.
StepsOf(rows, iv) ==
  /\ \A i \in 1 .. Len(rows) - 1 : step(rows, i) \in {iv, 2 * iv}
  /\ \/ Len(rows) = 3 /\ step(rows, 1) = iv /\ step(rows, 2) = iv
     \/ Len(rows) = 4 /\ \E a, b, c \in 1 .. 3 :
          a < b /\ c # a /\ c # b /\ step(rows, a) = iv /\ step(rows, b) = iv

LEMMA GapsOfRows ==
  ASSUME NEW ago \in Recent, Len(ago) >= 3, NEW iv \in 1 .. 24
  PROVE  StepsOf(Settled(ago, iv), iv)
<1> DEFINE rows == Settled(ago, iv)
<1>1. ago \in Seq(1 .. 5) /\ Len(ago) \in {3, 4}
  <2>1. /\ <<3, 2, 1>> \in Seq(1 .. 5) /\ Len(<<3, 2, 1>>) = 3
        /\ <<4, 3, 2, 1>> \in Seq(1 .. 5) /\ Len(<<4, 3, 2, 1>>) = 4
        /\ <<5, 4, 3, 1>> \in Seq(1 .. 5) /\ Len(<<5, 4, 3, 1>>) = 4
        /\ <<5, 4, 2, 1>> \in Seq(1 .. 5) /\ Len(<<5, 4, 2, 1>>) = 4
        /\ <<5, 3, 2, 1>> \in Seq(1 .. 5) /\ Len(<<5, 3, 2, 1>>) = 4
    OBVIOUS
  <2>2. ago # <<2, 1>>
    OBVIOUS
  <2> QED
    BY <2>1, <2>2 DEF Recent
<1>2. Len(rows) = Len(ago) /\ \A i \in 1 .. Len(ago) : rows[i] = 1000 - ago[i] * iv
  BY <1>1 DEF Settled
<1> HIDE DEF rows
<1>3. \A i \in 1 .. Len(ago) - 1 : step(rows, i) = ago[i] * iv - ago[i + 1] * iv
  <2> SUFFICES ASSUME NEW i \in 1 .. Len(ago) - 1 PROVE step(rows, i) = ago[i] * iv - ago[i + 1] * iv
    OBVIOUS
  <2>1. i + 1 \in 1 .. Len(ago) /\ i \in 1 .. Len(ago)
    BY <1>1
  <2>2. rows[i] = 1000 - ago[i] * iv /\ rows[i + 1] = 1000 - ago[i + 1] * iv
    BY <1>2, <2>1
  <2>3. ago[i] * iv \in Int /\ ago[i + 1] * iv \in Int
    BY <1>1, <2>1
  <2> QED
    BY <2>2, <2>3 DEF step
<1>4. CASE ago = <<3, 2, 1>>
  <2>1. Len(ago) = 3 /\ ago[1] = 3 /\ ago[2] = 2 /\ ago[3] = 1
    BY <1>4
  <2>2. step(rows, 1) = iv /\ step(rows, 2) = iv
    BY <1>3, <2>1
  <2> QED
    BY <1>2, <2>1, <2>2 DEF StepsOf, rows
<1>5. ASSUME NEW a1 \in 1 .. 5, NEW a2 \in 1 .. 5, NEW a3 \in 1 .. 5, NEW a4 \in 1 .. 5,
             ago = <<a1, a2, a3, a4>>
      PROVE  /\ Len(rows) = 4 /\ step(rows, 1) = a1 * iv - a2 * iv
             /\ step(rows, 2) = a2 * iv - a3 * iv /\ step(rows, 3) = a3 * iv - a4 * iv
  <2>1. Len(ago) = 4 /\ ago[1] = a1 /\ ago[2] = a2 /\ ago[3] = a3 /\ ago[4] = a4
    BY <1>5
  <2> QED
    BY <1>2, <1>3, <2>1
<1>6. CASE ago = <<4, 3, 2, 1>>
  <2>1. Len(rows) = 4 /\ step(rows, 1) = iv /\ step(rows, 2) = iv /\ step(rows, 3) = iv
    BY <1>5, <1>6
  <2> QED
    BY <2>1 DEF StepsOf, rows
<1>7. CASE ago = <<5, 4, 3, 1>>
  <2>1. Len(rows) = 4 /\ step(rows, 1) = iv /\ step(rows, 2) = iv /\ step(rows, 3) = 2 * iv
    BY <1>5, <1>7
  <2> QED
    BY <2>1 DEF StepsOf, rows
<1>8. CASE ago = <<5, 4, 2, 1>>
  <2>1. Len(rows) = 4 /\ step(rows, 1) = iv /\ step(rows, 2) = 2 * iv /\ step(rows, 3) = iv
    BY <1>5, <1>8
  <2> QED
    BY <2>1 DEF StepsOf, rows
<1>9. CASE ago = <<5, 3, 2, 1>>
  <2>1. Len(rows) = 4 /\ step(rows, 1) = 2 * iv /\ step(rows, 2) = iv /\ step(rows, 3) = iv
    BY <1>5, <1>9
  <2> QED
    BY <2>1 DEF StepsOf, rows
<1>10. ago # <<2, 1>>
  OBVIOUS
<1> QED
  BY <1>4, <1>6, <1>7, <1>8, <1>9, <1>10 DEF Recent, rows

\* The upper median of the steps is the interval, wherever the missing one was.
LEMMA MedianIsInterval ==
  ASSUME NEW rows, NEW iv \in 1 .. 24, StepsOf(rows, iv)
  PROVE  _iv_from_hist(rows) = iv
<1> DEFINE steps == {i \in 1 .. Len(rows) - 1 : step(rows, i) \in 1 .. 48}
           below(i) == {j \in steps : step(rows, j) < step(rows, i) \/ (step(rows, j) = step(rows, i) /\ j < i)}
           half == Cardinality(steps) \div 2
           median == CHOOSE i \in steps : Cardinality(below(i)) = half
<1>0. /\ Len(rows) \in {3, 4} /\ \A i \in 1 .. Len(rows) - 1 : step(rows, i) \in {iv, 2 * iv}
      /\ iv \in 1 .. 48 /\ 2 * iv \in 1 .. 48 /\ iv # 2 * iv
  BY DEF StepsOf
<1>1. \/ Len(rows) = 3 /\ steps = {1, 2}
      \/ Len(rows) = 4 /\ steps = {1, 2, 3}
  <2>1. CASE Len(rows) = 3
    <3>1. 1 .. Len(rows) - 1 = {1, 2}
      BY <2>1
    <3> QED
      BY <1>0, <2>1, <3>1
  <2>2. CASE Len(rows) = 4
    <3>1. 1 .. Len(rows) - 1 = {1, 2, 3}
      BY <2>2
    <3> QED
      BY <1>0, <2>2, <3>1
  <2> QED
    BY <1>0, <2>1, <2>2
<1> HIDE DEF steps
<1>2. _iv_from_hist(rows) = step(rows, median)
  <2>1. ~(Len(rows) < 3 \/ steps = {})
    BY <1>1
  <2> QED
    BY <2>1 DEF _iv_from_hist, step, steps
<1>3. half = 1
  <2>1. Cardinality({1, 2}) = 2 /\ Cardinality({1, 2, 3}) = 3
    <3>1. IsFiniteSet({1}) /\ Cardinality({1}) = 1
      BY FS_Singleton
    <3>2. {1, 2} = {1} \cup {2} /\ {1, 2, 3} = {1, 2} \cup {3}
      OBVIOUS
    <3>3. IsFiniteSet({1, 2}) /\ Cardinality({1, 2}) = 2
      BY <3>1, <3>2, FS_AddElement
    <3> QED
      BY <3>2, <3>3, FS_AddElement
  <2> QED
    BY <1>1, <2>1
<1>5. steps \subseteq 1 .. 3 /\ \A c \in steps : c \in Int /\ step(rows, c) \in {iv, 2 * iv}
  <2>1. steps \subseteq 1 .. 3
    BY <1>1
  <2>2. \A c \in steps : c \in 1 .. Len(rows) - 1
    BY DEF steps
  <2> QED
    BY <1>0, <2>1, <2>2
<1>4. PICK a \in steps, b \in steps : /\ a < b /\ step(rows, a) = iv /\ step(rows, b) = iv
                                      /\ \A c \in steps : c \in {a, b} \/ steps = {a, b, c}
  <2> HIDE DEF steps
  <2>1. CASE Len(rows) = 3
    <3>1. steps = {1, 2} /\ step(rows, 1) = iv /\ step(rows, 2) = iv
      BY <1>1, <2>1 DEF StepsOf
    <3> QED
      BY <3>1
  <2>2. CASE Len(rows) = 4
    <3>1. steps = {1, 2, 3}
      BY <1>1, <2>2
    <3>2. PICK a \in 1 .. 3, b \in 1 .. 3 : a < b /\ step(rows, a) = iv /\ step(rows, b) = iv
      BY <2>2 DEF StepsOf
    <3>3. a \in steps /\ b \in steps /\ \A c \in steps : c \in {a, b} \/ steps = {a, b, c}
      BY <3>1, <3>2
    <3> QED
      BY <3>2, <3>3
  <2> QED
    BY <1>1, <2>1, <2>2
<1> HIDE DEF steps
\* A step of twice the interval has the other two below it.
<1>6. ASSUME NEW c \in steps, Cardinality(below(c)) = 1 PROVE step(rows, c) = iv
  <2> SUFFICES ASSUME step(rows, c) # iv PROVE FALSE
    OBVIOUS
  <2>1. step(rows, c) = 2 * iv
    BY <1>5
  <2>2. below(c) = {a, b}
    BY <1>4, <1>5, <2>1
  <2>3. Cardinality({a, b}) = 2
    <3>1. IsFiniteSet({a}) /\ Cardinality({a}) = 1
      BY FS_Singleton
    <3>2. {a, b} = {a} \cup {b} /\ b \notin {a}
      BY <1>4, <1>5
    <3> QED
      BY <3>1, <3>2, FS_AddElement
  <2> HIDE DEF below
  <2> QED
    BY <1>6, <2>2, <2>3
\* And there is a step that has one below it.
<1>7. \E c \in steps : Cardinality(below(c)) = 1
  <2>1. ASSUME NEW c \in steps, NEW dist \in steps, below(c) = {dist} PROVE Cardinality(below(c)) = 1
    BY <2>1, FS_Singleton
  <2>2. \E c, dist \in steps : below(c) = {dist}
    <3>1. CASE below(b) = {a}
      BY <3>1
    <3>2. CASE below(b) # {a}
      <4>1. a \in below(b) /\ b \notin below(b)
        BY <1>4, <1>5
      <4>2. PICK c \in steps : c \in below(b) /\ c # a /\ c # b
        BY <3>2, <4>1
      <4>3. steps = {a, b, c} /\ c \in Int /\ c < b /\ step(rows, c) = iv
        BY <1>4, <1>5, <4>2
      <4>4. CASE c < a
        <5>1. below(a) = {c}
          BY <1>4, <1>5, <4>3, <4>4
        <5> QED
          BY <5>1
      <4>5. CASE a < c
        <5>1. below(c) = {a}
          BY <1>4, <1>5, <4>3, <4>5
        <5> QED
          BY <5>1
      <4> QED
        BY <1>5, <4>2, <4>3, <4>4, <4>5
    <3> QED
      BY <3>1, <3>2
  <2> HIDE DEF below
  <2> QED
    BY <2>1, <2>2
<1>8. median \in steps /\ Cardinality(below(median)) = 1
  <2> HIDE DEF below, half
  <2> QED
    BY <1>3, <1>7
<1> QED
  BY <1>2, <1>6, <1>8

\* What a native venue that lists oldest first is quoted with.
LEMMA IntervalIsTrue ==
  ASSUME NEW v \in NativeVenues \ NewestFirst, NEW iv \in TrueIvs, NEW ago \in Recent, Len(ago) >= 3,
         v \in {"hl", "dydx", "deribit"} => iv = 1, v = "htx" => iv = 8
  PROVE  IntervalOf(v, iv, RowsOf(v, ago, iv)) = iv
<1>1. iv \in 1 .. 24
  BY FundBounds
<1>2. RowsOf(v, ago, iv) = Settled(ago, iv)
  BY DEF RowsOf
<1>3. _iv_from_hist(Settled(ago, iv)) = iv /\ iv # 0
  BY <1>1, GapsOfRows, MedianIsInterval
<1> DEFINE rows == Settled(ago, iv)
<1>4. Or(_iv_from_hist(rows), 8) = iv /\ Or(_iv_from_hist(rows), 1) = iv
  BY <1>3 DEF Or
<1> HIDE DEF rows
<1>5. IntervalOf(v, iv, rows) = iv
  BY <1>3, <1>4 DEF IntervalOf, NativeVenues, NewestFirst, rows, _f_binance, _f_aster, _f_bingx, _f_backpack,
     _f_hl, _f_dydx, _f_deribit, _f_htx, _f_kucoin
<1> QED
  BY <1>2, <1>5 DEF rows

\* Every native leg that lists oldest first, from three rows on, carries the
\* contract's own interval, and the cross-check compares what it really pays.
LEMMA QuotesAreRight ==
  ASSUME Quote PROVE QuarantineIsRight'
<1>1. PICK v \in FundVenues, up \in BOOLEAN, rate \in FundRates, iv \in TrueIvs, ago \in Recent :
        \E sh \in Answers : quoted(v, up, rate, iv, ago, sh)
  BY DEF Quote
<1>2. PICK sh \in Answers : quoted(v, up, rate, iv, ago, sh)
  BY <1>1
<1> DEFINE rows == RowsOf(v, ago, iv)
           leg == get_funding(v, up, rate, iv, rows, sh)
<1>3. /\ quote'.leg = leg /\ quote'.venue = v /\ quote'.rows = rows /\ quote'.sharpe = sh
      /\ quote'.verdict = cross_check(leg, sh) /\ quote'.rate = rate /\ quote'.iv = iv
      /\ v \in {"hl", "dydx", "deribit"} => iv = 1
      /\ v = "htx" => iv = 8
  BY <1>2 DEF quoted
<1>4. SUFFICES ASSUME leg.source = "native", v \notin NewestFirst, Len(rows) >= 3,
                      NEW s \in sh, s.iv # 0
               PROVE  cross_check(leg, sh) = "quarantine" <=> Disagree(rate, iv, s.rate, s.iv)
  BY <1>3 DEF QuarantineIsRight
<1>5. v \in NativeVenues /\ leg = [source |-> "native", rate |-> rate, iv |-> IntervalOf(v, iv, rows)]
  BY <1>4 DEF get_funding, sharpe_one, NoAnswer
<1>6. Len(ago) >= 3
  BY <1>4 DEF RowsOf, Settled, Recent
<1>7. leg.iv = iv /\ leg.rate = rate /\ iv # 0 /\ leg # NoAnswer
  BY <1>3, <1>4, <1>5, <1>6, IntervalIsTrue, FundBounds DEF NoAnswer
<1>8. sh = {s}
  BY <1>4 DEF Answers
<1>9. sharpe_one(sh).rate = s.rate /\ sharpe_one(sh).iv = s.iv
  BY <1>4, <1>8 DEF sharpe_one, Or
<1> HIDE DEF leg, rows
<1> QED
  BY <1>7, <1>8, <1>9 DEF cross_check

\* A leg is quarantined exactly when its true hourly rate is a tenth off Sharpe's
\* (v3_connectors.py:602), for any rates and intervals up to a day.
THEOREM QuarantineRight == QuoteSpec => []QuarantineIsRight
<1>1. QuoteInit => QuarantineIsRight
  BY DEF QuoteInit, QuarantineIsRight
<1>2. QuarantineIsRight /\ [Quote]_quote => QuarantineIsRight'
  BY QuotesAreRight DEF QuarantineIsRight
<1> QED
  BY <1>1, <1>2, PTL DEF QuoteSpec

-----------------------------------------------------------------------------
(* The pages of a history.                                                  *)
\* Standing before another is having fewer before.
LEMMA AboveGrows ==
  ASSUME NEW S, IsFiniteSet(S), S \subseteq Int
  PROVE  /\ \A e \in S : Above(S, e) \in Nat /\ Below(S, e) \in Nat
         /\ \A x, e \in S : e < x => Above(S, x) < Above(S, e) /\ Below(S, e) < Below(S, x)
<1> DEFINE Up(e) == {x \in S : x > e}
           Down(e) == {x \in S : x < e}
<1>1. ASSUME NEW e \in S
      PROVE  /\ IsFiniteSet(Up(e)) /\ Cardinality(Up(e)) \in Nat
             /\ IsFiniteSet(Down(e)) /\ Cardinality(Down(e)) \in Nat
  BY FS_Subset, FS_CardinalityType
<1>2. ASSUME NEW T, NEW U, NEW x, IsFiniteSet(T), IsFiniteSet(U), x \in T, x \notin U, U \subseteq T
      PROVE  Cardinality(U) < Cardinality(T)
  <2>1. Cardinality(U) <= Cardinality(T) /\ (Cardinality(U) = Cardinality(T) => U = T)
    BY <1>2, FS_Subset
  <2> QED
    BY <1>2, <2>1, FS_CardinalityType
<1>3. ASSUME NEW x \in S, NEW e \in S, e < x
      PROVE  Cardinality(Up(x)) < Cardinality(Up(e)) /\ Cardinality(Down(e)) < Cardinality(Down(x))
  <2>0. /\ x > e /\ ~(x > x) /\ ~(e < e)
        /\ \A y \in S : (y > x => y > e) /\ (y < e => y < x)
    BY <1>3
  <2>1. x \in Up(e) /\ x \notin Up(x) /\ Up(x) \subseteq Up(e)
    BY <1>3, <2>0
  <2>2. e \in Down(x) /\ e \notin Down(e) /\ Down(e) \subseteq Down(x)
    BY <1>3, <2>0
  <2>3. /\ IsFiniteSet(Up(e)) /\ IsFiniteSet(Up(x)) /\ IsFiniteSet(Down(e)) /\ IsFiniteSet(Down(x))
    BY <1>1
  <2> HIDE DEF Up, Down
  <2> QED
    BY <1>2, <2>1, <2>2, <2>3
<1> QED
  BY <1>1, <1>3 DEF Above, Below

\* Behind n others stands one that has exactly n - 1 before it.
LEMMA RankBelow ==
  ASSUME NEW S, IsFiniteSet(S), S \subseteq Int, NEW e \in S, NEW n \in Nat \ {0}, Above(S, e) >= n
  PROVE  \E x \in S : x > e /\ Above(S, x) = n - 1
<1> DEFINE B == {y \in S : Above(S, y) >= n}
           b == Max(B)
           U == {y \in S : y > b}
           x == Min(U)
<1>0. \A y \in S : y \in Int /\ Above(S, y) \in Nat
  BY AboveGrows
<1>1. IsFiniteSet(B) /\ B # {} /\ B \subseteq Int
  BY FS_Subset
<1>2. b \in B /\ \A y \in B : y <= b
  <2> HIDE DEF B
  <2> QED
    BY <1>1, Extremes
<1>3. b \in S /\ b >= e /\ b \in Int
  BY <1>2
<1>4. IsFiniteSet(U) /\ Cardinality(U) >= n
  BY <1>2, <1>3, FS_Subset DEF Above
<1> HIDE DEF b
<1>5. U # {}
  <2> SUFFICES ASSUME U = {} PROVE FALSE
    OBVIOUS
  <2>1. Cardinality(U) = 0
    BY FS_EmptySet
  <2> QED
    BY <1>4, <2>1
<1>6. x \in U /\ \A y \in U : x <= y
  <2>1. U \subseteq Int
    OBVIOUS
  <2> HIDE DEF U
  <2> QED
    BY <1>4, <1>5, <2>1, Extremes
<1> HIDE DEF x
<1>7. x \in S /\ x > b /\ x > e /\ x \in Int
  BY <1>3, <1>6
<1>8. Above(S, x) < n
  <2>1. x \notin B
    BY <1>2, <1>3, <1>7
  <2> QED
    BY <1>0, <1>7, <2>1
<1>9. Above(S, x) >= n - 1
  <2> DEFINE V == {y \in S : y > x}
  <2>1. U = V \cup {x} /\ V \subseteq S
    <3>1. \A y \in U : y = x \/ y > x
      BY <1>0, <1>6, <1>7
    <3>2. \A y \in S : y > x => y > b
      BY <1>0, <1>3, <1>7
    <3> QED
      BY <1>6, <3>1, <3>2
  <2>2. IsFiniteSet(V) /\ Above(S, x) = Cardinality(V)
    BY FS_Subset DEF Above
  <2> HIDE DEF V, U
  <2>3. Cardinality(U) <= Cardinality(V) + 1 /\ Cardinality(V) \in Nat /\ Cardinality(U) \in Nat
    BY <2>1, <2>2, OneMore
  <2> QED
    BY <1>4, <2>2, <2>3
<1> QED
  BY <1>0, <1>7, <1>8, <1>9

\* The newest page is the upper end of what there is, and all of it unless full.
LEMMA NewestPage ==
  ASSUME NEW S, IsFiniteSet(S), S \subseteq Int
  PROVE  /\ Newest(S) \subseteq S /\ IsFiniteSet(Newest(S))
         /\ \A a \in Newest(S), e \in S : e > a => e \in Newest(S)
         /\ S # {} => Newest(S) # {}
         /\ Cardinality(Newest(S)) < Full => Newest(S) = S
         /\ \A e \in S \ Newest(S) : \E x \in Newest(S) : x > e /\ Above(S, x) = Full - 1
<1> DEFINE N == Newest(S)
<1>1. \A e \in S : e \in Int /\ Above(S, e) \in Nat
  BY AboveGrows
<1>2. N \subseteq S /\ IsFiniteSet(N)
  BY FS_Subset DEF Newest
<1>3. ASSUME NEW a \in N, NEW e \in S, e > a PROVE e \in N
  <2>1. Above(S, a) < Full /\ a \in S
    BY DEF Newest
  <2>2. Above(S, e) < Above(S, a)
    BY <1>1, <1>3, <2>1, AboveGrows
  <2> QED
    BY <1>1, <2>1, <2>2, PagerBounds DEF Newest
<1>4. ASSUME NEW e \in S \ N PROVE \E x \in N : x > e /\ Above(S, x) = Full - 1
  <2>1. Above(S, e) >= Full
    BY <1>1, PagerBounds DEF Newest
  <2>2. PICK x \in S : x > e /\ Above(S, x) = Full - 1
    BY <2>1, RankBelow, PagerBounds
  <2>3. x \in N
    BY <2>2, PagerBounds DEF Newest
  <2> QED
    BY <2>2, <2>3
<1>5. ASSUME S # {} PROVE N # {}
  BY <1>4, <1>5
<1>6. ASSUME Cardinality(N) < Full PROVE N = S
  <2> SUFFICES ASSUME NEW e \in S \ N PROVE FALSE
    BY <1>2
  <2>1. PICK x \in N : x > e /\ Above(S, x) = Full - 1
    BY <1>4
  <2> DEFINE V == {y \in S : y > x}
  <2>2. V \subseteq N /\ x \notin V
    <3>0. x \in Int
      BY <1>1, <1>2
    <3>1. ~(x > x)
      BY <3>0
    <3> QED
      BY <1>3, <3>1
  <2>3. Cardinality(V) = Full - 1 /\ IsFiniteSet(V)
    BY <2>1, FS_Subset DEF Above
  <2> HIDE DEF V, N
  <2>4. Cardinality(V \cup {x}) = Full /\ IsFiniteSet(V \cup {x})
    <3>1. Full \in Nat /\ x \notin V
      BY <2>2, PagerBounds
    <3>2. IsFiniteSet(V \cup {x}) /\ Cardinality(V \cup {x}) = Cardinality(V) + 1
      BY <2>3, <3>1, FS_AddElement
    <3> QED
      BY <2>3, <3>1, <3>2
  <2>5. V \cup {x} \subseteq N
    BY <2>1, <2>2
  <2>6. Cardinality(V \cup {x}) <= Cardinality(N)
    BY <1>2, <2>5, FS_Subset
  <2>7. Cardinality(N) \in Nat
    BY <1>2, FS_CardinalityType
  <2> QED
    BY <1>6, <2>4, <2>6, <2>7, PagerBounds
<1> HIDE DEF N
<1>7. /\ \A a \in N, e \in S : e > a => e \in N
      /\ \A e \in S \ N : \E x \in N : x > e /\ Above(S, x) = Full - 1
  BY <1>3, <1>4
<1> QED
  BY <1>2, <1>5, <1>6, <1>7 DEF N

\* The oldest page is the lower end.
LEMMA OldestPage ==
  ASSUME NEW S, IsFiniteSet(S), S \subseteq Int
  PROVE  /\ Oldest(S) \subseteq S /\ IsFiniteSet(Oldest(S))
         /\ \A a \in Oldest(S), e \in S : e < a => e \in Oldest(S)
         /\ S # {} => Oldest(S) # {}
         /\ Cardinality(Oldest(S)) < Full => Oldest(S) = S
<1> DEFINE N == Oldest(S)
<1>1. \A e \in S : e \in Int /\ Below(S, e) \in Nat
  BY AboveGrows
<1>2. N \subseteq S /\ IsFiniteSet(N)
  BY FS_Subset DEF Oldest
<1>3. ASSUME NEW a \in N, NEW e \in S, e < a PROVE e \in N
  <2>1. Below(S, a) < Full /\ a \in S
    BY DEF Oldest
  <2>2. Below(S, e) < Below(S, a)
    BY <1>1, <1>3, <2>1, AboveGrows
  <2> QED
    BY <1>1, <2>1, <2>2, PagerBounds DEF Oldest
<1>4. ASSUME NEW e \in S \ N PROVE Cardinality(N) >= Full
  <2> DEFINE B == S \ N
             b == Min(B)
             V == {y \in S : y < b}
  <2>1. IsFiniteSet(B) /\ B # {} /\ B \subseteq Int
    BY FS_Subset
  <2>2. b \in B /\ \A y \in B : b <= y
    <3> HIDE DEF B
    <3> QED
      BY <2>1, Extremes
  <2> HIDE DEF b
  <2>3. b \in S /\ Below(S, b) >= Full
    BY <1>1, <2>2, PagerBounds DEF Oldest
  <2>4. V \subseteq N
    <3> SUFFICES ASSUME NEW y \in S, y < b, y \notin N PROVE FALSE
      OBVIOUS
    <3>1. b <= y
      BY <2>2
    <3> QED
      BY <1>1, <2>3, <3>1
  <2>5. Cardinality(V) >= Full
    BY <2>3 DEF Below
  <2> HIDE DEF V, N
  <2>6. Cardinality(V) <= Cardinality(N) /\ Cardinality(N) \in Nat /\ Cardinality(V) \in Nat
    BY <1>2, <2>4, FS_Subset, FS_CardinalityType
  <2> QED
    BY <2>5, <2>6, PagerBounds
<1>5. ASSUME S # {} PROVE N # {}
  <2> SUFFICES ASSUME N = {} PROVE FALSE
    OBVIOUS
  <2>1. Cardinality(N) = 0 /\ \E e \in S \ N : TRUE
    BY <1>5, FS_EmptySet
  <2>2. Cardinality(N) >= Full
    BY <1>4, <2>1
  <2> QED
    BY <2>1, <2>2, PagerBounds
<1>6. ASSUME Cardinality(N) < Full PROVE N = S
  <2>1. Cardinality(N) \in Nat
    BY <1>2, FS_CardinalityType
  <2> HIDE DEF N
  <2>2. ~(Cardinality(N) >= Full)
    BY <1>6, <2>1, PagerBounds
  <2> QED
    BY <1>2, <1>4, <2>2
<1> HIDE DEF N
<1>7. \A a \in N, e \in S : e < a => e \in N
  BY <1>3
<1> QED
  BY <1>2, <1>5, <1>6, <1>7 DEF N

-----------------------------------------------------------------------------
\* What a pull has made of the settlements P when it holds G: nothing is missing
\* between two, nothing of the window is missing.
Window == 1 .. End
Skips(G, e, s) == \E l \in G : l < e /\ e <= l + s
Tiled(P, G, s) == \A e \in P : (\E a, b \in G : a < e /\ e < b) => e \in G \/ Skips(G, e, s)
Covers(P, G, s) == \A e \in P \cap Window : e \in G \/ Skips(G, e, s)

\* What a request at the cursor c asks for.
Ahead(P, c) == {e \in P : c <= e /\ e <= End}
UpToCursor(P, c) == {e \in P : 1 <= e /\ e <= c}
Under(P, c) == {e \in P : e < c}

\* Each way of paging, at the cursor c: what is on its near side has been collected.
ForwardAt(P, G, c, s) ==
  /\ c \in Nat \ {0} /\ G \subseteq P \cap Window /\ \A g \in G : g < c
  /\ \A e \in P \cap Window : e < c => e \in G \/ Skips(G, e, s)

BybitAt(P, G, c) == c \in Nat /\ c <= End /\ G = {e \in P : c < e /\ e <= End}

\* okx asks below its cursor only, so what is behind its first page stays out.
OkxAt(P, G, c) ==
  /\ c \in Nat /\ G \subseteq P /\ \A g \in G : g >= c
  /\ \A e \in P : c <= e /\ (e <= End \/ \E b \in G : e <= b) => e \in G

\* dydx may ignore the cursor: then what it has is only without a hole.
DydxAt(P, G, c) ==
  /\ c \in Nat /\ G \subseteq P \cap Window
  /\ \A a \in G, e \in P \cap Window : e > a => e \in G
  /\ ~ignored => /\ \A g \in G : g >= c
                 /\ \A e \in P \cap Window : e >= c => e \in G

LEMMA ForwardTiles ==
  ASSUME NEW P, P \subseteq Nat, NEW G, NEW c, NEW s \in Nat, ForwardAt(P, G, c, s)
  PROVE  Tiled(P, G, s)
<1> SUFFICES ASSUME NEW e \in P, NEW a \in G, NEW b \in G, a < e, e < b
             PROVE  e \in G \/ Skips(G, e, s)
  BY DEF Tiled
<1>1. a \in Window /\ b \in Window /\ b < c /\ c \in Nat /\ e \in Nat
  BY DEF ForwardAt
<1>2. e \in Window /\ e < c
  BY <1>1, PagerBounds DEF Window
<1> QED
  BY <1>2 DEF ForwardAt

LEMMA ForwardPage ==
  ASSUME NEW P, IsFiniteSet(P), P \subseteq Nat, NEW s \in Nat, NEW ahead \in Nat, 1 <= ahead, ahead <= s + 1,
         NEW G, NEW c, ForwardAt(P, G, c, s),
         NEW R, R = Oldest(Ahead(P, c))
  PROVE  /\ R = {} => Covers(P, G, s)
         /\ R # {} => ForwardAt(P, G \cup R, Max(R) + ahead, s)
         /\ R # {} /\ (Cardinality(R) < Full \/ Max(R) >= End - s) => Covers(P, G \cup R, s)
<1> USE DEF Ahead
<1> DEFINE S == {e \in P : c <= e /\ e <= End}
<1>1. IsFiniteSet(S) /\ S \subseteq Int
  <2>1. S \subseteq P
    OBVIOUS
  <2> HIDE DEF S
  <2>2. \A e \in P : e \in Int
    OBVIOUS
  <2> QED
    BY <2>1, <2>2, FS_Subset
<1>2. /\ c \in Nat \ {0} /\ G \subseteq P \cap Window /\ \A g \in G : g < c
      /\ \A e \in P \cap Window : e < c => e \in G \/ Skips(G, e, s)
  BY DEF ForwardAt
<1>3. \A e \in P : e \in Nat
  OBVIOUS
<1> HIDE DEF S
<1>4. /\ R \subseteq S /\ IsFiniteSet(R)
      /\ \A a \in R, e \in S : e < a => e \in R
      /\ S # {} => R # {}
      /\ Cardinality(R) < Full => R = S
  BY <1>1, OldestPage DEF S
<1>5. \A e \in S : e \in P /\ e \in Window /\ c <= e
  BY <1>2, <1>3, PagerBounds DEF S, Window
<1>6. \A e \in P \cap Window : c <= e => e \in S
  BY DEF S, Window
<1>7. R \subseteq P /\ R \cap G = {}
  <2>1. \A g \in G : g \in Nat /\ ~(c <= g)
    BY <1>2, <1>3
  <2> QED
    BY <1>4, <1>5, <2>1
<1>8. \A e \in P \cap Window : e < c \/ c <= e
  BY <1>2, <1>3
<1>9. \A e, t : Skips(G, e, t) => Skips(G \cup R, e, t)
  BY DEF Skips
<1>10. R = {} => Covers(P, G, s)
  BY <1>2, <1>4, <1>6, <1>8 DEF Covers
<1>11. ASSUME R # {}
       PROVE  /\ ForwardAt(P, G \cup R, Max(R) + ahead, s)
              /\ Cardinality(R) < Full \/ Max(R) >= End - s => Covers(P, G \cup R, s)
  <2> DEFINE m == Max(R)
  <2>1. m \in R /\ \A x \in R : x <= m
    <3>1. R \subseteq Int
      BY <1>1, <1>4
    <3> QED
      BY <1>4, <1>11, <3>1, Extremes
  <2> HIDE DEF m
  <2>2. m \in P /\ m \in Window /\ c <= m /\ m \in Nat
    BY <1>3, <1>4, <1>5, <2>1
  <2>3. \A e \in S : e <= m => e \in R
    <3>0. \A e \in S : e \in Nat
      BY <1>3, <1>5
    <3>1. \A e \in S : e <= m => e = m \/ e < m
      BY <2>2, <3>0
    <3> QED
      BY <1>4, <2>1, <3>1
  <2>4. ASSUME NEW e \in P \cap Window, ~(e > m + s) PROVE e \in G \cup R \/ Skips(G \cup R, e, s)
    <3>1. e \in Nat
      BY <1>3
    <3>2. CASE e > m
      <4>1. m < e /\ e <= m + s
        BY <2>2, <2>4, <3>1, <3>2
      <4> QED
        BY <2>1, <4>1 DEF Skips
    <3>3. CASE ~(e > m) /\ c <= e
      <4>1. e \in S /\ e <= m
        BY <1>6, <2>2, <3>1, <3>3
      <4> QED
        BY <2>3, <4>1
    <3>4. CASE e < c
      BY <1>2, <1>9, <3>4
    <3> QED
      BY <1>8, <3>2, <3>3, <3>4
  <2>5. ForwardAt(P, G \cup R, m + ahead, s)
    <3>1. m + ahead \in Nat \ {0} /\ m < m + ahead /\ c <= m + ahead
      BY <1>2, <2>2
    <3>2. \A g \in G \cup R : g < m + ahead
      <4>1. \A g \in G : g < m + ahead
        BY <1>2, <1>3, <2>2
      <4>2. \A g \in R : g < m + ahead
        BY <1>3, <1>7, <2>1, <2>2
      <4> QED
        BY <4>1, <4>2
    <3>3. \A e \in P \cap Window : e < m + ahead => ~(e > m + s)
      BY <1>3, <2>2
    <3>4. G \cup R \subseteq P \cap Window
      BY <1>2, <1>4, <1>5
    <3> QED
      BY <2>4, <3>1, <3>2, <3>3, <3>4 DEF ForwardAt
  <2>6. ASSUME Cardinality(R) < Full PROVE Covers(P, G \cup R, s)
    BY <1>2, <1>4, <1>6, <1>8, <1>9, <2>6 DEF Covers
  <2>7. ASSUME m >= End - s PROVE Covers(P, G \cup R, s)
    <3>1. \A e \in P \cap Window : ~(e > m + s)
      BY <1>3, <2>2, <2>7, PagerBounds DEF Window
    <3> QED
      BY <2>4, <3>1 DEF Covers
  <2> QED
    BY <2>5, <2>6, <2>7 DEF m
<1> QED
  BY <1>7, <1>10, <1>11

LEMMA BybitTiles ==
  ASSUME NEW P, P \subseteq Nat, NEW G, NEW c, BybitAt(P, G, c)
  PROVE  Tiled(P, G, 0)
<1> SUFFICES ASSUME NEW e \in P, NEW a \in G, NEW b \in G, a < e, e < b
             PROVE  e \in G
  BY DEF Tiled
<1>1. c < a /\ b <= End /\ a \in Nat /\ b \in Nat /\ c \in Nat /\ e \in Nat
  BY DEF BybitAt
<1>2. c < e /\ e <= End
  BY <1>1, PagerBounds
<1> QED
  BY <1>2 DEF BybitAt

LEMMA BybitPage ==
  ASSUME NEW P, IsFiniteSet(P), P \subseteq Nat, NEW G, NEW c, BybitAt(P, G, c),
         NEW R, R = Newest(UpToCursor(P, c))
  PROVE  /\ R = {} => Covers(P, G, 0)
         /\ R # {} => BybitAt(P, G \cup R, Min(R) - 1)
         /\ R # {} /\ Min(R) <= 1 => Covers(P, G \cup R, 0)
<1> USE DEF UpToCursor
<1> DEFINE S == {e \in P : 1 <= e /\ e <= c}
<1>1. c \in Nat /\ c <= End /\ G = {e \in P : c < e /\ e <= End}
  BY DEF BybitAt
<1>2. \A e \in P : e \in Nat
  OBVIOUS
<1>3. IsFiniteSet(S) /\ S \subseteq Int
  <2>1. S \subseteq P
    OBVIOUS
  <2> HIDE DEF S
  <2> QED
    <3>1. \A e \in P : e \in Int
      BY <1>2
    <3> QED
      BY <2>1, <3>1, FS_Subset
<1> HIDE DEF S
<1>4. /\ R \subseteq S /\ IsFiniteSet(R)
      /\ \A a \in R, e \in S : e > a => e \in R
      /\ S # {} => R # {}
  BY <1>3, NewestPage DEF S
<1>5. \A e \in S : e \in P /\ e \in Nat /\ 1 <= e /\ e <= c
  BY <1>2 DEF S
<1>6. \A e \in P \cap Window : e \in G \/ e \in S
  BY <1>1, <1>2, PagerBounds DEF S, Window
<1>7. R \cap G = {}
  <2>1. \A g \in G : g \in Nat /\ ~(g <= c)
    BY <1>1, <1>2
  <2> QED
    BY <1>4, <1>5, <2>1
<1>8. R = {} => Covers(P, G, 0)
  BY <1>4, <1>6 DEF Covers
<1>9. ASSUME R # {}
      PROVE  BybitAt(P, G \cup R, Min(R) - 1) /\ (Min(R) <= 1 => Covers(P, G \cup R, 0))
  <2> DEFINE m == Min(R)
  <2>1. m \in R /\ \A x \in R : m <= x
    <3>1. R \subseteq Int
      BY <1>3, <1>4
    <3> QED
      BY <1>4, <1>9, <3>1, Extremes
  <2> HIDE DEF m
  <2>2. m \in P /\ m \in Nat /\ 1 <= m /\ m <= c
    BY <1>4, <1>5, <2>1
  <2>3. ASSUME NEW e \in S, m <= e PROVE e \in R
    <3>1. e = m \/ e > m
      BY <1>5, <2>2, <2>3
    <3> QED
      BY <1>4, <2>1, <3>1
  <2>4. ASSUME NEW e \in P, m - 1 < e, e <= End PROVE e \in G \cup R
    <3>1. e \in Nat /\ m <= e /\ 1 <= e
      BY <1>2, <2>2, <2>4
    <3>2. CASE e <= c
      <4>1. e \in S
        BY <3>1, <3>2 DEF S
      <4> QED
        BY <2>3, <3>1, <4>1
    <3>3. CASE ~(e <= c)
      BY <1>1, <2>4, <3>1, <3>3
    <3> QED
      BY <3>2, <3>3
  <2>5. ASSUME NEW e \in G \cup R PROVE e \in P /\ m - 1 < e /\ e <= End
    <3>1. e \in P /\ e \in Nat /\ (e \in R \/ (c < e /\ e <= End))
      <4>1. \A g \in G : g \in P /\ c < g /\ g <= End
        BY <1>1
      <4>2. \A g \in R : g \in P
        BY <1>4, <1>5
      <4>3. e \in P
        BY <4>1, <4>2
      <4>4. e \in R \/ e \in G
        BY <2>5
      <4>5. e \in Nat
        BY <1>2, <4>3
      <4>6. e \in R \/ (c < e /\ e <= End)
        BY <4>1, <4>4
      <4> QED
        BY <4>3, <4>5, <4>6
    <3>2. e \in R => m <= e /\ e <= c
      BY <1>4, <1>5, <2>1
    <3> QED
      BY <1>1, <2>2, <3>1, <3>2, PagerBounds
  <2>6. BybitAt(P, G \cup R, m - 1)
    <3>1. m - 1 \in Nat /\ m - 1 <= End
      BY <1>1, <2>2, PagerBounds
    <3> DEFINE T == {e \in P : m - 1 < e /\ e <= End}
    <3>2. G \cup R = T
      BY <2>4, <2>5
    <3> QED
      BY <3>1, <3>2 DEF BybitAt
  <2>7. ASSUME m <= 1 PROVE Covers(P, G \cup R, 0)
    <3>1. \A e \in S : m <= e
      BY <1>5, <2>2, <2>7
    <3> QED
      BY <1>6, <2>3, <3>1 DEF Covers
  <2> QED
    BY <2>6, <2>7 DEF m
<1> QED
  BY <1>4, <1>5, <1>7, <1>8, <1>9

LEMMA OkxTiles ==
  ASSUME NEW P, P \subseteq Nat, NEW G, NEW c, OkxAt(P, G, c)
  PROVE  Tiled(P, G, 0)
<1> SUFFICES ASSUME NEW e \in P, NEW a \in G, NEW b \in G, a < e, e < b
             PROVE  e \in G
  BY DEF Tiled
<1>1. c <= a /\ a \in Nat /\ b \in Nat /\ c \in Nat /\ e \in Nat
  BY DEF OkxAt
<1>2. c <= e /\ e <= b
  BY <1>1
<1> QED
  BY <1>2 DEF OkxAt

LEMMA OkxPage ==
  ASSUME NEW P, IsFiniteSet(P), P \subseteq Nat, NEW G, NEW c, OkxAt(P, G, c),
         NEW R, R = Newest(Under(P, c))
  PROVE  /\ R = {} => Covers(P, G, 0)
         /\ R # {} => OkxAt(P, G \cup R, Min(R))
         /\ R # {} /\ (Cardinality(R) < Full \/ Min(R) <= 1) => Covers(P, G \cup R, 0)
<1> USE DEF Under
<1> DEFINE S == {e \in P : e < c}
<1>1. /\ c \in Nat /\ G \subseteq P /\ \A g \in G : g >= c
      /\ \A e \in P : c <= e /\ (e <= End \/ \E b \in G : e <= b) => e \in G
  BY DEF OkxAt
<1>2. \A e \in P : e \in Nat
  OBVIOUS
<1>3. IsFiniteSet(S) /\ S \subseteq Int
  <2>1. S \subseteq P
    OBVIOUS
  <2> HIDE DEF S
  <2> QED
    <3>1. \A e \in P : e \in Int
      BY <1>2
    <3> QED
      BY <2>1, <3>1, FS_Subset
<1> HIDE DEF S
<1>4. /\ R \subseteq S /\ IsFiniteSet(R)
      /\ \A a \in R, e \in S : e > a => e \in R
      /\ S # {} => R # {}
      /\ Cardinality(R) < Full => R = S
  BY <1>3, NewestPage DEF S
<1>5. \A e \in S : e \in P /\ e \in Nat /\ e < c
  BY <1>2 DEF S
<1>6. \A e \in P : e \in S \/ c <= e
  BY <1>1, <1>2 DEF S
<1>7. \A e \in P \cap Window : e \in G \/ e \in S
  BY <1>1, <1>6 DEF Window
<1>8. R \cap G = {}
  <2>1. \A g \in G : g \in Nat /\ ~(g < c)
    BY <1>1, <1>2
  <2> QED
    BY <1>4, <1>5, <2>1
<1>9. R = {} => Covers(P, G, 0)
  BY <1>4, <1>7 DEF Covers
<1>10. ASSUME R # {}
       PROVE  /\ OkxAt(P, G \cup R, Min(R))
              /\ Cardinality(R) < Full \/ Min(R) <= 1 => Covers(P, G \cup R, 0)
  <2> DEFINE m == Min(R)
  <2>1. m \in R /\ \A x \in R : m <= x
    <3>1. R \subseteq Int
      BY <1>3, <1>4
    <3> QED
      BY <1>4, <1>10, <3>1, Extremes
  <2> HIDE DEF m
  <2>2. m \in P /\ m \in Nat /\ m < c
    BY <1>4, <1>5, <2>1
  <2>3. ASSUME NEW e \in S, m <= e PROVE e \in R
    <3>1. e = m \/ e > m
      BY <1>5, <2>2, <2>3
    <3> QED
      BY <1>4, <2>1, <3>1
  <2>4. \A g \in G \cup R : g >= m
    <3>1. \A g \in G : g >= m
      BY <1>1, <1>2, <2>2
    <3>2. \A g \in R : g >= m
      BY <1>4, <1>5, <2>1, <2>2
    <3> QED
      BY <3>1, <3>2
  <2>5. ASSUME NEW e \in P, m <= e, e <= End \/ \E b \in G \cup R : e <= b PROVE e \in G \cup R
    <3>1. CASE e \in S
      BY <2>3, <2>5, <3>1
    <3>2. CASE e \notin S
      <4>1. c <= e /\ e \in Nat
        BY <1>2, <1>6, <3>2
      <4>2. \A b \in R : ~(e <= b)
        BY <1>1, <1>4, <1>5, <4>1
      <4> QED
        BY <1>1, <2>5, <4>1, <4>2
    <3> QED
      BY <3>1, <3>2
  <2>6. OkxAt(P, G \cup R, m)
    BY <1>1, <1>4, <1>5, <2>2, <2>4, <2>5 DEF OkxAt
  <2>7. ASSUME m <= 1 PROVE Covers(P, G \cup R, 0)
    <3>1. \A e \in P \cap Window : m <= e
      BY <1>2, <2>2, <2>7, PagerBounds DEF Window
    <3> QED
      BY <1>7, <2>3, <3>1 DEF Covers
  <2>8. Cardinality(R) < Full => Covers(P, G \cup R, 0)
    BY <1>4, <1>7 DEF Covers
  <2> QED
    BY <2>6, <2>7, <2>8 DEF m
<1> QED
  BY <1>4, <1>5, <1>8, <1>9, <1>10

LEMMA DydxTiles ==
  ASSUME NEW P, P \subseteq Nat, NEW G, NEW c, DydxAt(P, G, c)
  PROVE  Tiled(P, G, 0)
<1> SUFFICES ASSUME NEW e \in P, NEW a \in G, NEW b \in G, a < e, e < b
             PROVE  e \in G
  BY DEF Tiled
<1>1. a \in Window /\ b \in Window /\ e \in Nat
  BY DEF DydxAt
<1>2. e \in Window /\ e > a
  BY <1>1, PagerBounds DEF Window
<1> QED
  BY <1>2 DEF DydxAt

\* The settlements behind the window's end are fewer than a page.
Late(P) == Cardinality({x \in P : x > End})

LEMMA FewAreLate ==
  ASSUME NEW P, P \subseteq Settlements
  PROVE  /\ IsFiniteSet(P) /\ Late(P) \in Nat /\ Late(P) < Full
         /\ \A S \in SUBSET P : \A e \in S : e > End => Above(S, e) < Full - 1
<1> DEFINE L == {x \in P : x > End}
           M == (End + 1) .. (End + MaxPosts)
<1>1. IsFiniteSet(P) /\ \A x \in P : x \in Nat
  <2> DEFINE I == 0 .. (End + MaxPosts)
  <2>1. End + MaxPosts \in Int
    BY PagerBounds
  <2>2. IsFiniteSet(I)
    BY <2>1, FS_Interval
  <2>3. P \subseteq I
    BY DEF Settlements
  <2>4. \A x \in I : x \in Nat
    OBVIOUS
  <2> HIDE DEF I
  <2> QED
    BY <2>2, <2>3, <2>4, FS_Subset
<1>2. L \subseteq M
  <2> SUFFICES ASSUME NEW x \in P, x > End PROVE x \in M
    OBVIOUS
  <2>1. x \in 0 .. (End + MaxPosts) /\ End \in Nat /\ MaxPosts \in Nat
    BY PagerBounds DEF Settlements
  <2> QED
    BY <2>1
<1>3. IsFiniteSet(M) /\ Cardinality(M) = MaxPosts
  <2>1. End + 1 \in Int /\ End + MaxPosts \in Int /\ (End + MaxPosts) - (End + 1) + 1 = MaxPosts
    BY PagerBounds
  <2>2. End + 1 <= End + MaxPosts + 1 /\ MaxPosts \in Nat
    BY PagerBounds
  <2>3. /\ IsFiniteSet(M)
        /\ Cardinality(M) = IF End + 1 > End + MaxPosts THEN 0 ELSE (End + MaxPosts) - (End + 1) + 1
    BY <2>1, FS_Interval
  <2>4. CASE MaxPosts = 0
    BY <2>3, <2>4, PagerBounds
  <2>5. CASE MaxPosts # 0
    <3>1. ~(End + 1 > End + MaxPosts)
      BY <2>5, PagerBounds
    <3> QED
      BY <2>1, <2>3, <3>1
  <2> QED
    BY <2>4, <2>5
<1>4. \A T \in SUBSET M : IsFiniteSet(T) /\ Cardinality(T) \in Nat /\ Cardinality(T) <= MaxPosts
  <2> HIDE DEF M
  <2> QED
    BY <1>3, FS_Subset, FS_CardinalityType
<1>5. Late(P) \in Nat /\ Late(P) < Full
  BY <1>2, <1>4, PagerBounds DEF Late
<1>6. ASSUME NEW S \in SUBSET P, NEW e \in S, e > End PROVE Above(S, e) < Full - 1
  <2> DEFINE V == {x \in S : x > e}
  <2>1. V \cup {e} \subseteq M /\ e \notin V
    <3>1. \A x \in S : x \in Nat /\ x <= End + MaxPosts
      BY PagerBounds DEF Settlements
    <3>2. \A x \in S : x > e => x > End
      BY <1>6, <3>1, PagerBounds
    <3> QED
      BY <1>6, <3>1, <3>2, PagerBounds
  <2> HIDE DEF V, M
  <2>2. IsFiniteSet(V) /\ Cardinality(V) \in Nat
    BY <1>4, <2>1
  <2>3. Cardinality(V \cup {e}) = Cardinality(V) + 1
    BY <2>1, <2>2, FS_AddElement
  <2>4. Cardinality(V \cup {e}) <= MaxPosts
    BY <1>4, <2>1
  <2>5. Above(S, e) = Cardinality(V)
    BY DEF Above, V
  <2> QED
    BY <2>2, <2>3, <2>4, <2>5, PagerBounds
<1> QED
  BY <1>1, <1>5, <1>6

LEMMA DydxPage ==
  ASSUME NEW P, P \subseteq Settlements, NEW G, NEW c, DydxAt(P, G, c),
         NEW R, R = Newest({e \in P : ignored \/ e <= c}), ignored \in BOOLEAN,
         NEW K, K = {e \in R : e \in Window /\ e \notin G}
  PROVE  /\ R = {} /\ ~ignored => Covers(P, G, 0)
         /\ R = {} => K = {}
         /\ R # {} => DydxAt(P, G \cup K, Min(R))
         /\ R # {} /\ ~ignored /\ (K = {} \/ Min(R) <= 1) => Covers(P, G \cup K, 0)
<1> DEFINE S == {e \in P : ignored \/ e <= c}
<1>1. /\ c \in Nat /\ G \subseteq P \cap Window
      /\ \A a \in G, e \in P \cap Window : e > a => e \in G
      /\ ~ignored => /\ \A g \in G : g >= c
                     /\ \A e \in P \cap Window : e >= c => e \in G
  BY DEF DydxAt
<1>2. (\A e \in P : e \in Int /\ e \in Nat) /\ IsFiniteSet(P)
  <2>1. \A e \in Settlements : e \in Int /\ e \in Nat
    BY PagerBounds DEF Settlements
  <2> QED
    BY <2>1, FewAreLate
<1>3. IsFiniteSet(S) /\ S \subseteq Int /\ S \subseteq P
  <2>1. S \subseteq P
    OBVIOUS
  <2> HIDE DEF S
  <2> QED
    BY <1>2, <2>1, FS_Subset
<1>4. \A e \in P : e \in S <=> ignored \/ e <= c
  OBVIOUS
<1> HIDE DEF S
<1>5. /\ R \subseteq S /\ IsFiniteSet(R)
      /\ \A a \in R, e \in S : e > a => e \in R
      /\ S # {} => R # {}
      /\ \A e \in S \ R : \E x \in R : x > e /\ Above(S, x) = Full - 1
  BY <1>3, NewestPage DEF S
<1>6. \A e \in P \cap Window : e \in G \/ e \in S
  BY <1>1, <1>2, <1>4
<1>7. R = {} /\ ~ignored => Covers(P, G, 0)
  BY <1>5, <1>6 DEF Covers
<1>8. ASSUME R # {}
      PROVE  /\ DydxAt(P, G \cup K, Min(R))
             /\ ~ignored /\ (K = {} \/ Min(R) <= 1) => Covers(P, G \cup K, 0)
  <2> DEFINE m == Min(R)
  <2>1. m \in R /\ \A x \in R : m <= x
    <3>1. R \subseteq Int
      BY <1>3, <1>5
    <3> QED
      BY <1>5, <1>8, <3>1, Extremes
  <2> HIDE DEF m
  <2>2. m \in P /\ m \in Nat /\ m \in S /\ (~ignored => m <= c)
    BY <1>2, <1>3, <1>4, <1>5, <2>1
  <2>3. ASSUME NEW e \in S, m <= e, e \in Window PROVE e \in G \cup K
    <3>1. e = m \/ e > m
      BY <1>2, <1>3, <2>2, <2>3
    <3>2. e \in R
      BY <1>5, <2>1, <3>1
    <3> QED
      BY <2>3, <3>2
  <2>4. ASSUME NEW a \in G \cup K, NEW e \in P \cap Window, e > a PROVE e \in G \cup K
    <3>1. CASE a \in G
      BY <1>1, <2>4, <3>1
    <3>2. CASE a \in R /\ e \in S
      <4>1. e \in R
        BY <1>5, <2>4, <3>2
      <4> QED
        BY <4>1
    <3> QED
      BY <1>6, <3>1, <3>2
  <2>5. ASSUME ~ignored
        PROVE  /\ \A g \in G \cup K : g >= m
               /\ \A e \in P \cap Window : e >= m => e \in G \cup K
    <3>1. \A g \in G : g >= m
      BY <1>1, <1>2, <2>2, <2>5
    <3>2. \A g \in K : g >= m
      BY <1>2, <1>3, <1>5, <2>1, <2>2
    <3>3. \A e \in P \cap Window : e >= m => m <= e
      BY <1>2, <2>2
    <3> QED
      BY <1>6, <2>3, <3>1, <3>2, <3>3
  <2>6. G \cup K \subseteq P \cap Window
    BY <1>1, <1>3, <1>5
  <2>7. DydxAt(P, G \cup K, m)
    BY <2>2, <2>4, <2>5, <2>6 DEF DydxAt
  <2>8. ASSUME ~ignored, m <= 1 PROVE Covers(P, G \cup K, 0)
    <3>1. \A e \in P \cap Window : e >= m
      BY <1>2, <2>2, <2>8, PagerBounds DEF Window
    <3> QED
      BY <2>5, <2>8, <3>1 DEF Covers
  <2>9. ASSUME ~ignored, K = {} PROVE Covers(P, G \cup K, 0)
    <3> SUFFICES ASSUME NEW e \in P \cap Window, e \notin G PROVE FALSE
      BY DEF Covers
    <3>1. e \in S \ R
      BY <1>6, <2>9
    <3>2. PICK x \in R : x > e /\ Above(S, x) = Full - 1
      BY <1>5, <3>1
    <3>3. x \in S /\ x \in Nat /\ x <= c /\ e \in Nat /\ 1 <= e
      BY <1>2, <1>3, <1>4, <1>5, <2>9, <3>2, PagerBounds DEF Window
    <3>4. ~(x > End)
      <4>1. x > End => Above(S, x) < Full - 1
        BY <1>3, <3>3, FewAreLate
      <4> QED
        BY <3>2, <4>1, PagerBounds
    <3>5. x \in Window
      BY <3>2, <3>3, <3>4, PagerBounds DEF Window
    <3>6. x \in G
      BY <2>9, <3>2, <3>5
    <3>7. x = c
      BY <1>1, <2>9, <3>3, <3>6
    <3>8. {y \in S : y > x} = {}
      <4>1. \A y \in S : y \in Int /\ y <= c
        BY <1>2, <1>3, <1>4, <2>9
      <4> QED
        BY <1>1, <3>7, <4>1
    <3>9. Above(S, x) = 0
      BY <3>8, FS_EmptySet DEF Above
    <3> QED
      BY <3>2, <3>9, PagerBounds
  <2> QED
    BY <2>7, <2>8, <2>9 DEF m
<1> QED
  BY <1>7, <1>8

-----------------------------------------------------------------------------
\* bitget's pages are counted from the newest settlement, n of them before the next
\* page, and move when the venue settles: what is collected is still no further down
\* than n and what came late.
BitgetAt(P, G, n) ==
  /\ n \in Nat /\ G \subseteq P \cap Window
  /\ \A a \in G, e \in P \cap Window : e > a => e \in G
  /\ \A e \in P \cap Window : Above(P, e) < n => e \in G
  /\ \A g \in G : Above(P, g) < n + Late(P)

LEMMA BitgetTiles ==
  ASSUME NEW P, P \subseteq Nat, NEW G, NEW n, BitgetAt(P, G, n)
  PROVE  Tiled(P, G, 0)
<1> SUFFICES ASSUME NEW e \in P, NEW a \in G, NEW b \in G, a < e, e < b
             PROVE  e \in G
  BY DEF Tiled
<1>1. a \in Window /\ b \in Window /\ e \in Nat
  BY DEF BitgetAt
<1>2. e \in Window /\ e > a
  BY <1>1, PagerBounds DEF Window
<1> QED
  BY <1>2 DEF BitgetAt

LEMMA BitgetPage ==
  ASSUME NEW P, P \subseteq Settlements, NEW G, NEW n, BitgetAt(P, G, n),
         NEW R, R = {e \in P : n <= Above(P, e) /\ Above(P, e) < n + Full},
         NEW K, K = {e \in R : e \in Window /\ e \notin G}
  PROVE  /\ R = {} => Covers(P, G, 0) /\ K = {}
         /\ BitgetAt(P, G \cup K, n + Full)
         /\ R # {} /\ (K = {} \/ Min(R) <= 1) => Covers(P, G \cup K, 0)
<1>1. /\ n \in Nat /\ G \subseteq P \cap Window
      /\ \A a \in G, e \in P \cap Window : e > a => e \in G
      /\ \A e \in P \cap Window : Above(P, e) < n => e \in G
      /\ \A g \in G : Above(P, g) < n + Late(P)
  BY DEF BitgetAt
<1>2. \A e \in P : e \in Int /\ e \in Nat
  BY PagerBounds DEF Settlements
<1>3. IsFiniteSet(P) /\ P \subseteq Int /\ Late(P) \in Nat /\ Late(P) < Full
  BY <1>2, FewAreLate
<1>4. \A e \in P : Above(P, e) \in Nat
  BY <1>3, AboveGrows
<1>5. ASSUME NEW e \in P, NEW a \in P, e > a PROVE Above(P, e) < Above(P, a)
  BY <1>2, <1>3, <1>5, AboveGrows
<1>6. Full \in Nat /\ Full >= 2 /\ n + Full \in Nat /\ n + Full >= 1
  BY <1>1, PagerBounds
<1>7. ASSUME NEW e \in P \cap Window, Above(P, e) < n + Full PROVE e \in G \cup K
  <2>1. Above(P, e) < n \/ e \in R
    BY <1>1, <1>4, <1>7
  <2> QED
    BY <1>1, <2>1
<1>8. ASSUME NEW g \in G \cup K PROVE Above(P, g) < (n + Full) + Late(P)
  <2>1. CASE g \in G
    <3>1. Above(P, g) < n + Late(P) /\ Above(P, g) \in Nat
      BY <1>1, <1>4, <2>1
    <3> QED
      BY <1>1, <1>3, <1>6, <3>1
  <2>2. CASE g \in R
    <3>1. Above(P, g) < n + Full /\ Above(P, g) \in Nat
      BY <1>4, <2>2
    <3> QED
      BY <1>1, <1>3, <1>6, <3>1
  <2> QED
    BY <2>1, <2>2
<1>9. ASSUME NEW a \in G \cup K, NEW e \in P \cap Window, e > a PROVE e \in G \cup K
  <2>1. CASE a \in G
    BY <1>1, <1>9, <2>1
  <2>2. CASE a \in R
    <3>1. a \in P /\ Above(P, a) < n + Full
      BY <2>2
    <3>2. Above(P, e) < Above(P, a)
      BY <1>5, <1>9, <3>1
    <3>3. Above(P, e) < n + Full
      BY <1>4, <1>6, <3>1, <3>2
    <3> QED
      BY <1>7, <3>3
  <2> QED
    BY <2>1, <2>2
<1>10. BitgetAt(P, G \cup K, n + Full)
  BY <1>1, <1>6, <1>7, <1>8, <1>9 DEF BitgetAt
\* Behind a page that brings nothing new there is nothing.
<1>11. ASSUME K = {}, NEW e \in P \cap Window, e \notin G PROVE FALSE
  <2>1. Above(P, e) >= n + Full
    BY <1>4, <1>6, <1>7, <1>11
  <2>2. PICK x \in P : x > e /\ Above(P, x) = (n + Full) - 1
    <3> DEFINE k == n + Full
    <3>1. k \in Nat \ {0} /\ Above(P, e) >= k /\ e \in P
      BY <1>6, <1>11, <2>1
    <3>2. IsFiniteSet(P) /\ P \subseteq Int
      BY <1>3
    <3> HIDE DEF k
    <3>3. \E x \in P : x > e /\ Above(P, x) = k - 1
      BY <3>1, <3>2, RankBelow
    <3> QED
      BY <3>3 DEF k
  <2>3. x \in R
    BY <1>1, <1>6, <2>2
  <2>4. ~(x > End)
    <3>1. P \in SUBSET P
      OBVIOUS
    <3>2. x > End => Above(P, x) < Full - 1
      BY <3>1, FewAreLate
    <3> QED
      BY <1>1, <1>6, <2>2, <3>2
  <2>5. x \in Window
    BY <1>2, <2>2, <2>4, PagerBounds DEF Window
  <2>6. x \in G
    BY <1>11, <2>3, <2>5
  <2>7. (n + Full) - 1 < n + Late(P)
    BY <1>1, <2>2, <2>6
  <2> QED
    BY <1>1, <1>3, <1>6, <2>7
<1>12. R = {} => Covers(P, G, 0) /\ K = {}
  BY <1>11 DEF Covers
<1>13. R # {} /\ K = {} => Covers(P, G \cup K, 0)
  BY <1>11 DEF Covers
<1>14. ASSUME R # {}, Min(R) <= 1 PROVE Covers(P, G \cup K, 0)
  <2> DEFINE m == Min(R)
  <2>1. m \in R
    <3>1. R \subseteq P
      OBVIOUS
    <3>2. IsFiniteSet(R) /\ R \subseteq Int
      BY <1>3, <3>1, FS_Subset
    <3> QED
      BY <1>14, <3>2, Extremes
  <2>2. m <= 1
    BY <1>14
  <2> HIDE DEF m
  <2>3. m \in P /\ Above(P, m) < n + Full /\ m \in Nat
    BY <1>2, <2>1
  <2> SUFFICES ASSUME NEW e \in P \cap Window PROVE e \in G \cup K
    BY DEF Covers
  <2>4. e = m \/ e > m
    BY <1>2, <2>2, <2>3, PagerBounds DEF Window
  <2>5. Above(P, e) < n + Full
    <3>1. e > m => Above(P, e) < Above(P, m)
      BY <1>5, <2>3
    <3> QED
      BY <1>4, <1>6, <2>3, <2>4, <3>1
  <2> QED
    BY <1>7, <2>5
<1> QED
  BY <1>10, <1>12, <1>13, <1>14

-----------------------------------------------------------------------------
\* Where a pull stands at the cursor c and before the page p, for each way of paging.
PullAt(P, G, c, p) ==
  /\ kind = "forward" => ForwardAt(P, G, c, 0)
  /\ kind = "hl" => ForwardAt(P, G, c, Hour)
  /\ kind = "bybit" => BybitAt(P, G, c)
  /\ kind = "okx" => OkxAt(P, G, c)
  /\ kind = "bitget" => BitgetAt(P, G, (p - 1) * Full)
  /\ kind = "dydx" => DydxAt(P, G, c)

PagerType ==
  /\ kind \in Kinds /\ ignored \in BOOLEAN /\ (ignored => kind = "dydx")
  /\ posted \subseteq Settlements
  /\ page \in Nat \ {0}
  /\ out \in [Settlements -> {0, 1}] /\ Got \subseteq posted
  /\ pullAt \in {"fetching", "done"} /\ (pullAt = "fetching" => why = "")

PagerInv ==
  /\ PagerType
  /\ pullAt = "fetching" => PullAt(posted, Got, cursor, page)
  /\ PullIsFaithful

\* Wherever a pull stands, it has collected without a hole.
LEMMA AtTiles ==
  ASSUME kind \in Kinds, NEW P, P \subseteq Nat, NEW G, NEW c, NEW p, PullAt(P, G, c, p)
  PROVE  Tiled(P, G, Slack)
<1>1. CASE kind = "forward"
  <2>1. Slack = 0 /\ ForwardAt(P, G, c, 0)
    BY <1>1 DEF Slack, PullAt
  <2> QED
    BY <2>1, ForwardTiles
<1>2. CASE kind = "hl"
  <2>1. Slack = Hour /\ ForwardAt(P, G, c, Hour) /\ Hour \in Nat
    BY <1>2, PagerBounds DEF Slack, PullAt
  <2> QED
    BY <2>1, ForwardTiles
<1>3. CASE kind = "bybit"
  BY <1>3, BybitTiles DEF Slack, PullAt
<1>4. CASE kind = "okx"
  BY <1>4, OkxTiles DEF Slack, PullAt
<1>5. CASE kind = "bitget"
  <2>1. Slack = 0 /\ BitgetAt(P, G, (p - 1) * Full)
    BY <1>5 DEF Slack, PullAt
  <2> DEFINE n == (p - 1) * Full
  <2>2. BitgetAt(P, G, n)
    BY <2>1
  <2> HIDE DEF n
  <2> QED
    BY <2>1, <2>2, BitgetTiles
<1>6. CASE kind = "dydx"
  BY <1>6, DydxTiles DEF Slack, PullAt
<1> QED
  BY <1>1, <1>2, <1>3, <1>4, <1>5, <1>6 DEF Kinds

\* A settlement behind the window and all others moves a page of bitget's by one,
\* and nothing else.
LEMMA AtLater ==
  ASSUME NEW P, P \subseteq Settlements, NEW G, G \subseteq P, NEW c, NEW p,
         NEW n \in (End + 1) .. (End + MaxPosts), \A x \in P : x < n, PullAt(P, G, c, p)
  PROVE  PullAt(P \cup {n}, G, c, p)
<1> DEFINE Q == P \cup {n}
<1>1. n \in Int /\ n > End /\ n \notin Window /\ n \notin P /\ End \in Nat
  BY PagerBounds DEF Window
<1>2. Q \cap Window = P \cap Window /\ {e \in Q : c < e /\ e <= End} = {e \in P : c < e /\ e <= End}
  BY <1>1
<1>3. \A e \in P : e \in Int
  BY PagerBounds DEF Settlements
<1>4. kind = "forward" => ForwardAt(Q, G, c, 0)
  BY <1>2 DEF PullAt, ForwardAt
<1>5. kind = "hl" => ForwardAt(Q, G, c, Hour)
  BY <1>2 DEF PullAt, ForwardAt
<1>6. kind = "bybit" => BybitAt(Q, G, c)
  BY <1>2 DEF PullAt, BybitAt
<1>7. kind = "okx" => OkxAt(Q, G, c)
  <2> SUFFICES ASSUME kind = "okx" PROVE OkxAt(Q, G, c)
    OBVIOUS
  <2>1. /\ c \in Nat /\ G \subseteq P /\ \A g \in G : g >= c
        /\ \A e \in P : c <= e /\ (e <= End \/ \E b \in G : e <= b) => e \in G
    BY DEF PullAt, OkxAt
  <2>2. ~(n <= End) /\ \A b \in G : ~(n <= b)
    BY <1>1, <1>3
  <2> QED
    BY <2>1, <2>2 DEF OkxAt
<1>8. kind = "dydx" => DydxAt(Q, G, c)
  BY <1>2 DEF PullAt, DydxAt
<1>9. kind = "bitget" => BitgetAt(Q, G, (p - 1) * Full)
  <2> SUFFICES ASSUME kind = "bitget" PROVE BitgetAt(Q, G, (p - 1) * Full)
    OBVIOUS
  <2> DEFINE k == (p - 1) * Full
  <2>1. BitgetAt(P, G, k)
    BY DEF PullAt
  <2> HIDE DEF k
  <2>2. /\ k \in Nat /\ G \subseteq P \cap Window
        /\ \A a \in G, e \in P \cap Window : e > a => e \in G
        /\ \A e \in P \cap Window : Above(P, e) < k => e \in G
        /\ \A g \in G : Above(P, g) < k + Late(P)
    BY <2>1 DEF BitgetAt
  <2>3. IsFiniteSet(P) /\ P \subseteq Int /\ Late(P) \in Nat
    BY <1>3, FewAreLate
  <2>4. ASSUME NEW e \in P PROVE Above(Q, e) = Above(P, e) + 1 /\ Above(P, e) \in Nat
    <3> DEFINE U == {x \in P : x > e}
    <3>1. {x \in Q : x > e} = U \cup {n} /\ n \notin U
      BY <1>1
    <3>2. U \subseteq P
      OBVIOUS
    <3>3. Above(P, e) = Cardinality(U)
      BY DEF Above
    <3>4. Above(Q, e) = Cardinality(U \cup {n})
      BY <3>1 DEF Above
    <3> HIDE DEF U
    <3>5. IsFiniteSet(U)
      BY <2>3, <3>2, FS_Subset
    <3> QED
      BY <3>1, <3>3, <3>4, <3>5, FS_AddElement, FS_CardinalityType
  <2>5. Late(Q) = Late(P) + 1
    <3> DEFINE L == {x \in P : x > End}
    <3>1. {x \in Q : x > End} = L \cup {n} /\ n \notin L
      BY <1>1
    <3>2. L \subseteq P
      OBVIOUS
    <3>3. Late(P) = Cardinality(L)
      BY DEF Late
    <3>4. Late(Q) = Cardinality(L \cup {n})
      BY <3>1 DEF Late
    <3> HIDE DEF L
    <3>5. IsFiniteSet(L)
      BY <2>3, <3>2, FS_Subset
    <3> QED
      BY <3>1, <3>3, <3>4, <3>5, FS_AddElement, FS_CardinalityType
  <2>6. ASSUME NEW e \in Q \cap Window, Above(Q, e) < k PROVE e \in G
    <3>1. e \in P \cap Window
      BY <1>2
    <3>2. Above(P, e) < k
      BY <2>2, <2>4, <2>6, <3>1
    <3> QED
      BY <2>2, <3>1, <3>2
  <2>7. ASSUME NEW g \in G PROVE Above(Q, g) < k + Late(Q)
    BY <2>2, <2>3, <2>4, <2>5
  <2>8. BitgetAt(Q, G, k)
    BY <1>2, <2>2, <2>6, <2>7 DEF BitgetAt
  <2> QED
    BY <2>8 DEF k
<1> HIDE DEF Q
<1>10. PullAt(Q, G, c, p)
  BY <1>4, <1>5, <1>6, <1>7, <1>8, <1>9 DEF PullAt
<1> QED
  BY <1>10 DEF Q

\* A page: what it adds is new, the loop stands as well behind it, and when it is the
\* last one nothing of the window is missing.
LEMMA PageStep ==
  ASSUME PagerType, PullAt(posted, Got, cursor, page),
         NEW R, R = PageRows, NEW K, K = Kept(R), NEW more \in BOOLEAN
  PROVE  /\ K \subseteq posted /\ K \cap Got = {}
         /\ R = {} => K = {} /\ (~ignored => Covers(posted, Got, Slack))
         /\ R # {} => PullAt(posted, Got \cup K, NextCursor(R), page + 1)
         /\ R # {} /\ ~ignored /\ LastPage(R, K, more) => Covers(posted, Got \cup K, Slack)
<1> DEFINE P == posted
           G == Got
<1>1. /\ kind \in Kinds /\ ignored \in BOOLEAN /\ P \subseteq Settlements /\ page \in Nat \ {0}
      /\ Full \in Nat \ {0, 1} /\ Hour \in Nat /\ 1 <= Hour /\ End \in Nat
  <2>1. Full \in Nat \ {0, 1} /\ Hour \in Nat \ {0} /\ End \in Nat
    BY PagerBounds
  <2>2. /\ kind \in Kinds /\ ignored \in BOOLEAN /\ posted \subseteq Settlements /\ page \in Nat \ {0}
    BY DEF PagerType
  <2> QED
    BY <2>1, <2>2
<1>2. P \subseteq Nat /\ IsFiniteSet(P)
  <2>1. IsFiniteSet(P)
    BY FewAreLate, <1>1
  <2>2. Settlements \subseteq Nat
    BY PagerBounds DEF Settlements
  <2> QED
    BY <1>1, <2>1, <2>2
<1>3. CASE kind = "forward"
  <2>1. /\ R = Oldest(Ahead(P, cursor)) /\ K = R
        /\ NextCursor(R) = Max(R) + 1 /\ Slack = 0
        /\ LastPage(R, K, more) = (Cardinality(R) < Full \/ Max(R) >= End)
    BY <1>3 DEF PageRows, Kept, NextCursor, Slack, LastPage, Forward, Ahead, UpToCursor, Under
  <2>2. ForwardAt(P, G, cursor, 0)
    BY <1>3 DEF PullAt
  <2> HIDE DEF P, G
  <2>3. /\ R = {} => Covers(P, G, 0)
        /\ R # {} => ForwardAt(P, G \cup R, Max(R) + 1, 0)
        /\ R # {} /\ (Cardinality(R) < Full \/ Max(R) >= End - 0) => Covers(P, G \cup R, 0)
    <3> DEFINE s == 0
               ahead == 1
    <3>1. s \in Nat /\ ahead \in Nat /\ 1 <= ahead /\ ahead <= s + 1 /\ ForwardAt(P, G, cursor, s) /\ End - s = End
      BY <1>1, <2>2
    <3> HIDE DEF s, ahead
    <3>2. /\ R = {} => Covers(P, G, s)
          /\ R # {} => ForwardAt(P, G \cup R, Max(R) + ahead, s)
          /\ R # {} /\ (Cardinality(R) < Full \/ Max(R) >= End - s) => Covers(P, G \cup R, s)
      BY <1>2, <2>1, <3>1, ForwardPage
    <3> QED
      BY <3>1, <3>2 DEF s, ahead
  <2>5. \A e \in R : e \in P /\ e \notin G
    <3>1. \A e \in R : e \in P /\ cursor <= e
      BY <2>1 DEF Oldest, Ahead
    <3>2. cursor \in Nat /\ \A g \in G : g < cursor /\ g \in Nat
      BY <1>2, <2>2 DEF ForwardAt
    <3> QED
      BY <3>1, <3>2
  <2>4. End - 0 = End
    BY <1>1
  <2> QED
    BY <1>3, <2>1, <2>3, <2>4, <2>5 DEF PullAt, P, G
<1>4. CASE kind = "hl"
  <2>1. /\ R = Oldest(Ahead(P, cursor)) /\ K = R
        /\ NextCursor(R) = Max(R) + Hour /\ Slack = Hour
        /\ LastPage(R, K, more) = (Cardinality(R) < Full \/ Max(R) >= End - Hour)
    BY <1>4 DEF PageRows, Kept, NextCursor, Slack, LastPage, Forward, Ahead, UpToCursor, Under
  <2>2. ForwardAt(P, G, cursor, Hour) /\ Hour <= Hour + 1
    BY <1>1, <1>4 DEF PullAt
  <2> HIDE DEF P, G
  <2>3. /\ R = {} => Covers(P, G, Hour)
        /\ R # {} => ForwardAt(P, G \cup R, Max(R) + Hour, Hour)
        /\ R # {} /\ (Cardinality(R) < Full \/ Max(R) >= End - Hour) => Covers(P, G \cup R, Hour)
    BY <1>1, <1>2, <2>1, <2>2, ForwardPage
  <2>5. \A e \in R : e \in P /\ e \notin G
    <3>1. \A e \in R : e \in P /\ cursor <= e
      BY <2>1 DEF Oldest, Ahead
    <3>2. cursor \in Nat /\ \A g \in G : g < cursor /\ g \in Nat
      BY <1>2, <2>2 DEF ForwardAt
    <3> QED
      BY <3>1, <3>2
  <2> QED
    BY <1>4, <2>1, <2>3, <2>5 DEF PullAt, P, G
<1>5. CASE kind = "bybit"
  <2>1. /\ R = Newest(UpToCursor(P, cursor)) /\ K = {e \in R : e \notin G}
        /\ NextCursor(R) = Min(R) - 1 /\ Slack = 0
        /\ LastPage(R, K, more) = (Min(R) <= 1 \/ (K = {} /\ ~more))
    BY <1>5 DEF PageRows, Kept, NextCursor, Slack, LastPage, Forward, Ahead, UpToCursor, Under
  <2>2. BybitAt(P, G, cursor)
    BY <1>5 DEF PullAt
  <2> HIDE DEF P, G
  <2>3. /\ R = {} => Covers(P, G, 0)
        /\ R # {} => BybitAt(P, G \cup R, Min(R) - 1)
        /\ R # {} /\ Min(R) <= 1 => Covers(P, G \cup R, 0)
    BY <1>2, <2>1, <2>2, BybitPage
  <2>5. \A e \in R : e \in P /\ e \notin G
    <3>1. \A e \in R : e \in P /\ e <= cursor
      BY <2>1 DEF Newest, UpToCursor
    <3>2. cursor \in Nat /\ \A g \in G : cursor < g /\ g \in Nat
      BY <1>2, <2>2 DEF BybitAt
    <3> QED
      BY <3>1, <3>2
  <2>4. K = R
    BY <2>1, <2>5
  <2> QED
    BY <1>5, <2>1, <2>3, <2>4, <2>5 DEF PullAt, P, G
<1>6. CASE kind = "okx"
  <2>1. /\ R = Newest(Under(P, cursor)) /\ K = R
        /\ NextCursor(R) = Min(R) /\ Slack = 0
        /\ LastPage(R, K, more) = (Cardinality(R) < Full \/ Min(R) <= 1)
    BY <1>6 DEF PageRows, Kept, NextCursor, Slack, LastPage, Forward, Ahead, UpToCursor, Under
  <2>2. OkxAt(P, G, cursor)
    BY <1>6 DEF PullAt
  <2> HIDE DEF P, G
  <2>3. /\ R = {} => Covers(P, G, 0)
        /\ R # {} => OkxAt(P, G \cup R, Min(R))
        /\ R # {} /\ (Cardinality(R) < Full \/ Min(R) <= 1) => Covers(P, G \cup R, 0)
    BY <1>2, <2>1, <2>2, OkxPage
  <2>5. \A e \in R : e \in P /\ e \notin G
    <3>1. \A e \in R : e \in P /\ e < cursor
      BY <2>1 DEF Newest, Under
    <3>2. cursor \in Nat /\ \A g \in G : g >= cursor /\ g \in Nat
      BY <1>2, <2>2 DEF OkxAt
    <3> QED
      BY <3>1, <3>2
  <2> QED
    BY <1>6, <2>1, <2>3, <2>5 DEF PullAt, P, G
<1>7. CASE kind = "bitget"
  <2> DEFINE n == (page - 1) * Full
  <2>1. /\ R = PageOf(P, page) /\ K = {e \in R : e \in Window /\ e \notin G} /\ Slack = 0
        /\ LastPage(R, K, more) = (Min(R) <= 1 \/ K = {})
    BY <1>7 DEF PageRows, Kept, Slack, LastPage, Forward, Window
  <2>2. page * Full = n + Full /\ ((page + 1) - 1) * Full = n + Full
    BY <1>1
  <2>3. R = {e \in P : n <= Above(P, e) /\ Above(P, e) < n + Full}
    BY <2>1, <2>2 DEF PageOf
  <2>4. BitgetAt(P, G, n)
    BY <1>7 DEF PullAt
  <2> HIDE DEF P, G, n
  <2>5. /\ R = {} => Covers(P, G, 0) /\ K = {}
        /\ BitgetAt(P, G \cup K, n + Full)
        /\ R # {} /\ (K = {} \/ Min(R) <= 1) => Covers(P, G \cup K, 0)
    BY <1>1, <2>1, <2>3, <2>4, BitgetPage
  <2>6. K \subseteq P /\ K \cap G = {}
    BY <2>1, <2>3
  <2>7. BitgetAt(P, G \cup K, ((page + 1) - 1) * Full)
    BY <2>2, <2>5
  <2> QED
    BY <1>7, <2>1, <2>5, <2>6, <2>7 DEF PullAt, P, G
<1>8. CASE kind = "dydx"
  <2>1. /\ R = Newest({e \in P : ignored \/ e <= cursor})
        /\ K = {e \in R : e \in Window /\ e \notin G} /\ Slack = 0
        /\ NextCursor(R) = Min(R)
        /\ LastPage(R, K, more) = (Min(R) <= 1 \/ K = {})
    BY <1>8 DEF PageRows, Kept, NextCursor, Slack, LastPage, Forward, Window
  <2>2. DydxAt(P, G, cursor)
    BY <1>8 DEF PullAt
  <2> HIDE DEF P, G
  <2>3. /\ R = {} /\ ~ignored => Covers(P, G, 0)
        /\ R = {} => K = {}
        /\ R # {} => DydxAt(P, G \cup K, Min(R))
        /\ R # {} /\ ~ignored /\ (K = {} \/ Min(R) <= 1) => Covers(P, G \cup K, 0)
    BY <1>1, <2>1, <2>2, DydxPage
  <2>4. K \subseteq P /\ K \cap G = {}
    <3>1. R \subseteq P
      BY <2>1 DEF Newest
    <3> QED
      BY <2>1, <3>1
  <2> QED
    BY <1>8, <2>1, <2>3, <2>4 DEF PullAt, P, G
<1> QED
  BY <1>1, <1>3, <1>4, <1>5, <1>6, <1>7, <1>8 DEF Kinds

LEMMA PagerFetchPage ==
  ASSUME PagerInv, FetchPage
  PROVE  PagerInv'
<1> DEFINE R == PageRows
           K == Kept(R)
<1>1. /\ PagerType /\ PullAt(posted, Got, cursor, page) /\ pullAt = "fetching" /\ why = ""
      /\ UNCHANGED <<kind, ignored, posted>>
  BY DEF PagerInv, PagerType, FetchPage
<1>2. PICK more \in BOOLEAN :
      /\ out' = [e \in DOMAIN out |-> out[e] + (IF e \in K THEN 1 ELSE 0)]
      /\ \/ R = {} /\ Stop("whole")
         \/ R # {} /\ LastPage(R, K, more) /\ Stop("whole")
         \/ R # {} /\ Stop("budget")
         \/ /\ R # {} /\ cursor' = NextCursor(R) /\ page' = page + 1
            /\ UNCHANGED <<pullAt, why>>
  BY DEF FetchPage
<1> HIDE DEF R, K
<1>3. /\ K \subseteq posted /\ K \cap Got = {}
      /\ R = {} => K = {} /\ (~ignored => Covers(posted, Got, Slack))
      /\ R # {} => PullAt(posted, Got \cup K, NextCursor(R), page + 1)
      /\ R # {} /\ ~ignored /\ LastPage(R, K, more) => Covers(posted, Got \cup K, Slack)
  <2>1. R = PageRows /\ K = Kept(R)
    BY DEF R, K
  <2>2. /\ PagerType /\ PullAt(posted, Got, cursor, page)
        /\ R = PageRows /\ K = Kept(R) /\ more \in BOOLEAN
    BY <1>1, <1>2, <2>1
  <2> QED
    BY <2>2, PageStep
<1>4. out \in [Settlements -> {0, 1}] /\ posted \subseteq Settlements /\ Got \subseteq posted
  BY <1>1 DEF PagerType
<1>5. out' \in [Settlements -> {0, 1}] /\ Got' = Got \cup K
  <2>1. \A e \in Settlements : out[e] \in {0, 1} /\ (e \in K => out[e] = 0)
    BY <1>3, <1>4 DEF Got
  <2>2. out' = [e \in Settlements |-> out[e] + (IF e \in K THEN 1 ELSE 0)]
    BY <1>2, <1>4
  <2>3. \A e \in Settlements : out'[e] = (IF e \in K THEN 1 ELSE out[e])
    BY <2>1, <2>2
  <2>4. out' \in [Settlements -> {0, 1}]
    BY <2>1, <2>2
  <2> QED
    BY <1>3, <1>4, <2>1, <2>3, <2>4 DEF Got
<1>6. /\ pullAt' \in {"fetching", "done"} /\ page' \in Nat \ {0}
      /\ pullAt' = "fetching" => why' = "" /\ R # {} /\ cursor' = NextCursor(R) /\ page' = page + 1
      /\ why' = "whole" => R = {} \/ LastPage(R, K, more)
  <2>0. page \in Nat \ {0}
    BY <1>1 DEF PagerType
  <2>1. page \in Nat \ {0} /\ page + 1 \in Nat \ {0}
    BY <2>0
  <2>2. CASE R = {} /\ Stop("whole")
    BY <1>1, <2>1, <2>2 DEF Stop
  <2>3. CASE R # {} /\ LastPage(R, K, more) /\ Stop("whole")
    BY <1>1, <2>1, <2>3 DEF Stop
  <2>4. CASE R # {} /\ Stop("budget")
    BY <1>1, <2>1, <2>4 DEF Stop
  <2>5. CASE R # {} /\ cursor' = NextCursor(R) /\ page' = page + 1 /\ UNCHANGED <<pullAt, why>>
    BY <1>1, <2>1, <2>5
  <2> QED
    BY <1>2, <2>2, <2>3, <2>4, <2>5
<1>7. PagerType'
  BY <1>1, <1>3, <1>4, <1>5, <1>6 DEF PagerType
<1>8. pullAt' = "fetching" => PullAt(posted, Got, cursor, page)'
  <2> SUFFICES ASSUME pullAt' = "fetching" PROVE PullAt(posted, Got, cursor, page)'
    OBVIOUS
  <2>1. PullAt(posted, Got \cup K, cursor', page')
    BY <1>3, <1>6
  <2> QED
    BY <1>1, <1>5, <2>1 DEF PullAt, DydxAt
<1>9. Tiled(posted, Got \cup K, Slack)
  <2>1. kind \in Kinds /\ posted \subseteq Nat
    <3>1. Settlements \subseteq Nat
      BY PagerBounds DEF Settlements
    <3> QED
      BY <1>1, <3>1 DEF PagerType
  <2>2. CASE R = {}
    <3>1. Got \cup K = Got
      BY <1>3, <2>2
    <3> QED
      BY <1>1, <2>1, <3>1, AtTiles
  <2>3. CASE R # {}
    BY <1>3, <2>1, <2>3, AtTiles
  <2> QED
    BY <2>2, <2>3
<1>10. PagesTile'
  <2>1. Tiled(posted, Got, Slack)'
    BY <1>1, <1>5, <1>9 DEF Tiled, Skips, Slack
  <2>2. \A e \in DOMAIN out' : out'[e] <= 1
    BY <1>5
  <2> QED
    BY <2>1, <2>2 DEF PagesTile, Tiled, Skips, JumpedOver
<1>11. WholeWindow'
  <2> SUFFICES ASSUME why' = "whole", ~ignored
               PROVE  Covers(posted, Got \cup K, Slack)
    BY <1>1, <1>5 DEF WholeWindow, Covers, Window, Skips, JumpedOver, Slack
  <2>1. R = {} => Got \cup K = Got
    BY <1>3
  <2> QED
    BY <1>3, <1>6, <2>1
<1> QED
  BY <1>7, <1>8, <1>10, <1>11 DEF PagerInv, PullIsFaithful

LEMMA PagerFetchFails ==
  ASSUME PagerInv, FetchFails
  PROVE  PagerInv'
<1>1. /\ PagerType /\ PullIsFaithful /\ pullAt' = "done" /\ why' = "error"
      /\ UNCHANGED <<kind, ignored, posted, out, cursor, page>>
  BY DEF PagerInv, FetchFails, Stop
<1>2. PagerType'
  BY <1>1 DEF PagerType, Got
<1>3. PullIsFaithful'
  BY <1>1 DEF PullIsFaithful, PagesTile, WholeWindow, JumpedOver, Slack, Got
<1> QED
  BY <1>1, <1>2, <1>3 DEF PagerInv

LEMMA PagerSettle ==
  ASSUME PagerInv, Settle
  PROVE  PagerInv'
<1>1. PICK e \in (End + 1) .. (End + MaxPosts) :
        (\A p \in posted : p < e) /\ posted' = posted \cup {e}
  BY DEF Settle
<1>2. /\ PagerType /\ PullAt(posted, Got, cursor, page) /\ why = "" /\ pullAt = "fetching"
      /\ UNCHANGED <<kind, ignored, cursor, page, out, pullAt, why>>
      /\ PullIsFaithful
  BY DEF PagerInv, PagerType, Settle
<1>3. e \in Settlements /\ posted \subseteq Settlements /\ Got \subseteq posted /\ kind \in Kinds
  <2>1. e \in Settlements
    BY PagerBounds DEF Settlements
  <2> QED
    BY <1>2, <2>1 DEF PagerType
<1>4. PagerType'
  BY <1>1, <1>2, <1>3 DEF PagerType, Got
<1>5. PullAt(posted', Got, cursor, page)
  BY <1>1, <1>2, <1>3, AtLater
<1>6. Tiled(posted', Got, Slack)
  <2>1. posted' \subseteq Nat
    BY <1>1, <1>3, PagerBounds DEF Settlements
  <2> QED
    BY <1>3, <1>5, <2>1, AtTiles
<1>7. PullAt(posted, Got, cursor, page)'
  BY <1>2, <1>5 DEF PullAt, Got, DydxAt
<1>8. PagesTile'
  BY <1>2, <1>6 DEF PullIsFaithful, PagesTile, Tiled, Skips, JumpedOver, Slack, Got
<1>9. WholeWindow'
  BY <1>2 DEF WholeWindow
<1> QED
  BY <1>4, <1>7, <1>8, <1>9 DEF PagerInv, PullIsFaithful

LEMMA PagerStart ==
  ASSUME PagerInit
  PROVE  PagerInv
<1>1. /\ kind \in Kinds /\ ignored \in BOOLEAN /\ (ignored => kind = "dydx")
      /\ posted \subseteq 0 .. End /\ cursor = StartCursor(kind) /\ page = 1
      /\ out = [e \in Settlements |-> 0] /\ pullAt = "fetching" /\ why = ""
  BY DEF PagerInit
<1>0. page = 1 /\ DOMAIN out = Settlements /\ \A e \in Settlements : out[e] = 0
  BY DEF PagerInit
<1>2. Got = {}
  <2>1. DOMAIN out = Settlements /\ \A e \in Settlements : out[e] = 0
    BY <1>0
  <2>2. \A e \in DOMAIN out : ~(out[e] > 0)
    BY <2>1
  <2> QED
    BY <2>2 DEF Got
<1>3. posted \subseteq Settlements /\ \A e \in posted : e \in Nat /\ e <= End
  <2>1. \A e \in 0 .. End : e \in Nat /\ e <= End /\ e \in Settlements
    BY PagerBounds DEF Settlements
  <2> QED
    BY <1>1, <2>1
<1>4. PagerType
  <2>1. out \in [Settlements -> {0, 1}]
    BY <1>1
  <2>2. page \in Nat \ {0}
    BY <1>0
  <2>3. pullAt \in {"fetching", "done"} /\ (pullAt = "fetching" => why = "")
    BY DEF PagerInit
  <2> QED
    BY <1>1, <1>2, <1>3, <2>1, <2>2, <2>3 DEF PagerType
<1>5. cursor = (IF kind \in Forward THEN 1 ELSE IF kind = "bybit" THEN End ELSE End + MaxPosts + 1)
  BY <1>1 DEF StartCursor
<1>6. PullAt(posted, Got, cursor, page)
  <2>1. kind = "forward" => ForwardAt(posted, {}, cursor, 0)
    BY <1>5, PagerBounds DEF ForwardAt, Forward, Window
  <2>2. kind = "hl" => ForwardAt(posted, {}, cursor, Hour)
    BY <1>5, PagerBounds DEF ForwardAt, Forward, Window
  <2>3. kind = "bybit" => BybitAt(posted, {}, cursor)
    BY <1>5, <1>3, PagerBounds DEF BybitAt, Forward
  <2>4. kind = "okx" => OkxAt(posted, {}, cursor)
    BY <1>5, <1>3, PagerBounds DEF OkxAt, Forward
  <2>5. kind = "dydx" => DydxAt(posted, {}, cursor)
    BY <1>5, <1>3, PagerBounds DEF DydxAt, Forward, Window
  <2>6. kind = "bitget" => BitgetAt(posted, {}, (page - 1) * Full)
    <3>1. (page - 1) * Full = 0
      <4>1. page - 1 = 0 /\ Full \in Int
        BY <1>0, PagerBounds
      <4> QED
        BY <4>1
    <3>2. IsFiniteSet(posted) /\ posted \subseteq Int
      BY <1>3, FewAreLate
    <3>3. \A e \in posted : Above(posted, e) \in Nat
      BY <3>2, AboveGrows
    <3>4. BitgetAt(posted, {}, 0)
      BY <3>3 DEF BitgetAt
    <3> QED
      BY <3>1, <3>4
  <2> QED
    BY <1>2, <2>1, <2>2, <2>3, <2>4, <2>5, <2>6 DEF PullAt
<1>7. PullIsFaithful
  <2>1. \A e \in DOMAIN out : out[e] <= 1
    BY <1>0
  <2>2. \A e \in posted : ~(\E a, b \in Got : a < e /\ e < b)
    BY <1>2
  <2>3. why # "whole"
    BY <1>1
  <2> QED
    BY <2>1, <2>2, <2>3 DEF PullIsFaithful, PagesTile, WholeWindow
<1> QED
  BY <1>4, <1>6, <1>7 DEF PagerInv

\* HistoryPager: while a pull fetches, what lies on the near side of its cursor is
\* collected once each, whichever of the five ways the venue pages in
\* (funding_history_scan.py:54, funding_history_scan_v2.py:120).
THEOREM PagerInvariant == PagerSpec => []PagerInv
<1>1. PagerInv /\ [PagerNext]_pagerVars => PagerInv'
  <2> SUFFICES ASSUME PagerInv, [PagerNext]_pagerVars PROVE PagerInv'
    OBVIOUS
  <2>1. CASE FetchPage
    BY <2>1, PagerFetchPage
  <2>2. CASE FetchFails
    BY <2>2, PagerFetchFails
  <2>3. CASE Settle
    BY <2>3, PagerSettle
  <2>4. CASE UNCHANGED pagerVars
    <3>1. UNCHANGED <<kind, ignored, posted, cursor, page, out, pullAt, why>>
      BY <2>4 DEF pagerVars
    <3>2. Got' = Got /\ Slack' = Slack
      BY <3>1 DEF Got, Slack
    <3>3. PagerType /\ PullIsFaithful /\ (pullAt = "fetching" => PullAt(posted, Got, cursor, page))
      BY DEF PagerInv
    <3>4. PagerType'
      BY <3>1, <3>2, <3>3 DEF PagerType
    <3>5. PullIsFaithful'
      BY <3>1, <3>2, <3>3 DEF PullIsFaithful, PagesTile, WholeWindow, JumpedOver
    <3>6. pullAt' = "fetching" => PullAt(posted, Got, cursor, page)'
      BY <3>1, <3>2, <3>3 DEF PullAt, DydxAt
    <3> QED
      BY <3>4, <3>5, <3>6 DEF PagerInv
  <2> QED
    BY <2>1, <2>2, <2>3, <2>4 DEF PagerNext
<1>2. PagerInit => PagerInv
  BY PagerStart
<1> QED
  BY <1>1, <1>2, PTL DEF PagerSpec

\* HistoryPager: what a pull returns (funding_history_scan.py:54) is the window's
\* history without a hole or a double, and all of it unless it failed or ran out of
\* pages, for every page size, window and number of late settlements under a page.
THEOREM PullTiles == PagerSpec => []PullIsFaithful
<1>1. PagerInv => PullIsFaithful
  BY DEF PagerInv
<1> QED
  BY <1>1, PagerInvariant, PTL

-----------------------------------------------------------------------------
(* The walk of a book.                                                      *)
LEMMA LevelOf ==
  ASSUME NEW levels \in Seq([p : Nat, q : Nat]), NEW i \in DOMAIN levels
  PROVE  levels[i].p \in Nat /\ levels[i].q \in Nat
<1> DEFINE L == [p : Nat, q : Nat]
<1>1. levels \in Seq(L)
  OBVIOUS
<1> HIDE DEF L
<1>2. levels[i] \in L
  BY <1>1
<1> QED
  BY <1>2 DEF L

-----------------------------------------------------------------------------
\* What the levels hold, what of them a walk for n takes once the levels of s
\* are all there is, and what it pays.
Held(levels, touch) == [i \in DOMAIN levels |-> levels[i].q * touch]
Nearer(s, i) == {j \in s : j < i}
Short(levels, touch, n, s) == Max({0, 2 * n - Total(Held(levels, touch), s)})
Taken(levels, touch, n, s) ==
  [i \in DOMAIN levels |-> Min({levels[i].q * touch, Short(levels, touch, n, Nearer(s, i))})]
Paid(levels, touch, n, s) ==
  [i \in DOMAIN levels |-> Taken(levels, touch, n, s)[i] * levels[i].p]

\* Where a walk stands behind the levels of s.
Behind(levels, touch, n, s) ==
  [remain |-> Short(levels, touch, n, s),
   cost |-> Total(Paid(levels, touch, n, s), s),
   qty |-> Total(Taken(levels, touch, n, s), s)]

\* The walk's loop body.
Level(acc, l, touch) ==
  LET take == Min({acc.remain, l.q * touch})
  IN  [remain |-> acc.remain - take, cost |-> acc.cost + take * l.p, qty |-> acc.qty + take]

LEMMA TotalSame ==
  ASSUME NEW w, NEW v, NEW S, IsFiniteSet(S), Same(w, v, S)
  PROVE  Total(w, S) = Total(v, S)
<1> DEFINE g == CHOOSE f : IsSum(f, w, S)
<1>1. IsSum(g, w, S)
  BY TotalIsSum
<1> HIDE DEF g
<1>2. g[S] = Total(v, S)
  <2>1. S \in SUBSET S
    OBVIOUS
  <2> QED
    BY <1>1, <2>1, TotalOf
<1> QED
  BY <1>2 DEF g, Total

LEMMA WalkTypes ==
  ASSUME NEW levels \in Seq([p : Nat, q : Nat]), NEW touch \in Nat, NEW n \in Nat, NEW s \in SUBSET DOMAIN levels
  PROVE  /\ IsFiniteSet(s) /\ s \subseteq Int
         /\ \A i \in DOMAIN levels : Held(levels, touch)[i] \in Nat
         /\ Total(Held(levels, touch), s) \in Nat
         /\ Short(levels, touch, n, s) \in Nat
         /\ Taken(levels, touch, n, s) \in [DOMAIN levels -> Nat]
         /\ Paid(levels, touch, n, s) \in [DOMAIN levels -> Nat]
         /\ Total(Taken(levels, touch, n, s), s) \in Nat
         /\ Total(Paid(levels, touch, n, s), s) \in Nat
<1>1. /\ DOMAIN levels = 1 .. Len(levels) /\ Len(levels) \in Nat
      /\ \A i \in DOMAIN levels : levels[i].p \in Nat /\ levels[i].q \in Nat
  BY LevelOf
<1>2. IsFiniteSet(DOMAIN levels) /\ \A i \in DOMAIN levels : i \in Int
  BY <1>1, FS_Interval
<1>3. IsFiniteSet(s) /\ s \subseteq Int
  BY <1>2, FS_Subset
<1>4. \A i \in DOMAIN levels : levels[i].q * touch \in Nat
  BY <1>1
<1>5. \A i \in DOMAIN levels : Held(levels, touch)[i] \in Nat
  BY <1>4 DEF Held
<1>6. ASSUME NEW t \in SUBSET DOMAIN levels
      PROVE  Total(Held(levels, touch), t) \in Nat /\ Short(levels, touch, n, t) \in Nat
  <2>1. Total(Held(levels, touch), t) \in Nat
    BY <1>2, <1>5, FS_Subset, TotalType
  <2> DEFINE lack == 2 * n - Total(Held(levels, touch), t)
  <2>2. lack \in Int
    BY <2>1
  <2>3. Short(levels, touch, n, t) = Max({0, lack}) /\ 0 \in Int
    BY DEF Short
  <2> HIDE DEF lack
  <2>4. Max({0, lack}) \in Nat
    BY <2>2, FromZero
  <2> QED
    BY <2>1, <2>3, <2>4
<1>7. \A i \in DOMAIN levels : /\ Taken(levels, touch, n, s)[i] \in Nat
                               /\ Paid(levels, touch, n, s)[i] \in Nat
  <2> SUFFICES ASSUME NEW i \in DOMAIN levels
               PROVE  Taken(levels, touch, n, s)[i] \in Nat /\ Paid(levels, touch, n, s)[i] \in Nat
    OBVIOUS
  <2> DEFINE a == levels[i].q * touch
             b == Short(levels, touch, n, Nearer(s, i))
  <2>1. a \in Nat /\ b \in Nat
    <3>1. Nearer(s, i) \in SUBSET DOMAIN levels
      BY DEF Nearer
    <3> QED
      BY <1>4, <1>6, <3>1
  <2>2. Taken(levels, touch, n, s)[i] = Min({a, b})
    BY DEF Taken
  <2> HIDE DEF a, b
  <2>3. Taken(levels, touch, n, s)[i] \in Nat
    <3>1. a \in Int /\ b \in Int
      BY <2>1
    <3>2. Min({a, b}) \in Nat
      BY <2>1, <3>1, OfTwo
    <3> QED
      BY <2>2, <3>2
  <2>4. Paid(levels, touch, n, s)[i] = Taken(levels, touch, n, s)[i] * levels[i].p
    BY DEF Paid
  <2> QED
    BY <1>1, <2>3, <2>4
<1>8. Total(Taken(levels, touch, n, s), s) \in Nat /\ Total(Paid(levels, touch, n, s), s) \in Nat
  BY <1>3, <1>7, TotalType
<1>9. /\ Taken(levels, touch, n, s) \in [DOMAIN levels -> Nat]
      /\ Paid(levels, touch, n, s) \in [DOMAIN levels -> Nat]
  BY <1>7 DEF Taken, Paid
<1> QED
  BY <1>3, <1>5, <1>6, <1>8, <1>9

\* One level more: the last of s, walked behind the others.
LEMMA WalkStep ==
  ASSUME NEW levels \in Seq([p : Nat, q : Nat]), NEW touch \in Nat, NEW n \in Nat,
         NEW s \in SUBSET DOMAIN levels, s # {}
  PROVE  Behind(levels, touch, n, s) =
           Level(Behind(levels, touch, n, s \ {Max(s)}), levels[Max(s)], touch)
<1> DEFINE m == Max(s)
           r == s \ {m}
           held == Held(levels, touch)
           left == Short(levels, touch, n, r)
           take == Min({left, levels[m].q * touch})
<1>1. IsFiniteSet(s) /\ s \subseteq Int /\ r \in SUBSET DOMAIN levels
  BY WalkTypes
<1>2. m \in s /\ \A i \in s : i <= m
  BY <1>1, Extremes
<1> HIDE DEF m
<1>3. Nearer(s, m) = r /\ \A i \in r : Nearer(s, i) = Nearer(r, i)
  <2>1. \A i \in r : i < m /\ i \in Int
    BY <1>1, <1>2
  <2>2. Nearer(s, m) = r
    BY <1>1, <1>2, <2>1 DEF Nearer
  <2>3. \A i \in r : Nearer(s, i) = Nearer(r, i)
    BY <1>1, <1>2, <2>1 DEF Nearer
  <2> QED
    BY <2>2, <2>3
<1>4. IsFiniteSet(r) /\ m \notin r /\ s = r \cup {m} /\ m \in DOMAIN levels
  BY <1>1, <1>2, FS_Subset
<1>5. /\ levels[m].q * touch \in Nat /\ left \in Nat /\ Total(held, r) \in Nat
      /\ \A i \in DOMAIN levels : held[i] \in Nat
  <2>1. left \in Nat /\ Total(held, r) \in Nat /\ \A i \in DOMAIN levels : held[i] \in Nat
    BY <1>1, WalkTypes
  <2>2. held[m] = levels[m].q * touch
    BY <1>4 DEF Held
  <2> QED
    BY <1>4, <2>1, <2>2
<1>6. Total(held, s) = levels[m].q * touch + Total(held, r)
  <2>1. \A i \in r \cup {m} : held[i] \in Int
    BY <1>1, <1>4, <1>5
  <2>2. Total(held, r \cup {m}) = held[m] + Total(held, r)
    BY <1>4, <2>1, TotalInsert
  <2>3. held[m] = levels[m].q * touch
    BY <1>4 DEF Held
  <2> QED
    BY <1>4, <2>2, <2>3
<1>7. /\ take = IF left <= levels[m].q * touch THEN left ELSE levels[m].q * touch
      /\ Taken(levels, touch, n, s)[m] = take
  <2>1. take = IF left <= levels[m].q * touch THEN left ELSE levels[m].q * touch
    <3> DEFINE c == levels[m].q * touch
    <3>1. c \in Int /\ left \in Int
      BY <1>5
    <3> HIDE DEF c, left
    <3>2. Min({left, c}) = IF left <= c THEN left ELSE c
      BY <3>1, OfTwo
    <3> QED
      BY <3>2 DEF c
  <2>2. Taken(levels, touch, n, s)[m] = Min({levels[m].q * touch, left})
    BY <1>3, <1>4 DEF Taken
  <2>3. {levels[m].q * touch, left} = {left, levels[m].q * touch}
    OBVIOUS
  <2> QED
    BY <2>1, <2>2, <2>3
<1>8. Short(levels, touch, n, s) = left - take
  <2> DEFINE a == Total(held, r)
             b == levels[m].q * touch
             c == Total(held, s)
  <2>1. a \in Nat /\ b \in Nat /\ c = b + a
    BY <1>5, <1>6
  <2>2. left = Max({0, 2 * n - a}) /\ Short(levels, touch, n, s) = Max({0, 2 * n - c})
    BY DEF Short
  <2>3. take = IF left <= b THEN left ELSE b
    BY <1>7
  <2> HIDE DEF a, b, c, left, take
  <2>4. 2 * n - a \in Int /\ 2 * n - c \in Int /\ 0 \in Int
    BY <2>1
  <2>5. /\ left = IF 0 <= 2 * n - a THEN 2 * n - a ELSE 0
        /\ Short(levels, touch, n, s) = IF 0 <= 2 * n - c THEN 2 * n - c ELSE 0
    BY <2>2, <2>4, FromZero
  <2> QED
    BY <2>1, <2>3, <2>5
<1>9. /\ Same(Taken(levels, touch, n, s), Taken(levels, touch, n, r), r)
      /\ Same(Paid(levels, touch, n, s), Paid(levels, touch, n, r), r)
  <2> SUFFICES ASSUME NEW i \in r
               PROVE  /\ Taken(levels, touch, n, s)[i] = Taken(levels, touch, n, r)[i]
                      /\ Paid(levels, touch, n, s)[i] = Paid(levels, touch, n, r)[i]
    BY DEF Same
  <2>1. i \in DOMAIN levels /\ Nearer(s, i) = Nearer(r, i)
    BY <1>1, <1>3
  <2>2. Taken(levels, touch, n, s)[i] = Taken(levels, touch, n, r)[i]
    BY <2>1 DEF Taken
  <2> QED
    BY <2>1, <2>2 DEF Paid
<1>10. Total(Taken(levels, touch, n, s), s) = take + Total(Taken(levels, touch, n, r), r)
  <2> DEFINE w == Taken(levels, touch, n, s)
  <2>1. \A i \in DOMAIN levels : w[i] \in Int
    <3>1. w \in [DOMAIN levels -> Nat]
      BY WalkTypes
    <3> QED
      BY <3>1
  <2>2. w[m] = take
    BY <1>7
  <2>3. Total(w, r) = Total(Taken(levels, touch, n, r), r)
    BY <1>4, <1>9, TotalSame
  <2> HIDE DEF w, take, r
  <2>4. Total(w, r \cup {m}) = w[m] + Total(w, r)
    BY <1>1, <1>4, <2>1, TotalInsert
  <2> QED
    BY <1>4, <2>2, <2>3, <2>4 DEF w
<1>11. Total(Paid(levels, touch, n, s), s) = take * levels[m].p + Total(Paid(levels, touch, n, r), r)
  <2> DEFINE w == Paid(levels, touch, n, s)
  <2>1. \A i \in DOMAIN levels : w[i] \in Int
    <3>1. w \in [DOMAIN levels -> Nat]
      BY WalkTypes
    <3> QED
      BY <3>1
  <2>2. w[m] = take * levels[m].p
    BY <1>4, <1>7 DEF Paid
  <2>3. Total(w, r) = Total(Paid(levels, touch, n, r), r)
    BY <1>4, <1>9, TotalSame
  <2> HIDE DEF w, take, r
  <2>4. Total(w, r \cup {m}) = w[m] + Total(w, r)
    BY <1>1, <1>4, <2>1, TotalInsert
  <2> QED
    BY <1>4, <2>2, <2>3, <2>4 DEF w
<1>12. /\ Total(Taken(levels, touch, n, r), r) \in Nat /\ Total(Paid(levels, touch, n, r), r) \in Nat
       /\ take \in Nat /\ take * levels[m].p \in Nat
  <2>1. Total(Taken(levels, touch, n, r), r) \in Nat /\ Total(Paid(levels, touch, n, r), r) \in Nat
    BY <1>1, WalkTypes
  <2>2. take \in Nat
    <3> HIDE DEF take, left
    <3> QED
      BY <1>5, <1>7
  <2>4. levels[m].p \in Nat
    BY <1>4, LevelOf
  <2> HIDE DEF take
  <2> QED
    BY <2>1, <2>2, <2>4
<1> DEFINE b == Behind(levels, touch, n, r)
<1>13. /\ b.remain = left /\ b.cost = Total(Paid(levels, touch, n, r), r)
       /\ b.qty = Total(Taken(levels, touch, n, r), r)
  BY DEF Behind
<1>14. Behind(levels, touch, n, s) =
         [remain |-> left - take, cost |-> b.cost + take * levels[m].p, qty |-> b.qty + take]
  <2>1. /\ Total(Paid(levels, touch, n, s), s) = b.cost + take * levels[m].p
        /\ Total(Taken(levels, touch, n, s), s) = b.qty + take
    <3> HIDE DEF b, take
    <3> QED
      BY <1>10, <1>11, <1>12, <1>13
  <2> QED
    BY <1>8, <2>1 DEF Behind
<1>15. Level(b, levels[m], touch) =
         [remain |-> left - take, cost |-> b.cost + take * levels[m].p, qty |-> b.qty + take]
  BY <1>13 DEF Level
<1> QED
  BY <1>14, <1>15 DEF m

\* Wherever it stops, the walk has taken what the best levels hold.
LEMMA WalkIsBehind ==
  ASSUME NEW levels \in Seq([p : Nat, q : Nat]), NEW touch \in Nat, NEW n \in Nat
  PROVE  LET b == Behind(levels, touch, n, DOMAIN levels)
         IN  walk(levels, touch, n) = [cost |-> b.cost, qty |-> b.qty]
<1> DEFINE D == DOMAIN levels
           start == [remain |-> 2 * n, cost |-> 0, qty |-> 0]
           Eq(g) == g = [s \in SUBSET D |-> IF s = {} THEN start
                            ELSE LET acc == g[s \ {Max(s)}]
                                     take == Min({acc.remain, levels[Max(s)].q * touch})
                                 IN  [remain |-> acc.remain - take,
                                      cost |-> acc.cost + take * levels[Max(s)].p,
                                      qty |-> acc.qty + take]]
           it == CHOOSE g : Eq(g)
           h == [s \in SUBSET D |-> Behind(levels, touch, n, s)]
<1>1. walk(levels, touch, n) = [cost |-> it[D].cost, qty |-> it[D].qty]
  BY DEF walk, FoldLeft, MapThenFoldSet
<1>2. Behind(levels, touch, n, {}) = start
  <2>1. Total(Held(levels, touch), {}) = 0 /\ Total(Paid(levels, touch, n, {}), {}) = 0
        /\ Total(Taken(levels, touch, n, {}), {}) = 0
    BY TotalOfNothing
  <2>2. 2 * n - 0 \in Int /\ 0 <= 2 * n - 0 /\ 2 * n - 0 = 2 * n
    OBVIOUS
  <2>3. Max({0, 2 * n - 0}) = 2 * n
    BY <2>2, FromZero
  <2> QED
    BY <2>1, <2>3 DEF Behind, Short
<1>3. \A s \in SUBSET D : s # {} => s \ {Max(s)} \in SUBSET D
  OBVIOUS
<1>4. Eq(h)
  <2>1. \A s \in SUBSET D : h[s] = IF s = {} THEN start ELSE Level(h[s \ {Max(s)}], levels[Max(s)], touch)
    <3> SUFFICES ASSUME NEW s \in SUBSET D
                 PROVE  h[s] = IF s = {} THEN start ELSE Level(h[s \ {Max(s)}], levels[Max(s)], touch)
      OBVIOUS
    <3>1. CASE s = {}
      BY <1>2, <3>1
    <3>2. CASE s # {}
      <4>1. h[s] = Behind(levels, touch, n, s) /\ h[s \ {Max(s)}] = Behind(levels, touch, n, s \ {Max(s)})
        BY <1>3, <3>2
      <4> QED
        BY <3>2, <4>1, WalkStep
    <3> QED
      BY <3>1, <3>2
  <2>2. h = [s \in SUBSET D |-> h[s]]
    OBVIOUS
  <2> HIDE DEF h
  <2> QED
    BY <2>1, <2>2 DEF Level
<1>5. Eq(it)
  <2> HIDE DEF Eq, h
  <2> QED
    BY <1>4
<1> HIDE DEF it
<1>6. \A s \in SUBSET D : it[s] = IF s = {} THEN start ELSE Level(it[s \ {Max(s)}], levels[Max(s)], touch)
  BY <1>5 DEF Level
<1> DEFINE Good == {s \in SUBSET D : it[s] = Behind(levels, touch, n, s)}
<1>7. ASSUME NEW s \in SUBSET D, \A u \in SUBSET s : u # s => u \in Good
      PROVE  s \in Good
  <2>1. CASE s = {}
    BY <1>2, <1>6, <2>1
  <2>2. CASE s # {}
    <3>1. Max(s) \in s
      BY <2>2, WalkTypes, Extremes
    <3>2. s \ {Max(s)} \in Good
      BY <1>7, <3>1
    <3>3. it[s] = Level(Behind(levels, touch, n, s \ {Max(s)}), levels[Max(s)], touch)
      BY <1>6, <2>2, <3>2
    <3>4. it[s] = Behind(levels, touch, n, s)
      BY <2>2, <3>3, WalkStep
    <3> QED
      BY <3>4
  <2> QED
    BY <2>1, <2>2
<1>8. D \in Good
  <2>1. IsFiniteSet(D)
    BY WalkTypes
  <2> HIDE DEF Good, D
  <2>2. SUBSET D \subseteq Good
    BY <1>7, <2>1, SubsetInduction
  <2> QED
    BY <2>2
<1> QED
  BY <1>1, <1>8

-----------------------------------------------------------------------------
\* The sums of the property are sums of these weights.
LEMMA BeforeIsTotal ==
  ASSUME NEW levels, NEW touch, NEW i, NEW w, \A j \in (1 .. i - 1) : w[j] = levels[j].q * touch, IsFiniteSet((1 .. i - 1))
  PROVE  Before(levels, i, touch) = Total(w, (1 .. i - 1))
<1> DEFINE S == (1 .. i - 1)
           Eq(g) == g = [s \in SUBSET S |-> IF s = {} THEN 0
                           ELSE levels[(CHOOSE x \in s : TRUE)].q * touch + g[s \ {CHOOSE x \in s : TRUE}]]
           it == CHOOSE g : Eq(g)
<1>1. Before(levels, i, touch) = it[S]
  BY DEF Before, MapThenSumSet, MapThenFoldSet
<1>2. \A g : IsSum(g, w, S) <=> Eq(g)
  <2> SUFFICES ASSUME NEW g PROVE IsSum(g, w, S) <=> Eq(g)
    OBVIOUS
  <2>1. \A s \in SUBSET S : s # {} => Pick(s) \in S /\ w[Pick(s)] = levels[(CHOOSE x \in s : TRUE)].q * touch
    BY PickIsMember DEF Pick
  <2> QED
    BY <2>1 DEF IsSum, Pick
<1>3. IsSum(it, w, S)
  <2>1. \E g : Eq(g)
    <3>1. \E g : IsSum(g, w, S)
      BY SumExists
    <3> HIDE DEF Eq, S
    <3> QED
      BY <1>2, <3>1
  <2> HIDE DEF Eq
  <2> QED
    BY <1>2, <2>1
<1> HIDE DEF it
<1>4. it[S] = Total(w, S)
  <2>1. S \in SUBSET S /\ Same(w, w, S)
    BY DEF Same
  <2> QED
    BY <1>3, <2>1, TotalOf
<1> QED
  BY <1>1, <1>4

LEMMA TakenIsTotal ==
  ASSUME NEW levels, NEW touch, NEW n, NEW w, \A j \in DOMAIN levels : w[j] = Take(levels, j, touch, n), IsFiniteSet(DOMAIN levels)
  PROVE  TakenAt(levels, touch, n) = Total(w, DOMAIN levels)
<1> DEFINE S == DOMAIN levels
           Eq(g) == g = [s \in SUBSET S |-> IF s = {} THEN 0
                           ELSE Take(levels, (CHOOSE x \in s : TRUE), touch, n) + g[s \ {CHOOSE x \in s : TRUE}]]
           it == CHOOSE g : Eq(g)
<1>1. TakenAt(levels, touch, n) = it[S]
  BY DEF TakenAt, MapThenSumSet, MapThenFoldSet
<1>2. \A g : IsSum(g, w, S) <=> Eq(g)
  <2> SUFFICES ASSUME NEW g PROVE IsSum(g, w, S) <=> Eq(g)
    OBVIOUS
  <2>1. \A s \in SUBSET S : s # {} => Pick(s) \in S /\ w[Pick(s)] = Take(levels, (CHOOSE x \in s : TRUE), touch, n)
    BY PickIsMember DEF Pick
  <2> QED
    BY <2>1 DEF IsSum, Pick
<1>3. IsSum(it, w, S)
  <2>1. \E g : Eq(g)
    <3>1. \E g : IsSum(g, w, S)
      BY SumExists
    <3> HIDE DEF Eq, S
    <3> QED
      BY <1>2, <3>1
  <2> HIDE DEF Eq
  <2> QED
    BY <1>2, <2>1
<1> HIDE DEF it
<1>4. it[S] = Total(w, S)
  <2>1. S \in SUBSET S /\ Same(w, w, S)
    BY DEF Same
  <2> QED
    BY <1>3, <2>1, TotalOf
<1> QED
  BY <1>1, <1>4

LEMMA PaidIsTotal ==
  ASSUME NEW levels, NEW touch, NEW n, NEW w, \A j \in DOMAIN levels : w[j] = Take(levels, j, touch, n) * levels[j].p, IsFiniteSet(DOMAIN levels)
  PROVE  PaidAt(levels, touch, n) = Total(w, DOMAIN levels)
<1> DEFINE S == DOMAIN levels
           Eq(g) == g = [s \in SUBSET S |-> IF s = {} THEN 0
                           ELSE Take(levels, (CHOOSE x \in s : TRUE), touch, n) * levels[(CHOOSE x \in s : TRUE)].p + g[s \ {CHOOSE x \in s : TRUE}]]
           it == CHOOSE g : Eq(g)
<1>1. PaidAt(levels, touch, n) = it[S]
  BY DEF PaidAt, MapThenSumSet, MapThenFoldSet
<1>2. \A g : IsSum(g, w, S) <=> Eq(g)
  <2> SUFFICES ASSUME NEW g PROVE IsSum(g, w, S) <=> Eq(g)
    OBVIOUS
  <2>1. \A s \in SUBSET S : s # {} => Pick(s) \in S /\ w[Pick(s)] = Take(levels, (CHOOSE x \in s : TRUE), touch, n) * levels[(CHOOSE x \in s : TRUE)].p
    BY PickIsMember DEF Pick
  <2> QED
    BY <2>1 DEF IsSum, Pick
<1>3. IsSum(it, w, S)
  <2>1. \E g : Eq(g)
    <3>1. \E g : IsSum(g, w, S)
      BY SumExists
    <3> HIDE DEF Eq, S
    <3> QED
      BY <1>2, <3>1
  <2> HIDE DEF Eq
  <2> QED
    BY <1>2, <2>1
<1> HIDE DEF it
<1>4. it[S] = Total(w, S)
  <2>1. S \in SUBSET S /\ Same(w, w, S)
    BY DEF Same
  <2> QED
    BY <1>3, <2>1, TotalOf
<1> QED
  BY <1>1, <1>4

\* A walk takes from a level exactly what the better ones could not give.
LEMMA WalkTakes ==
  ASSUME NEW levels \in Seq([p : Nat, q : Nat]), NEW touch \in Nat, NEW n \in Nat
  PROVE  /\ walk(levels, touch, n).qty = TakenAt(levels, touch, n)
         /\ walk(levels, touch, n).cost = PaidAt(levels, touch, n)
         /\ walk(levels, touch, n).qty \in Nat /\ walk(levels, touch, n).cost \in Nat
<1> DEFINE D == DOMAIN levels
           t == Taken(levels, touch, n, D)
           c == Paid(levels, touch, n, D)
<1>1. D = 1 .. Len(levels) /\ Len(levels) \in Nat /\ IsFiniteSet(D)
  BY WalkTypes
<1>2. ASSUME NEW i \in D PROVE t[i] = Take(levels, i, touch, n)
  <2>1. Nearer(D, i) = 1 .. i - 1 /\ i \in Int
    BY <1>1 DEF Nearer
  <2>2. IsFiniteSet(1 .. i - 1) /\ 1 .. i - 1 \subseteq D
    <3>1. i - 1 \in Int /\ i \in 1 .. Len(levels) /\ 1 \in Int
      BY <1>1, <2>1
    <3>2. IsFiniteSet(1 .. i - 1)
      BY <3>1, FS_Interval
    <3>3. \A j \in 1 .. i - 1 : j \in 1 .. Len(levels)
      BY <1>1, <3>1
    <3> QED
      BY <1>1, <3>2, <3>3
  <2>3. \A j \in 1 .. i - 1 : Held(levels, touch)[j] = levels[j].q * touch
    BY <2>2 DEF Held
  <2>4. Before(levels, i, touch) = Total(Held(levels, touch), 1 .. i - 1)
    BY <2>2, <2>3, BeforeIsTotal
  <2> QED
    BY <2>1, <2>4 DEF Taken, Short, Take
<1>3. TakenAt(levels, touch, n) = Total(t, D)
  <2> HIDE DEF t
  <2> QED
    BY <1>1, <1>2, TakenIsTotal
<1>4. PaidAt(levels, touch, n) = Total(c, D)
  <2>1. \A i \in D : c[i] = Take(levels, i, touch, n) * levels[i].p
    BY <1>2 DEF Paid
  <2> HIDE DEF c
  <2> QED
    BY <1>1, <2>1, PaidIsTotal
<1>5. walk(levels, touch, n) = [cost |-> Total(c, D), qty |-> Total(t, D)]
  BY WalkIsBehind DEF Behind
<1>6. Total(c, D) \in Nat /\ Total(t, D) \in Nat
  BY WalkTypes
<1> QED
  BY <1>3, <1>4, <1>5, <1>6

\* Two walks of one size whose slips are within bps lie that far apart at most.
LEMMA ApartByTheSlip ==
  ASSUME NEW a, NEW b, NEW touch \in Nat, NEW bps \in Nat, a.cost \in Nat, b.cost \in Nat, a.qty \in Nat,
         a.qty = b.qty, SlipWithin(a, touch, bps), SlipWithin(b, touch, bps)
  PROVE  (b.cost - a.cost) * 10000 <= bps * SlipDen(a, touch)
<1> DEFINE D == touch * a.qty
           k == bps * D
           x == 2 * a.cost - D
           y == 2 * b.cost - D
<1>1. D \in Int /\ k \in Int /\ x \in Int /\ y \in Int
  <2>1. D \in Int
    OBVIOUS
  <2> HIDE DEF D
  <2> QED
    BY <2>1
<1>2. Abs(x) * 10000 <= k /\ Abs(y) * 10000 <= k /\ bps * SlipDen(a, touch) = k
  BY DEF SlipWithin, SlipNum, SlipDen
<1>3. Abs(x) = (IF x < 0 THEN -x ELSE x) /\ Abs(y) = (IF y < 0 THEN -y ELSE y)
  BY DEF Abs
<1>4. 2 * (b.cost - a.cost) = y - x
  <2> HIDE DEF D
  <2> QED
    BY <1>1
<1> HIDE DEF k, x, y, D
<1>5. -x * 10000 <= k /\ y * 10000 <= k
  BY <1>1, <1>2, <1>3
<1> QED
  BY <1>1, <1>2, <1>4, <1>5

LEMMA BookTypes ==
  ASSUME NEW book \in SideBooks
  PROVE  /\ book.bids \in Seq([p : Nat, q : Nat]) /\ book.asks \in Seq([p : Nat, q : Nat])
         /\ Touch(book) \in Nat
<1>1. book.bids \in LevelSeqs /\ book.asks \in LevelSeqs
  BY TripBounds
<1> DEFINE L == [p : Nat, q : Nat]
<1>2. book.bids \in Seq(L) /\ book.asks \in Seq(L) /\ book.bids # <<>> /\ book.asks # <<>>
  BY <1>1 DEF LevelSeqs
<1>3. book.bids[1] \in L /\ book.asks[1] \in L
  <2> HIDE DEF L
  <2> QED
    BY <1>2
<1>4. book.bids[1].p \in Nat /\ book.asks[1].p \in Nat
  BY <1>3
<1>5. Touch(book) \in Nat
  BY <1>4 DEF Touch
<1> QED
  BY <1>2, <1>5

LEMMA BooksAreWalked ==
  ASSUME NEW s \in SideBooks, NEW l \in SideBooks, NEW n \in Nat
  PROVE  TakesTheBest(s, l, n)
<1> SUFFICES ASSUME NEW book \in {s, l}, NEW levels \in {book.bids, book.asks}
             PROVE  /\ walk(levels, Touch(book), n).qty = TakenAt(levels, Touch(book), n)
                    /\ walk(levels, Touch(book), n).cost = PaidAt(levels, Touch(book), n)
  BY DEF TakesTheBest
<1>1. levels \in Seq([p : Nat, q : Nat]) /\ Touch(book) \in Nat
  <2>1. book \in SideBooks
    OBVIOUS
  <2> QED
    BY <2>1, BookTypes
<1> QED
  BY <1>1, WalkTakes

\* What the check accepted, if filled, is undone within its slip.
LEMMA DepthBounds ==
  ASSUME NEW s \in SideBooks, NEW l \in SideBooks, NEW n \in Nat, NEW meds, DepthHolds(s, l, n, meds)
  PROVE  UndoneWithinGate(s, l, n)
<1> DEFINE se == walk(s.bids, Touch(s), n)
           su == walk(s.asks, Touch(s), n)
           le == walk(l.asks, Touch(l), n)
           lu == walk(l.bids, Touch(l), n)
           w == Walks(s, l, n)
<1>1. w = [se |-> se, su |-> su, le |-> le, lu |-> lu]
  BY DEF Walks
<1>2. /\ Touch(s) \in Nat /\ Touch(l) \in Nat
      /\ s.bids \in Seq([p : Nat, q : Nat]) /\ s.asks \in Seq([p : Nat, q : Nat])
      /\ l.bids \in Seq([p : Nat, q : Nat]) /\ l.asks \in Seq([p : Nat, q : Nat])
  BY BookTypes
<1>3. /\ se.cost \in Nat /\ se.qty \in Nat /\ su.cost \in Nat /\ su.qty \in Nat
      /\ le.cost \in Nat /\ le.qty \in Nat /\ lu.cost \in Nat /\ lu.qty \in Nat
  BY <1>2, WalkTakes
<1> HIDE DEF se, su, le, lu
<1>4. w.se = se /\ w.su = su /\ w.le = le /\ w.lu = lu /\ DOMAIN w = {"se", "su", "le", "lu"}
  <2> HIDE DEF w
  <2> QED
    BY <1>1
<1>5. /\ SlipWithin(se, Touch(s), GateSlip) /\ SlipWithin(su, Touch(s), GateSlip)
      /\ SlipWithin(le, Touch(l), GateSlip) /\ SlipWithin(lu, Touch(l), GateSlip)
  <2>1. \A x \in {w.se, w.su} : SlipWithin(x, Touch(s), GateSlip)
    BY DEF DepthHolds
  <2>2. \A x \in {w.le, w.lu} : SlipWithin(x, Touch(l), GateSlip)
    BY DEF DepthHolds
  <2> HIDE DEF w
  <2> QED
    BY <1>4, <2>1, <2>2
<1> SUFFICES ASSUME \A k \in DOMAIN w : Filled(w[k], n)
             PROVE  /\ (w.su.cost - w.se.cost) * 10000 <= GateSlip * SlipDen(w.se, Touch(s))
                    /\ (w.le.cost - w.lu.cost) * 10000 <= GateSlip * SlipDen(w.le, Touch(l))
  BY DEF UndoneWithinGate
<1> HIDE DEF w
<1>6. se.qty = 2 * n /\ su.qty = 2 * n /\ le.qty = 2 * n /\ lu.qty = 2 * n
  BY <1>4 DEF Filled
<1>7. GateSlip \in Nat
  BY TripBounds
<1>8. se.qty = su.qty /\ lu.qty = le.qty
  BY <1>6
<1>9. (su.cost - se.cost) * 10000 <= GateSlip * SlipDen(se, Touch(s))
  BY <1>7, <1>2, <1>3, <1>5, <1>8, ApartByTheSlip
<1>10. (le.cost - lu.cost) * 10000 <= GateSlip * SlipDen(lu, Touch(l))
  BY <1>7, <1>2, <1>3, <1>5, <1>8, ApartByTheSlip
<1>11. SlipDen(lu, Touch(l)) = SlipDen(le, Touch(l))
  BY <1>8 DEF SlipDen
<1> QED
  BY <1>4, <1>9, <1>10, <1>11

\* The depth check on any two books.
LEMMA DepthStep ==
  ASSUME Depth
  PROVE  DepthIsMeasured'
<1>1. PICK s \in SideBooks, l \in SideBooks, n \in Sizes, meds \in [{"s", "l"} -> {NoRow, 0, 30}] :
        probe' = [tw |-> "depth", s |-> s, l |-> l, n |-> n, ok |-> DepthHolds(s, l, n, meds)]
  BY DEF Depth
<1>2. probe'.s = s /\ probe'.l = l /\ probe'.n = n /\ probe'.ok = DepthHolds(s, l, n, meds)
  BY <1>1
<1>3. n \in Nat
  BY TripBounds
<1>4. TakesTheBest(s, l, n)
  BY <1>3, BooksAreWalked
<1>5. probe'.ok => UndoneWithinGate(s, l, n)
  BY <1>2, <1>3, DepthBounds
<1> QED
  BY <1>2, <1>4, <1>5 DEF DepthIsMeasured

\* Tripwires: the walk (depth_sampler.py:176) takes from a level exactly what the
\* better ones could not give, and an entry that passed tw_depth (v3_tripwires.py:209)
\* and was filled can be undone within the gate's slip, whatever the books and sizes.
THEOREM DepthMeasured == TripSpec => []DepthIsMeasured
<1>1. TripInit => DepthIsMeasured
  BY DEF TripInit, DepthIsMeasured
<1>2. DepthIsMeasured /\ [TripNext]_probe => DepthIsMeasured'
  <2> SUFFICES ASSUME DepthIsMeasured, [TripNext]_probe PROVE DepthIsMeasured'
    OBVIOUS
  <2>1. CASE Depth
    BY <2>1, DepthStep
  <2>2. CASE Identity
    <3>1. probe'.tw = "identity"
      BY <2>2 DEF Identity
    <3> QED
      BY <3>1 DEF DepthIsMeasured
  <2>3. CASE Persistence
    <3>1. probe'.tw = "persistence"
      BY <2>3 DEF Persistence
    <3> QED
      BY <3>1 DEF DepthIsMeasured
  <2>4. CASE LiveSpread
    <3>1. probe'.tw = "live_spread"
      BY <2>4 DEF LiveSpread
    <3> QED
      BY <3>1 DEF DepthIsMeasured
  <2>5. CASE Counterparty
    <3>1. probe'.tw = "counterparty"
      BY <2>5 DEF Counterparty
    <3> QED
      BY <3>1 DEF DepthIsMeasured
  <2>6. CASE DriftExit
    <3>1. probe'.tw = "drift"
      BY <2>6 DEF DriftExit
    <3> QED
      BY <3>1 DEF DepthIsMeasured
  <2>7. CASE UNCHANGED probe
    BY <2>7 DEF DepthIsMeasured
  <2> QED
    BY <2>1, <2>2, <2>3, <2>4, <2>5, <2>6, <2>7 DEF TripNext
<1> QED
  BY <1>1, <1>2, PTL DEF TripSpec

-----------------------------------------------------------------------------
(* The figures of the scans.                                                *)
IsHistory(f) == IsFiniteSet(DOMAIN f) /\ DOMAIN f \subseteq Nat /\ \A h \in DOMAIN f : f[h] \in Int

SpreadInv == hour \in Nat /\ IsHistory(short) /\ IsHistory(long)

LEMMA AscendingIs ==
  ASSUME NEW S \in SUBSET Int, IsFiniteSet(S)
  PROVE  /\ Cardinality(S) \in Nat /\ DOMAIN Ascending(S) = 1 .. Cardinality(S)
         /\ \A i \in 1 .. Cardinality(S) : Ascending(S)[i] \in S /\ Rank(S, Ascending(S)[i]) = i - 1
         /\ Ascending(S) \in Seq(S) /\ Len(Ascending(S)) = Cardinality(S)
<1>1. Cardinality(S) \in Nat
  BY FS_CardinalityType
<1>2. ASSUME NEW i \in 1 .. Cardinality(S) PROVE Ascending(S)[i] \in S /\ Rank(S, Ascending(S)[i]) = i - 1
  <2>1. \E e \in S : Cardinality({x \in S : x < e}) = i - 1
    BY RankExists DEF Rank, Sooner
  <2>2. Ascending(S)[i] = CHOOSE e \in S : Cardinality({x \in S : x < e}) = i - 1
    BY DEF Ascending
  <2> QED
    BY <2>1, <2>2 DEF Rank, Sooner
<1>3. DOMAIN Ascending(S) = 1 .. Cardinality(S)
  BY DEF Ascending
<1>4. Ascending(S) = [i \in 1 .. Cardinality(S) |-> Ascending(S)[i]]
  BY DEF Ascending
<1>5. Ascending(S) \in Seq(S) /\ Len(Ascending(S)) = Cardinality(S)
  BY <1>1, <1>2, <1>4
<1> QED
  BY <1>1, <1>2, <1>3, <1>5

LEMMA SameRank ==
  ASSUME NEW S \in SUBSET Int, IsFiniteSet(S), NEW e \in S, NEW f \in S
  PROVE  /\ Rank(S, e) = Rank(S, f) => e = f
         /\ Rank(S, e) < Rank(S, f) => e < f
<1>1. e = f \/ e < f \/ f < e
  OBVIOUS
<1> QED
  BY <1>1, RankGrows, RankType

\* A later member comes last.
LEMMA AscendingMore ==
  ASSUME NEW S \in SUBSET Int, IsFiniteSet(S), NEW x \in Int, \A e \in S : e < x
  PROVE  Ascending(S \cup {x}) = Append(Ascending(S), x)
<1> DEFINE T == S \cup {x}
           n == Cardinality(S)
           A == Ascending(S)
           B == Ascending(T)
<1>1. x \notin S
  OBVIOUS
<1>2. T \in SUBSET Int /\ IsFiniteSet(T) /\ Cardinality(T) = n + 1 /\ n \in Nat
  BY <1>1, FS_AddElement, FS_CardinalityType
<1>3. \A e \in S : Rank(T, e) = Rank(S, e)
  <2> SUFFICES ASSUME NEW e \in S PROVE Rank(T, e) = Rank(S, e)
    OBVIOUS
  <2>1. ~(x < e)
    OBVIOUS
  <2>2. Sooner(T, e) = Sooner(S, e)
    <3>1. \A y \in T : y < e => y \in S
      BY <2>1
    <3> QED
      BY <3>1 DEF Sooner
  <2> QED
    BY <2>2 DEF Rank
<1>4. Rank(T, x) = n
  <2>1. ~(x < x) /\ \A y \in S : y < x
    OBVIOUS
  <2>2. Sooner(T, x) = S
    BY <2>1 DEF Sooner
  <2> QED
    BY <2>2 DEF Rank
<1> HIDE DEF T, n
<1>5. /\ DOMAIN A = 1 .. n /\ A \in Seq(S) /\ Len(A) = n
      /\ \A i \in 1 .. n : A[i] \in S /\ Rank(S, A[i]) = i - 1
  BY AscendingIs DEF n
<1>6. /\ DOMAIN B = 1 .. (n + 1) /\ B \in Seq(T) /\ Len(B) = n + 1
      /\ \A i \in 1 .. (n + 1) : B[i] \in T /\ Rank(T, B[i]) = i - 1
  BY <1>2, AscendingIs
<1> HIDE DEF A, B
<1>7. x \in T /\ S \subseteq T
  BY DEF T
<1>8. ASSUME NEW i \in 1 .. (n + 1) PROVE B[i] = Append(A, x)[i]
  <2>1. CASE i \in 1 .. n
    <3>1. A[i] \in S /\ A[i] \in T /\ Rank(T, A[i]) = i - 1
      BY <1>3, <1>5, <1>7, <2>1
    <3>2. B[i] \in T /\ Rank(T, B[i]) = i - 1
      BY <1>6
    <3>3. B[i] = A[i]
      BY <1>2, <3>1, <3>2, SameRank
    <3> QED
      BY <1>5, <2>1, <3>3
  <2>2. CASE i = n + 1
    <3>1. B[i] \in T /\ Rank(T, B[i]) = n
      BY <1>2, <1>6, <2>2
    <3>2. B[i] = x
      BY <1>2, <1>4, <1>7, <3>1, SameRank
    <3> QED
      BY <1>5, <2>2, <3>2
  <2>3. i \in 1 .. n \/ i = n + 1
    BY <1>2
  <2> QED
    BY <2>1, <2>2, <2>3
<1>9. Append(A, x) \in Seq(T) /\ Len(Append(A, x)) = n + 1
  <2>1. A \in Seq(T)
    <3>1. \A i \in 1 .. n : A[i] \in T
      BY <1>5, <1>7
    <3>2. A = [i \in 1 .. n |-> A[i]]
      BY <1>5
    <3> QED
      BY <1>2, <3>1, <3>2
  <2> QED
    BY <1>5, <1>7, <2>1
<1>10. B = Append(A, x)
  BY <1>2, <1>6, <1>8, <1>9
<1> QED
  BY <1>10 DEF A, B, T

LEMMA IntervalIsInt ==
  ASSUME NEW ts \in Seq(Int)
  PROVE  infer_interval_h(ts) \in Int
<1> DEFINE diffs == {i \in 1 .. Len(ts) - 1 : 0 < ts[i + 1] - ts[i] /\ ts[i + 1] - ts[i] <= 48}
           mid == Cardinality(diffs) \div 2
           g == [i \in diffs |-> ts[i + 1] - ts[i]]
           W == {ts[i + 1] - ts[i] : i \in diffs}
           Mid(v) == /\ Cardinality({i \in diffs : ts[i + 1] - ts[i] < v}) <= mid
                     /\ mid < Cardinality({i \in diffs : ts[i + 1] - ts[i] <= v})
<1>1. \A i \in diffs : ts[i + 1] - ts[i] \in Int
  OBVIOUS
<1>2. infer_interval_h(ts) = IF Len(ts) < 3 \/ diffs = {} THEN 8 ELSE CHOOSE v \in W : Mid(v)
  BY DEF infer_interval_h
<1>3. CASE diffs # {}
  <2>1. IsFiniteSet(diffs)
    <3>1. IsFiniteSet(1 .. Len(ts) - 1)
      BY FS_Interval
    <3>2. diffs \in SUBSET (1 .. Len(ts) - 1)
      OBVIOUS
    <3> HIDE DEF diffs
    <3> QED
      BY <3>1, <3>2, FS_Subset
  <2>2. \A i \in diffs : g[i] = ts[i + 1] - ts[i]
    OBVIOUS
  <2> HIDE DEF diffs
  <2>3. Cardinality(diffs) \in Nat /\ Cardinality(diffs) # 0
    BY <1>3, <2>1, FS_CardinalityType, FS_EmptySet
  <2>4. mid \in Nat /\ mid < Cardinality(diffs)
    BY <2>3
  <2> HIDE DEF mid, g
  <2>5. \A i \in diffs : g[i] \in Int
    BY <1>1, <2>2
  <2>6. PICK i \in diffs : InPlace(diffs, g, mid, i)
    BY <2>1, <2>4, <2>5, PlaceExists
  <2>7. {j \in diffs : g[j] < g[i]} = {j \in diffs : ts[j + 1] - ts[j] < g[i]}
        /\ {j \in diffs : g[j] <= g[i]} = {j \in diffs : ts[j + 1] - ts[j] <= g[i]}
    BY <2>2
  <2>8. g[i] \in W /\ Mid(g[i])
    BY <2>2, <2>6, <2>7 DEF InPlace
  <2> HIDE DEF Mid
  <2> DEFINE c == CHOOSE v \in W : Mid(v)
  <2>9. c \in W
    BY <2>8
  <2>10. W \subseteq Int
    BY <1>1
  <2>11. infer_interval_h(ts) = IF Len(ts) < 3 \/ diffs = {} THEN 8 ELSE c
    BY <1>2
  <2> HIDE DEF W, c
  <2> QED
    BY <2>9, <2>10, <2>11
<1>4. CASE diffs = {}
  BY <1>2, <1>4
<1> QED
  BY <1>3, <1>4

LEMMA LegIntervals ==
  ASSUME SpreadInv
  PROVE  iv_s \in Int /\ iv_l \in Int
<1>1. ASSUME NEW f, IsHistory(f), NEW leg PROVE infer_interval_h(RowTimes(f, leg)) \in Int
  <2> DEFINE A == Ascending(DOMAIN f)
  <2>1. A \in Seq(Int)
    <3>1. DOMAIN f \in SUBSET Int /\ IsFiniteSet(DOMAIN f)
      BY <1>1 DEF IsHistory
    <3>2. A \in Seq(DOMAIN f)
      BY <3>1, AscendingIs
    <3> HIDE DEF A
    <3> QED
      BY <3>1, <3>2
  <2> HIDE DEF A
  <2>2. Reverse(A) \in Seq(Int)
    BY <2>1 DEF Reverse
  <2>3. RowTimes(f, leg) \in Seq(Int)
    BY <2>1, <2>2 DEF RowTimes, A
  <2> QED
    BY <2>3, IntervalIsInt
<1> QED
  BY <1>1 DEF SpreadInv, iv_s, iv_l

-----------------------------------------------------------------------------
\* The loops of the scans, step by step.
Fall(acc, x) ==
  [cum    |-> acc.cum + x,
   peak   |-> Max({acc.peak, acc.cum + x}),
   max_dd |-> Max({acc.max_dd, Max({acc.peak, acc.cum + x}) - (acc.cum + x)})]
Grow(acc, x) == Append(acc, Last(acc) + x)
Turn(acc, v) ==
  IF v > 0 THEN [acc EXCEPT !.cur = Append(@, v)]
  ELSE IF acc.cur # <<>> THEN [eps |-> Append(acc.eps, acc.cur), cur |-> <<>>]
  ELSE acc
Fill(acc, h) ==
  LET cs == Carry(short, iv_l, h, acc.cs)
      cl == Carry(long, iv_s, h, acc.cl)
  IN  [cs |-> cs, cl |-> cl,
       spread |-> IF <<>> \in {cs, cl} THEN acc.spread ELSE With(acc.spread, h, cs[1] - cl[1])]

\* A fold over the positions of a sequence goes position by position.
Stays(F, T, n) == \A t \in T, i \in 1 .. n : F[<<t, i>>] \in T
Folds(it, F, T, n) ==
  \A s \in SUBSET (1 .. n) : s # {} /\ it[s \ {Max(s)}] \in T => it[s] = F[<<it[s \ {Max(s)}], Max(s)>>]
GoesAlong(it, F, T, n) ==
  \A k \in 0 .. n : it[1 .. k] \in T /\ (k < n => it[1 .. (k + 1)] = F[<<it[1 .. k], k + 1>>])

LEMMA FoldTrace ==
  ASSUME NEW n \in Nat, NEW T, NEW base \in T, NEW F, Stays(F, T, n), NEW it, it[{}] = base, Folds(it, F, T, n)
  PROVE  GoesAlong(it, F, T, n)
<1>1. ASSUME NEW k \in 0 .. n - 1, it[1 .. k] \in T PROVE it[1 .. (k + 1)] = F[<<it[1 .. k], k + 1>>]
  <2> DEFINE s == 1 .. (k + 1)
  <2>1. s \in SUBSET (1 .. n)
    OBVIOUS
  <2>2. s # {} /\ Max(s) = k + 1 /\ s \ {k + 1} = 1 .. k
    <3>1. k \in Nat
      OBVIOUS
    <3> QED
      BY <3>1, UpTo
  <2> HIDE DEF s
  <2>3. it[s] = F[<<it[s \ {Max(s)}], Max(s)>>]
    BY <1>1, <2>1, <2>2 DEF Folds
  <2> QED
    BY <2>2, <2>3 DEF s
<1> DEFINE Good == {k \in 0 .. n : it[1 .. k] \in T}
<1>2. 0 \in Good
  <2>1. 1 .. 0 = {}
    OBVIOUS
  <2> QED
    BY <2>1
<1>3. \A k \in 0 .. n - 1 : k \in Good => k + 1 \in Good
  <2> SUFFICES ASSUME NEW k \in 0 .. n - 1, k \in Good PROVE k + 1 \in Good
    OBVIOUS
  <2>1. it[1 .. k] \in T /\ k + 1 \in 1 .. n
    OBVIOUS
  <2>2. F[<<it[1 .. k], k + 1>>] \in T
    BY <2>1 DEF Stays
  <2>3. it[1 .. (k + 1)] \in T
    BY <1>1, <2>1, <2>2
  <2> QED
    BY <2>3
<1>4. \A k \in 0 .. n : it[1 .. k] \in T
  <2>1. 0 .. n \subseteq Good
    <3> HIDE DEF Good
    <3> QED
      BY <1>2, <1>3, UpToInduction
  <2> QED
    BY <2>1
<1> QED
  BY <1>1, <1>4 DEF GoesAlong

\* The prefix sums of an order of hours, and where the loop over the days ends.
Carries(hours) == FoldLeft(LAMBDA acc, h : Append(acc, Last(acc) + d(h)), <<0>>, hours)
Turns(vals) ==
  FoldLeft(LAMBDA acc, v : IF v > 0 THEN [acc EXCEPT !.cur = Append(@, v)]
                           ELSE IF acc.cur # <<>> THEN [eps |-> Append(acc.eps, acc.cur), cur |-> <<>>]
                           ELSE acc,
           [eps |-> <<>>, cur |-> <<>>], vals)
FilledOver(hours) ==
  FoldLeft(LAMBDA acc, h :
             LET cs == Carry(short, iv_l, h, acc.cs)
                 cl == Carry(long, iv_s, h, acc.cl)
             IN  [cs |-> cs, cl |-> cl,
                  spread |-> IF <<>> \in {cs, cl} THEN acc.spread
                             ELSE With(acc.spread, h, cs[1] - cl[1])],
           [cs |-> <<>>, cl |-> <<>>, spread |-> <<>>], hours)
FillType == [cs : Seq(Int), cl : Seq(Int), spread : UNION {[S -> Int] : S \in SUBSET Int}]

\* The loop over the hours (funding_history_scan.py:219).
LEMMA CumulateSteps ==
  ASSUME NEW hours \in Seq(Int), \A i \in DOMAIN hours : d(hours[i]) \in Int
  PROVE  \E c : /\ Cumulate(hours) = c[Len(hours)]
                /\ c[0] = [cum |-> 0, peak |-> 0, max_dd |-> 0]
                /\ \A k \in 0 .. Len(hours) - 1 : c[k + 1] = Fall(c[k], d(hours[k + 1]))
                /\ \A k \in 0 .. Len(hours) : c[k] \in [cum : Int, peak : Int, max_dd : Int]
<1> DEFINE n == Len(hours)
           D == DOMAIN hours
           base == [cum |-> 0, peak |-> 0, max_dd |-> 0]
           T == [cum : Int, peak : Int, max_dd : Int]
           F == [p \in T \X D |-> Fall(p[1], d(hours[p[2]]))]
           Eq(g) == g = [s \in SUBSET D |-> IF s = {} THEN base ELSE Fall(g[s \ {Max(s)}], d(hours[Max(s)]))]
           it == CHOOSE g : Eq(g)
           c == [k \in 0 .. n |-> it[1 .. k]]
<1>1. Cumulate(hours) = it[D]
  BY DEF Cumulate, Fall, FoldLeft, MapThenFoldSet
<1>2. D = 1 .. n /\ n \in Nat /\ IsFiniteSet(D) /\ D \subseteq Int
  <2>1. D = 1 .. n /\ n \in Nat
    OBVIOUS
  <2> QED
    BY <2>1, FS_Interval
<1>3. base \in T
  OBVIOUS
<1>4. \A t \in T, i \in D : Fall(t, d(hours[i])) \in T
  <2> SUFFICES ASSUME NEW t \in T, NEW i \in D PROVE Fall(t, d(hours[i])) \in T
    OBVIOUS
  <2> DEFINE x == d(hours[i])
             sum == t.cum + x
             top == Max({t.peak, sum})
             low == Max({t.max_dd, top - sum})
  <2>1. t.cum \in Int /\ t.peak \in Int /\ t.max_dd \in Int /\ x \in Int
    OBVIOUS
  <2>2. sum \in Int
    BY <2>1
  <2>3. \A a, b \in Int : Max({a, b}) \in Int
    BY OfTwo
  <2> HIDE DEF x, sum
  <2>4. top \in Int
    BY <2>1, <2>2, <2>3
  <2> HIDE DEF top
  <2>5. low \in Int
    BY <2>1, <2>2, <2>3, <2>4
  <2>6. Fall(t, x) = [cum |-> sum, peak |-> top, max_dd |-> low]
    BY DEF Fall, sum, top, low
  <2> HIDE DEF low
  <2> QED
    BY <2>2, <2>4, <2>5, <2>6 DEF x
<1>5. \A t \in T, i \in D : F[<<t, i>>] = Fall(t, d(hours[i])) /\ F[<<t, i>>] \in T
  <2> SUFFICES ASSUME NEW t \in T, NEW i \in D PROVE F[<<t, i>>] = Fall(t, d(hours[i])) /\ F[<<t, i>>] \in T
    OBVIOUS
  <2>1. Fall(t, d(hours[i])) \in T
    BY <1>4
  <2> HIDE DEF T
  <2> QED
    BY <2>1
<1> HIDE DEF F, T, base
<1>6. ASSUME NEW g, NEW s \in SUBSET D, s # {}, g[s \ {Max(s)}] \in T
      PROVE  F[<<g[s \ {Max(s)}], Max(s)>>] = Fall(g[s \ {Max(s)}], d(hours[Max(s)]))
  <2>1. IsFiniteSet(s) /\ s \subseteq Int
    BY <1>2, FS_Subset
  <2>2. Max(s) \in D
    BY <1>6, <2>1, Extremes
  <2> DEFINE r == g[s \ {Max(s)}]
             m == Max(s)
  <2>3. r \in T /\ m \in D
    BY <1>6, <2>2
  <2> HIDE DEF r, m, D
  <2>4. F[<<r, m>>] = Fall(r, d(hours[m]))
    BY <1>5, <2>3
  <2> QED
    BY <2>4 DEF r, m
<1>7. Eq(it)
  <2>1. PICK g : IsFold(g, F, base, D) /\ \A s \in SUBSET D : g[s] \in T
    <3> HIDE DEF D
    <3> QED
      BY <1>2, <1>3, <1>5, FoldExists
  <2>2. \A s \in SUBSET D : s \ {Max(s)} \in SUBSET D
    OBVIOUS
  <2>3. Eq(g)
    <3> HIDE DEF D
    <3> QED
      BY <1>6, <2>1, <2>2 DEF IsFold
  <2> HIDE DEF Eq
  <2> QED
    BY <2>3
<1> HIDE DEF it
<1>8. it[{}] = base
  <2>1. {} \in SUBSET D
    OBVIOUS
  <2> HIDE DEF D
  <2> QED
    BY <1>7, <2>1
<1>9. \A s \in SUBSET D : s # {} /\ it[s \ {Max(s)}] \in T => it[s] = F[<<it[s \ {Max(s)}], Max(s)>>]
  <2> SUFFICES ASSUME NEW s \in SUBSET D, s # {}, it[s \ {Max(s)}] \in T
               PROVE  it[s] = F[<<it[s \ {Max(s)}], Max(s)>>]
    OBVIOUS
  <2>1. it[s] = Fall(it[s \ {Max(s)}], d(hours[Max(s)]))
    <3> HIDE DEF D
    <3> QED
      BY <1>7
  <2> HIDE DEF D
  <2> QED
    BY <1>6, <2>1
<1>10. \A k \in 0 .. n : it[1 .. k] \in T /\ (k < n => it[1 .. (k + 1)] = F[<<it[1 .. k], k + 1>>])
  <2>1. Stays(F, T, n)
    BY <1>2, <1>5 DEF Stays
  <2>2. Folds(it, F, T, n)
    BY <1>2, <1>9 DEF Folds
  <2> HIDE DEF D, n
  <2>3. GoesAlong(it, F, T, n)
    BY <1>2, <1>3, <1>8, <2>1, <2>2, FoldTrace
  <2> QED
    BY <2>3 DEF GoesAlong
<1>11. \A k \in 0 .. n : c[k] = it[1 .. k]
  OBVIOUS
<1>12. n \in 0 .. n /\ 0 \in 0 .. n /\ 1 .. 0 = {}
       /\ \A k \in 0 .. n - 1 : k \in 0 .. n /\ k + 1 \in 0 .. n /\ k < n /\ k + 1 \in D
  BY <1>2
<1> HIDE DEF c, n, D
<1>13. \A k \in 0 .. n : c[k] \in T
  BY <1>10, <1>11
<1>14. \A k \in 0 .. n - 1 : c[k + 1] = Fall(c[k], d(hours[k + 1]))
  <2> SUFFICES ASSUME NEW k \in 0 .. n - 1 PROVE c[k + 1] = Fall(c[k], d(hours[k + 1]))
    OBVIOUS
  <2>1. c[k + 1] = F[<<c[k], k + 1>>]
    BY <1>10, <1>11, <1>12
  <2>2. c[k] \in T /\ k + 1 \in D
    BY <1>12, <1>13
  <2> QED
    BY <1>5, <2>1, <2>2
<1>15. Cumulate(hours) = c[n] /\ c[0] = base
  BY <1>1, <1>2, <1>8, <1>11, <1>12
<1> QED
  BY <1>13, <1>14, <1>15 DEF n, T, base

\* The carry after each hour, from the start on.
LEMMA PrefixSteps ==
  ASSUME NEW hours \in Seq(Int), \A i \in DOMAIN hours : d(hours[i]) \in Int
  PROVE  \E c : /\ Carries(hours) = c[Len(hours)]
                /\ c[0] = <<0>>
                /\ \A k \in 0 .. Len(hours) - 1 : c[k + 1] = Grow(c[k], d(hours[k + 1]))
                /\ \A k \in 0 .. Len(hours) : c[k] \in Seq(Int) \ {<<>>}
<1> DEFINE n == Len(hours)
           D == DOMAIN hours
           base == <<0>>
           T == Seq(Int) \ {<<>>}
           F == [p \in T \X D |-> Grow(p[1], d(hours[p[2]]))]
           Eq(g) == g = [s \in SUBSET D |-> IF s = {} THEN base ELSE Grow(g[s \ {Max(s)}], d(hours[Max(s)]))]
           it == CHOOSE g : Eq(g)
           c == [k \in 0 .. n |-> it[1 .. k]]
<1>1. Carries(hours) = it[D]
  BY DEF Carries, Grow, FoldLeft, MapThenFoldSet
<1>2. D = 1 .. n /\ n \in Nat /\ IsFiniteSet(D) /\ D \subseteq Int
  <2>1. D = 1 .. n /\ n \in Nat
    OBVIOUS
  <2> QED
    BY <2>1, FS_Interval
<1>3. base \in T
  OBVIOUS
<1>4. \A t \in T, i \in D : Grow(t, d(hours[i])) \in T
  <2> SUFFICES ASSUME NEW t \in T, NEW i \in D PROVE Grow(t, d(hours[i])) \in T
    OBVIOUS
  <2> DEFINE x == d(hours[i])
  <2>1. t \in Seq(Int) /\ t # <<>> /\ x \in Int
    OBVIOUS
  <2>2. Len(t) \in 1 .. Len(t) /\ Last(t) + x \in Int
    BY <2>1 DEF Last
  <2> DEFINE y == Last(t) + x
             G == Append(t, y)
  <2> HIDE DEF x, y
  <2>3. G \in Seq(Int) /\ Len(G) = Len(t) + 1 /\ Len(t) \in Nat
    BY <2>1, <2>2 DEF y
  <2>4. G # <<>>
    BY <2>3
  <2>5. Grow(t, x) = G
    BY DEF Grow, y
  <2> HIDE DEF G
  <2> QED
    BY <2>3, <2>4, <2>5 DEF x
<1>5. \A t \in T, i \in D : F[<<t, i>>] = Grow(t, d(hours[i])) /\ F[<<t, i>>] \in T
  <2> SUFFICES ASSUME NEW t \in T, NEW i \in D PROVE F[<<t, i>>] = Grow(t, d(hours[i])) /\ F[<<t, i>>] \in T
    OBVIOUS
  <2>1. Grow(t, d(hours[i])) \in T
    BY <1>4
  <2> HIDE DEF T
  <2> QED
    BY <2>1
<1> HIDE DEF F, T, base
<1>6. ASSUME NEW g, NEW s \in SUBSET D, s # {}, g[s \ {Max(s)}] \in T
      PROVE  F[<<g[s \ {Max(s)}], Max(s)>>] = Grow(g[s \ {Max(s)}], d(hours[Max(s)]))
  <2>1. IsFiniteSet(s) /\ s \subseteq Int
    BY <1>2, FS_Subset
  <2>2. Max(s) \in D
    BY <1>6, <2>1, Extremes
  <2> DEFINE r == g[s \ {Max(s)}]
             m == Max(s)
  <2>3. r \in T /\ m \in D
    BY <1>6, <2>2
  <2> HIDE DEF r, m, D
  <2>4. F[<<r, m>>] = Grow(r, d(hours[m]))
    BY <1>5, <2>3
  <2> QED
    BY <2>4 DEF r, m
<1>7. Eq(it)
  <2>1. PICK g : IsFold(g, F, base, D) /\ \A s \in SUBSET D : g[s] \in T
    <3> HIDE DEF D
    <3> QED
      BY <1>2, <1>3, <1>5, FoldExists
  <2>2. \A s \in SUBSET D : s \ {Max(s)} \in SUBSET D
    OBVIOUS
  <2>3. Eq(g)
    <3> HIDE DEF D
    <3> QED
      BY <1>6, <2>1, <2>2 DEF IsFold
  <2> HIDE DEF Eq
  <2> QED
    BY <2>3
<1> HIDE DEF it
<1>8. it[{}] = base
  <2>1. {} \in SUBSET D
    OBVIOUS
  <2> HIDE DEF D
  <2> QED
    BY <1>7, <2>1
<1>9. \A s \in SUBSET D : s # {} /\ it[s \ {Max(s)}] \in T => it[s] = F[<<it[s \ {Max(s)}], Max(s)>>]
  <2> SUFFICES ASSUME NEW s \in SUBSET D, s # {}, it[s \ {Max(s)}] \in T
               PROVE  it[s] = F[<<it[s \ {Max(s)}], Max(s)>>]
    OBVIOUS
  <2>1. it[s] = Grow(it[s \ {Max(s)}], d(hours[Max(s)]))
    <3> HIDE DEF D
    <3> QED
      BY <1>7
  <2> HIDE DEF D
  <2> QED
    BY <1>6, <2>1
<1>10. \A k \in 0 .. n : it[1 .. k] \in T /\ (k < n => it[1 .. (k + 1)] = F[<<it[1 .. k], k + 1>>])
  <2>1. Stays(F, T, n)
    BY <1>2, <1>5 DEF Stays
  <2>2. Folds(it, F, T, n)
    BY <1>2, <1>9 DEF Folds
  <2> HIDE DEF D, n
  <2>3. GoesAlong(it, F, T, n)
    BY <1>2, <1>3, <1>8, <2>1, <2>2, FoldTrace
  <2> QED
    BY <2>3 DEF GoesAlong
<1>11. \A k \in 0 .. n : c[k] = it[1 .. k]
  OBVIOUS
<1>12. n \in 0 .. n /\ 0 \in 0 .. n /\ 1 .. 0 = {}
       /\ \A k \in 0 .. n - 1 : k \in 0 .. n /\ k + 1 \in 0 .. n /\ k < n /\ k + 1 \in D
  BY <1>2
<1> HIDE DEF c, n, D
<1>13. \A k \in 0 .. n : c[k] \in T
  BY <1>10, <1>11
<1>14. \A k \in 0 .. n - 1 : c[k + 1] = Grow(c[k], d(hours[k + 1]))
  <2> SUFFICES ASSUME NEW k \in 0 .. n - 1 PROVE c[k + 1] = Grow(c[k], d(hours[k + 1]))
    OBVIOUS
  <2>1. c[k + 1] = F[<<c[k], k + 1>>]
    BY <1>10, <1>11, <1>12
  <2>2. c[k] \in T /\ k + 1 \in D
    BY <1>12, <1>13
  <2> QED
    BY <1>5, <2>1, <2>2
<1>15. Carries(hours) = c[n] /\ c[0] = base
  BY <1>1, <1>2, <1>8, <1>11, <1>12
<1> QED
  BY <1>13, <1>14, <1>15 DEF n, T, base

\* The loop over the days (funding_history_scan_v2.py:224).
LEMMA EpisodeSteps ==
  ASSUME NEW vals \in Seq(Int)
  PROVE  \E c : /\ Turns(vals) = c[Len(vals)]
                /\ c[0] = [eps |-> <<>>, cur |-> <<>>]
                /\ \A k \in 0 .. Len(vals) - 1 : c[k + 1] = Turn(c[k], vals[k + 1])
                /\ \A k \in 0 .. Len(vals) : c[k] \in [eps : Seq(Seq(Int)), cur : Seq(Int)]
<1> DEFINE n == Len(vals)
           D == DOMAIN vals
           base == [eps |-> <<>>, cur |-> <<>>]
           T == [eps : Seq(Seq(Int)), cur : Seq(Int)]
           F == [p \in T \X D |-> Turn(p[1], vals[p[2]])]
           Eq(g) == g = [s \in SUBSET D |-> IF s = {} THEN base ELSE Turn(g[s \ {Max(s)}], vals[Max(s)])]
           it == CHOOSE g : Eq(g)
           c == [k \in 0 .. n |-> it[1 .. k]]
<1>1. Turns(vals) = it[D]
  BY DEF Turns, Turn, FoldLeft, MapThenFoldSet
<1>2. D = 1 .. n /\ n \in Nat /\ IsFiniteSet(D) /\ D \subseteq Int
  <2>1. D = 1 .. n /\ n \in Nat
    OBVIOUS
  <2> QED
    BY <2>1, FS_Interval
<1>3. base \in T
  OBVIOUS
<1>4. \A t \in T, i \in D : Turn(t, vals[i]) \in T
  <2> SUFFICES ASSUME NEW t \in T, NEW i \in D PROVE Turn(t, vals[i]) \in T
    OBVIOUS
  <2>1. vals[i] \in Int /\ t.eps \in Seq(Seq(Int)) /\ t.cur \in Seq(Int)
    OBVIOUS
  <2> DEFINE A == Append(t.cur, vals[i])
             B == Append(t.eps, t.cur)
             none == <<>>
  <2>2. A \in Seq(Int) /\ B \in Seq(Seq(Int)) /\ none \in Seq(Int)
    BY <2>1
  <2>3. Turn(t, vals[i]) = IF vals[i] > 0 THEN [t EXCEPT !.cur = A]
                           ELSE IF t.cur # <<>> THEN [eps |-> B, cur |-> none] ELSE t
    BY DEF Turn
  <2> HIDE DEF A, B, none
  <2>4. [t EXCEPT !.cur = A] \in [eps : Seq(Seq(Int)), cur : Seq(Int)]
    BY <2>1, <2>2
  <2>5. [eps |-> B, cur |-> none] \in [eps : Seq(Seq(Int)), cur : Seq(Int)]
    BY <2>2
  <2> QED
    BY <2>3, <2>4, <2>5
<1>5. \A t \in T, i \in D : F[<<t, i>>] = Turn(t, vals[i]) /\ F[<<t, i>>] \in T
  <2> SUFFICES ASSUME NEW t \in T, NEW i \in D PROVE F[<<t, i>>] = Turn(t, vals[i]) /\ F[<<t, i>>] \in T
    OBVIOUS
  <2>1. Turn(t, vals[i]) \in T
    BY <1>4
  <2> HIDE DEF T
  <2> QED
    BY <2>1
<1> HIDE DEF F, T, base
<1>6. ASSUME NEW g, NEW s \in SUBSET D, s # {}, g[s \ {Max(s)}] \in T
      PROVE  F[<<g[s \ {Max(s)}], Max(s)>>] = Turn(g[s \ {Max(s)}], vals[Max(s)])
  <2>1. IsFiniteSet(s) /\ s \subseteq Int
    BY <1>2, FS_Subset
  <2>2. Max(s) \in D
    BY <1>6, <2>1, Extremes
  <2> DEFINE r == g[s \ {Max(s)}]
             m == Max(s)
  <2>3. r \in T /\ m \in D
    BY <1>6, <2>2
  <2> HIDE DEF r, m, D
  <2>4. F[<<r, m>>] = Turn(r, vals[m])
    BY <1>5, <2>3
  <2> QED
    BY <2>4 DEF r, m
<1>7. Eq(it)
  <2>1. PICK g : IsFold(g, F, base, D) /\ \A s \in SUBSET D : g[s] \in T
    <3> HIDE DEF D
    <3> QED
      BY <1>2, <1>3, <1>5, FoldExists
  <2>2. \A s \in SUBSET D : s \ {Max(s)} \in SUBSET D
    OBVIOUS
  <2>3. Eq(g)
    <3> HIDE DEF D
    <3> QED
      BY <1>6, <2>1, <2>2 DEF IsFold
  <2> HIDE DEF Eq
  <2> QED
    BY <2>3
<1> HIDE DEF it
<1>8. it[{}] = base
  <2>1. {} \in SUBSET D
    OBVIOUS
  <2> HIDE DEF D
  <2> QED
    BY <1>7, <2>1
<1>9. \A s \in SUBSET D : s # {} /\ it[s \ {Max(s)}] \in T => it[s] = F[<<it[s \ {Max(s)}], Max(s)>>]
  <2> SUFFICES ASSUME NEW s \in SUBSET D, s # {}, it[s \ {Max(s)}] \in T
               PROVE  it[s] = F[<<it[s \ {Max(s)}], Max(s)>>]
    OBVIOUS
  <2>1. it[s] = Turn(it[s \ {Max(s)}], vals[Max(s)])
    <3> HIDE DEF D
    <3> QED
      BY <1>7
  <2> HIDE DEF D
  <2> QED
    BY <1>6, <2>1
<1>10. \A k \in 0 .. n : it[1 .. k] \in T /\ (k < n => it[1 .. (k + 1)] = F[<<it[1 .. k], k + 1>>])
  <2>1. Stays(F, T, n)
    BY <1>2, <1>5 DEF Stays
  <2>2. Folds(it, F, T, n)
    BY <1>2, <1>9 DEF Folds
  <2> HIDE DEF D, n
  <2>3. GoesAlong(it, F, T, n)
    BY <1>2, <1>3, <1>8, <2>1, <2>2, FoldTrace
  <2> QED
    BY <2>3 DEF GoesAlong
<1>11. \A k \in 0 .. n : c[k] = it[1 .. k]
  OBVIOUS
<1>12. n \in 0 .. n /\ 0 \in 0 .. n /\ 1 .. 0 = {}
       /\ \A k \in 0 .. n - 1 : k \in 0 .. n /\ k + 1 \in 0 .. n /\ k < n /\ k + 1 \in D
  BY <1>2
<1> HIDE DEF c, n, D
<1>13. \A k \in 0 .. n : c[k] \in T
  BY <1>10, <1>11
<1>14. \A k \in 0 .. n - 1 : c[k + 1] = Turn(c[k], vals[k + 1])
  <2> SUFFICES ASSUME NEW k \in 0 .. n - 1 PROVE c[k + 1] = Turn(c[k], vals[k + 1])
    OBVIOUS
  <2>1. c[k + 1] = F[<<c[k], k + 1>>]
    BY <1>10, <1>11, <1>12
  <2>2. c[k] \in T /\ k + 1 \in D
    BY <1>12, <1>13
  <2> QED
    BY <1>5, <2>1, <2>2
<1>15. Turns(vals) = c[n] /\ c[0] = base
  BY <1>1, <1>2, <1>8, <1>11, <1>12
<1> QED
  BY <1>13, <1>14, <1>15 DEF n, T, base

\* The loop over the hours (v3_scanner.py:87).
LEMMA FillSteps ==
  ASSUME SpreadInv, NEW hours \in Seq(Int)
  PROVE  \E c : /\ FilledOver(hours) = c[Len(hours)]
                /\ c[0] = [cs |-> <<>>, cl |-> <<>>, spread |-> <<>>]
                /\ \A k \in 0 .. Len(hours) - 1 : c[k + 1] = Fill(c[k], hours[k + 1])
                /\ \A k \in 0 .. Len(hours) : c[k] \in FillType
<1> DEFINE n == Len(hours)
           D == DOMAIN hours
           base == [cs |-> <<>>, cl |-> <<>>, spread |-> <<>>]
           T == FillType
           F == [p \in T \X D |-> Fill(p[1], hours[p[2]])]
           Eq(g) == g = [s \in SUBSET D |-> IF s = {} THEN base ELSE Fill(g[s \ {Max(s)}], hours[Max(s)])]
           it == CHOOSE g : Eq(g)
           c == [k \in 0 .. n |-> it[1 .. k]]
<1>1. FilledOver(hours) = it[D]
  BY DEF FilledOver, Fill, FoldLeft, MapThenFoldSet
<1>2. D = 1 .. n /\ n \in Nat /\ IsFiniteSet(D) /\ D \subseteq Int
  <2>1. D = 1 .. n /\ n \in Nat
    OBVIOUS
  <2> QED
    BY <2>1, FS_Interval
<1>3. base \in T
  <2> DEFINE none == <<>>
  <2>1. none \in Seq(Int) /\ none \in [{} -> Int] /\ {} \in SUBSET Int
    OBVIOUS
  <2>2. none \in UNION {[S -> Int] : S \in SUBSET Int}
    BY <2>1
  <2>3. base = [cs |-> none, cl |-> none, spread |-> none]
    OBVIOUS
  <2> HIDE DEF none, base
  <2> QED
    BY <2>1, <2>2, <2>3 DEF FillType
<1>4. \A t \in T, i \in D : Fill(t, hours[i]) \in T
  <2> SUFFICES ASSUME NEW t \in T, NEW i \in D PROVE Fill(t, hours[i]) \in T
    OBVIOUS
  <2> DEFINE h == hours[i]
             cs == Carry(short, iv_l, h, t.cs)
             cl == Carry(long, iv_s, h, t.cl)
             W == With(t.spread, h, cs[1] - cl[1])
             spread == IF <<>> \in {cs, cl} THEN t.spread ELSE W
  <2>1. h \in Int /\ t.cs \in Seq(Int) /\ t.cl \in Seq(Int) /\ t.spread \in UNION {[S -> Int] : S \in SUBSET Int}
    BY DEF FillType
  <2>2. iv_s \in Int /\ iv_l \in Int /\ IsHistory(short) /\ IsHistory(long)
    BY LegIntervals DEF SpreadInv
  <2>3. Fill(t, h) = [cs |-> cs, cl |-> cl, spread |-> spread]
    BY DEF Fill
  <2> HIDE DEF h
  <2>4. cs \in Seq(Int) /\ cl \in Seq(Int)
    <3>1. \A f, other, last : IsHistory(f) /\ other \in Int /\ last \in Seq(Int) => Carry(f, other, h, last) \in Seq(Int)
      BY DEF Carry, IsHistory
    <3> QED
      BY <2>1, <2>2, <3>1
  <2> HIDE DEF cs, cl
  <2>5. PICK S \in SUBSET Int : t.spread \in [S -> Int]
    BY <2>1
  <2>6. cs # <<>> /\ cl # <<>> => W \in [S \cup {h} -> Int]
    <3> SUFFICES ASSUME cs # <<>>, cl # <<>> PROVE W \in [S \cup {h} -> Int]
      OBVIOUS
    <3>1. cs[1] \in Int /\ cl[1] \in Int
      BY <2>4
    <3> DEFINE r == cs[1] - cl[1]
    <3>2. r \in Int
      BY <3>1
    <3> HIDE DEF r
    <3>3. With(t.spread, h, r) \in [S \cup {h} -> Int]
      BY <2>5, <3>2 DEF With
    <3> QED
      BY <3>3 DEF r
  <2>7. S \cup {h} \in SUBSET Int
    BY <2>1
  <2> HIDE DEF W
  <2>8. spread \in UNION {[U -> Int] : U \in SUBSET Int}
    BY <2>1, <2>6, <2>7
  <2> HIDE DEF spread
  <2> QED
    BY <2>3, <2>4, <2>8 DEF FillType, h
<1>5. \A t \in T, i \in D : F[<<t, i>>] = Fill(t, hours[i]) /\ F[<<t, i>>] \in T
  <2> SUFFICES ASSUME NEW t \in T, NEW i \in D PROVE F[<<t, i>>] = Fill(t, hours[i]) /\ F[<<t, i>>] \in T
    OBVIOUS
  <2>1. Fill(t, hours[i]) \in T
    BY <1>4
  <2> HIDE DEF T
  <2> QED
    BY <2>1
<1> HIDE DEF F, T, base
<1>6. ASSUME NEW g, NEW s \in SUBSET D, s # {}, g[s \ {Max(s)}] \in T
      PROVE  F[<<g[s \ {Max(s)}], Max(s)>>] = Fill(g[s \ {Max(s)}], hours[Max(s)])
  <2>1. IsFiniteSet(s) /\ s \subseteq Int
    BY <1>2, FS_Subset
  <2>2. Max(s) \in D
    BY <1>6, <2>1, Extremes
  <2> DEFINE r == g[s \ {Max(s)}]
             m == Max(s)
  <2>3. r \in T /\ m \in D
    BY <1>6, <2>2
  <2> HIDE DEF r, m, D
  <2>4. F[<<r, m>>] = Fill(r, hours[m])
    BY <1>5, <2>3
  <2> QED
    BY <2>4 DEF r, m
<1>7. Eq(it)
  <2>1. PICK g : IsFold(g, F, base, D) /\ \A s \in SUBSET D : g[s] \in T
    <3> HIDE DEF D
    <3> QED
      BY <1>2, <1>3, <1>5, FoldExists
  <2>2. \A s \in SUBSET D : s \ {Max(s)} \in SUBSET D
    OBVIOUS
  <2>3. Eq(g)
    <3> HIDE DEF D
    <3> QED
      BY <1>6, <2>1, <2>2 DEF IsFold
  <2> HIDE DEF Eq
  <2> QED
    BY <2>3
<1> HIDE DEF it
<1>8. it[{}] = base
  <2>1. {} \in SUBSET D
    OBVIOUS
  <2> HIDE DEF D
  <2> QED
    BY <1>7, <2>1
<1>9. \A s \in SUBSET D : s # {} /\ it[s \ {Max(s)}] \in T => it[s] = F[<<it[s \ {Max(s)}], Max(s)>>]
  <2> SUFFICES ASSUME NEW s \in SUBSET D, s # {}, it[s \ {Max(s)}] \in T
               PROVE  it[s] = F[<<it[s \ {Max(s)}], Max(s)>>]
    OBVIOUS
  <2>1. it[s] = Fill(it[s \ {Max(s)}], hours[Max(s)])
    <3> HIDE DEF D
    <3> QED
      BY <1>7
  <2> HIDE DEF D
  <2> QED
    BY <1>6, <2>1
<1>10. \A k \in 0 .. n : it[1 .. k] \in T /\ (k < n => it[1 .. (k + 1)] = F[<<it[1 .. k], k + 1>>])
  <2>1. Stays(F, T, n)
    BY <1>2, <1>5 DEF Stays
  <2>2. Folds(it, F, T, n)
    BY <1>2, <1>9 DEF Folds
  <2> HIDE DEF D, n
  <2>3. GoesAlong(it, F, T, n)
    BY <1>2, <1>3, <1>8, <2>1, <2>2, FoldTrace
  <2> QED
    BY <2>3 DEF GoesAlong
<1>11. \A k \in 0 .. n : c[k] = it[1 .. k]
  OBVIOUS
<1>12. n \in 0 .. n /\ 0 \in 0 .. n /\ 1 .. 0 = {}
       /\ \A k \in 0 .. n - 1 : k \in 0 .. n /\ k + 1 \in 0 .. n /\ k < n /\ k + 1 \in D
  BY <1>2
<1> HIDE DEF c, n, D
<1>13. \A k \in 0 .. n : c[k] \in T
  BY <1>10, <1>11
<1>14. \A k \in 0 .. n - 1 : c[k + 1] = Fill(c[k], hours[k + 1])
  <2> SUFFICES ASSUME NEW k \in 0 .. n - 1 PROVE c[k + 1] = Fill(c[k], hours[k + 1])
    OBVIOUS
  <2>1. c[k + 1] = F[<<c[k], k + 1>>]
    BY <1>10, <1>11, <1>12
  <2>2. c[k] \in T /\ k + 1 \in D
    BY <1>12, <1>13
  <2> QED
    BY <1>5, <2>1, <2>2
<1>15. FilledOver(hours) = c[n] /\ c[0] = base
  BY <1>1, <1>2, <1>8, <1>11, <1>12
<1> QED
  BY <1>13, <1>14, <1>15 DEF n, T, base

-----------------------------------------------------------------------------
\* The drawdown.
LEMMA LargerOf ==
  ASSUME NEW a \in Int, NEW b \in Int
  PROVE  LET m == Max({a, b}) IN m \in Int /\ m >= a /\ m >= b /\ (m = a \/ m = b)
<1>1. a <= b \/ b <= a
  OBVIOUS
<1> QED
  BY <1>1, OfTwo

LEMMA MaxIs ==
  ASSUME NEW S \in SUBSET Int, NEW m \in S, \A x \in S : x <= m
  PROVE  Max(S) = m
<1> DEFINE P(x) == \A y \in S : x >= y
<1>1. P(m)
  OBVIOUS
<1>2. \A x \in S : P(x) => x = m
  <2> SUFFICES ASSUME NEW x \in S, P(x) PROVE x = m
    OBVIOUS
  <2>1. x \in Int /\ m \in Int /\ x >= m /\ x <= m
    OBVIOUS
  <2> QED
    BY <2>1
<1>3. Max(S) = CHOOSE x \in S : P(x)
  BY DEF Max
<1> HIDE DEF P
<1> QED
  BY <1>1, <1>2, <1>3

\* What the loop holds of the carries so far: the last, the highest, the worst fall.
IsTop(p, cum) == (\E j \in DOMAIN cum : p = cum[j]) /\ \A j \in DOMAIN cum : cum[j] <= p
IsWorst(w, cum) == /\ \E i \in DOMAIN cum : \E j \in 1 .. i : w = cum[j] - cum[i]
                   /\ \A i \in DOMAIN cum : \A j \in 1 .. i : cum[j] - cum[i] <= w
Falls(acc, cum) == acc.cum = Last(cum) /\ IsTop(acc.peak, cum) /\ IsWorst(acc.max_dd, cum)

LEMMA FallKeeps ==
  ASSUME NEW acc \in [cum : Int, peak : Int, max_dd : Int], NEW cum \in Seq(Int) \ {<<>>}, NEW x \in Int,
         Falls(acc, cum)
  PROVE  Falls(Fall(acc, x), Grow(cum, x))
<1> DEFINE n == Len(cum)
           y == acc.cum + x
           p == Max({acc.peak, y})
           w == Max({acc.max_dd, p - y})
           G == Append(cum, y)
<1>1. /\ acc.cum \in Int /\ acc.peak \in Int /\ acc.max_dd \in Int /\ y \in Int
      /\ n \in Nat /\ n >= 1 /\ DOMAIN cum = 1 .. n /\ \A i \in 1 .. n : cum[i] \in Int
  OBVIOUS
<1>2. Fall(acc, x) = [cum |-> y, peak |-> p, max_dd |-> w] /\ Grow(cum, x) = G
  BY DEF Fall, Grow, Falls
<1>3. DOMAIN G = 1 .. (n + 1) /\ Len(G) = n + 1 /\ G[n + 1] = y /\ \A i \in 1 .. n : G[i] = cum[i]
  BY <1>1
<1>4. IsTop(acc.peak, cum) /\ IsWorst(acc.max_dd, cum)
  BY DEF Falls
<1> HIDE DEF G, y, n
<1>5. p \in Int /\ p >= acc.peak /\ p >= y /\ (p = acc.peak \/ p = y)
  BY <1>1, LargerOf
<1> HIDE DEF p
<1>6. p - y \in Int
  BY <1>1, <1>5
<1>7. w \in Int /\ w >= acc.max_dd /\ w >= p - y /\ (w = acc.max_dd \/ w = p - y)
  <2> DEFINE z == p - y
  <2>1. z \in Int
    BY <1>6
  <2> HIDE DEF z
  <2>2. Max({acc.max_dd, z}) \in Int /\ Max({acc.max_dd, z}) >= acc.max_dd /\ Max({acc.max_dd, z}) >= z
        /\ (Max({acc.max_dd, z}) = acc.max_dd \/ Max({acc.max_dd, z}) = z)
    BY <1>1, <2>1, LargerOf
  <2> QED
    BY <2>2 DEF z
<1> HIDE DEF w
<1>8. IsTop(p, G)
  <2>1. PICK j \in 1 .. n : acc.peak = cum[j]
    BY <1>1, <1>4 DEF IsTop
  <2>2. j \in 1 .. (n + 1) /\ n + 1 \in 1 .. (n + 1) /\ G[j] = acc.peak
    BY <1>1, <1>3, <2>1
  <2>3. \E k \in DOMAIN G : p = G[k]
    BY <1>3, <1>5, <2>2
  <2>4. ASSUME NEW k \in 1 .. (n + 1) PROVE G[k] <= p
    <3>1. CASE k \in 1 .. n
      <4>1. cum[k] <= acc.peak /\ G[k] = cum[k] /\ cum[k] \in Int
        BY <1>1, <1>3, <1>4, <3>1 DEF IsTop
      <4> QED
        BY <1>1, <1>5, <4>1
    <3>2. CASE k = n + 1
      BY <1>1, <1>3, <1>5, <3>2
    <3>3. k \in 1 .. n \/ k = n + 1
      BY <1>1
    <3> QED
      BY <3>1, <3>2, <3>3
  <2> QED
    BY <1>3, <2>3, <2>4 DEF IsTop
<1>9. IsWorst(w, G)
  <2>1. \E i \in DOMAIN G : \E j \in 1 .. i : w = G[j] - G[i]
    <3>1. CASE w = acc.max_dd
      <4>1. PICK i \in 1 .. n : \E j \in 1 .. i : acc.max_dd = cum[j] - cum[i]
        BY <1>1, <1>4 DEF IsWorst
      <4> PICK j \in 1 .. i : acc.max_dd = cum[j] - cum[i]
        BY <4>1
      <4>2. j \in 1 .. n /\ i \in 1 .. (n + 1)
        BY <1>1
      <4>3. w = G[j] - G[i]
        BY <1>3, <3>1, <4>2
      <4> QED
        BY <1>3, <4>1, <4>2, <4>3
    <3>2. CASE w = p - y
      <4>1. PICK j \in 1 .. (n + 1) : p = G[j]
        BY <1>3, <1>8 DEF IsTop
      <4>2. n + 1 \in 1 .. (n + 1)
        BY <1>1
      <4>3. w = G[j] - G[n + 1]
        BY <1>3, <3>2, <4>1
      <4> QED
        BY <1>3, <4>1, <4>2, <4>3
    <3> QED
      BY <1>7, <3>1, <3>2
  <2>2. ASSUME NEW i \in 1 .. (n + 1), NEW j \in 1 .. i PROVE G[j] - G[i] <= w
    <3>1. CASE i \in 1 .. n
      <4> DEFINE w0 == acc.max_dd
      <4>5. IsWorst(w0, cum)
        BY <1>4
      <4> HIDE DEF w0
      <4>6. cum[j] - cum[i] <= w0
        BY <1>1, <3>1, <4>5 DEF IsWorst
      <4>1. j \in 1 .. n /\ cum[j] - cum[i] <= acc.max_dd /\ cum[j] \in Int /\ cum[i] \in Int
        BY <1>1, <3>1, <4>6 DEF w0
      <4>2. G[j] = cum[j] /\ G[i] = cum[i]
        BY <1>3, <3>1, <4>1
      <4> QED
        BY <1>1, <1>7, <4>1, <4>2
    <3>2. CASE i = n + 1
      <4>1. j \in 1 .. (n + 1)
        BY <1>1, <3>2
      <4>2. G[j] <= p /\ G[i] = y
        BY <1>3, <1>8, <3>2, <4>1 DEF IsTop
      <4>3. G[j] \in Int
        <5>1. CASE j \in 1 .. n
          BY <1>1, <1>3, <5>1
        <5>2. CASE j = n + 1
          BY <1>1, <1>3, <5>2
        <5>3. j \in 1 .. n \/ j = n + 1
          BY <1>1, <4>1
        <5> QED
          BY <5>1, <5>2, <5>3
      <4> QED
        BY <1>1, <1>5, <1>7, <4>2, <4>3
    <3>3. i \in 1 .. n \/ i = n + 1
      BY <1>1
    <3> QED
      BY <3>1, <3>2, <3>3
  <2> QED
    BY <1>3, <2>1, <2>2 DEF IsWorst
<1>10. Last(G) = y
  BY <1>3 DEF Last
<1> QED
  BY <1>2, <1>8, <1>9, <1>10 DEF Falls

LEMMA WorstFall ==
  ASSUME NEW hours \in Seq(Int), \A i \in DOMAIN hours : d(hours[i]) \in Int
  PROVE  Falls(Cumulate(hours), Carries(hours)) /\ Carries(hours) \in Seq(Int) \ {<<>>}
<1> DEFINE n == Len(hours)
<1>1. PICK c : /\ Cumulate(hours) = c[n] /\ c[0] = [cum |-> 0, peak |-> 0, max_dd |-> 0]
               /\ \A k \in 0 .. n - 1 : c[k + 1] = Fall(c[k], d(hours[k + 1]))
               /\ \A k \in 0 .. n : c[k] \in [cum : Int, peak : Int, max_dd : Int]
  BY CumulateSteps
<1>2. PICK g : /\ Carries(hours) = g[n] /\ g[0] = <<0>>
               /\ \A k \in 0 .. n - 1 : g[k + 1] = Grow(g[k], d(hours[k + 1]))
               /\ \A k \in 0 .. n : g[k] \in Seq(Int) \ {<<>>}
  BY PrefixSteps
<1>3. n \in Nat /\ DOMAIN hours = 1 .. n
  OBVIOUS
<1> DEFINE Good == {k \in 0 .. n : Falls(c[k], g[k])}
<1>4. 0 \in Good
  <2> DEFINE z == <<0>>
  <2>1. DOMAIN z = 1 .. 1 /\ z[1] = 0 /\ Len(z) = 1
    OBVIOUS
  <2>2. c[0].cum = 0 /\ c[0].peak = 0 /\ c[0].max_dd = 0 /\ g[0] = z
    BY <1>1, <1>2
  <2> HIDE DEF z
  <2>3. Last(z) = 0
    BY <2>1 DEF Last
  <2>4. IsTop(0, z)
    BY <2>1 DEF IsTop
  <2>5. IsWorst(0, z)
    BY <2>1 DEF IsWorst
  <2>6. Falls(c[0], g[0])
    BY <2>2, <2>3, <2>4, <2>5 DEF Falls
  <2> QED
    BY <1>3, <2>6
<1>5. \A k \in 0 .. n - 1 : k \in Good => k + 1 \in Good
  <2> SUFFICES ASSUME NEW k \in 0 .. n - 1, k \in Good PROVE k + 1 \in Good
    OBVIOUS
  <2>1. k \in 0 .. n /\ k + 1 \in 0 .. n /\ k + 1 \in 1 .. n
    BY <1>3
  <2>2. d(hours[k + 1]) \in Int
    BY <1>3, <2>1
  <2>3. Falls(Fall(c[k], d(hours[k + 1])), Grow(g[k], d(hours[k + 1])))
    <3> DEFINE x == d(hours[k + 1])
               a == c[k]
               b == g[k]
    <3>1. a \in [cum : Int, peak : Int, max_dd : Int] /\ b \in Seq(Int) \ {<<>>} /\ x \in Int /\ Falls(a, b)
      BY <1>1, <1>2, <2>1, <2>2
    <3> HIDE DEF x, a, b
    <3>2. Falls(Fall(a, x), Grow(b, x))
      BY <3>1, FallKeeps
    <3> QED
      BY <3>2 DEF x, a, b
  <2>4. Falls(c[k + 1], g[k + 1])
    BY <1>1, <1>2, <2>3
  <2> QED
    BY <2>1, <2>4
<1>6. 0 .. n \subseteq Good
  <2> HIDE DEF Good, n
  <2> QED
    BY <1>3, <1>4, <1>5, UpToInduction
<1>7. n \in Good /\ n \in 0 .. n
  BY <1>3, <1>6
<1> QED
  BY <1>1, <1>2, <1>7

LEMMA DrawdownOf ==
  ASSUME NEW hours \in Seq(Int), \A i \in DOMAIN hours : d(hours[i]) \in Int
  PROVE  LET cum == Carries(hours)
         IN  Cumulate(hours).max_dd = Max(UNION {{cum[j] - cum[i] : j \in 1 .. i} : i \in DOMAIN cum})
<1> DEFINE cum == Carries(hours)
           w == Cumulate(hours).max_dd
           S == UNION {{cum[j] - cum[i] : j \in 1 .. i} : i \in DOMAIN cum}
<1>1. cum \in Seq(Int) /\ IsWorst(w, cum)
  BY WorstFall DEF Falls
<1> HIDE DEF cum, w
<1>2. DOMAIN cum = 1 .. Len(cum) /\ Len(cum) \in Nat /\ \A i \in 1 .. Len(cum) : cum[i] \in Int
  BY <1>1
<1>3. \A i \in DOMAIN cum : \A j \in 1 .. i : j \in DOMAIN cum /\ cum[j] - cum[i] \in Int /\ cum[j] - cum[i] <= w
  <2> SUFFICES ASSUME NEW i \in 1 .. Len(cum), NEW j \in 1 .. i
               PROVE  j \in 1 .. Len(cum) /\ cum[j] - cum[i] \in Int /\ cum[j] - cum[i] <= w
    BY <1>2
  <2>1. j \in 1 .. Len(cum)
    BY <1>2
  <2>2. cum[j] - cum[i] <= w
    BY <1>1, <1>2 DEF IsWorst
  <2> QED
    BY <1>2, <2>1, <2>2
<1>4. S \in SUBSET Int
  BY <1>3
<1>5. w \in S
  BY <1>1 DEF IsWorst
<1>6. \A x \in S : x <= w
  BY <1>3
<1> HIDE DEF S
<1>7. Max(S) = w
  BY <1>4, <1>5, <1>6, MaxIs
<1> QED
  BY <1>7 DEF S, cum, w

-----------------------------------------------------------------------------
\* The episodes.
Starts(vals, m) == {i \in Positive(vals) : i <= m /\ i - 1 \notin Positive(vals)}
WithLast(e) == IF e.cur # <<>> THEN Append(e.eps, e.cur) ELSE e.eps

\* A run that has ended stays as it is.
LEMMA RunEnds ==
  ASSUME NEW vals, NEW pos \in SUBSET Int, NEW m \in Int, NEW i \in Int, NEW e \in i .. (m + 1), e \notin pos
  PROVE  Run(vals, pos, i, m + 1) = Run(vals, pos, i, m)
<1> DEFINE U == {j \in i .. (m + 1) : i .. j \subseteq pos}
           V == {j \in i .. m : i .. j \subseteq pos}
<1>1. ASSUME NEW j \in U PROVE j \in V
  <2>1. e \notin i .. j
    OBVIOUS
  <2>2. j \in i .. m
    BY <2>1
  <2> QED
    BY <2>2
<1>2. V \subseteq U
  OBVIOUS
<1>3. U = V
  <2> HIDE DEF U, V
  <2> QED
    BY <1>1, <1>2
<1>4. Run(vals, pos, i, m + 1) = SubSeq(vals, i, Max(U)) /\ Run(vals, pos, i, m) = SubSeq(vals, i, Max(V))
  BY DEF Run
<1> HIDE DEF U, V
<1> QED
  BY <1>3, <1>4

\* One that has not reaches the last day.
LEMMA RunOpen ==
  ASSUME NEW vals, NEW pos, NEW m \in Int, NEW i \in Int, i <= m, i .. m \subseteq pos
  PROVE  Run(vals, pos, i, m) = SubSeq(vals, i, m)
<1> DEFINE U == {j \in i .. m : i .. j \subseteq pos}
<1>1. U \in SUBSET Int /\ m \in U /\ \A x \in U : x <= m
  OBVIOUS
<1>2. Run(vals, pos, i, m) = SubSeq(vals, i, Max(U))
  BY DEF Run
<1> HIDE DEF U
<1>3. Max(U) = m
  BY <1>1, MaxIs
<1> QED
  BY <1>2, <1>3

\* The first days of the runs, in order.
LEMMA StartsAre ==
  ASSUME NEW vals \in Seq(Int), NEW m \in 0 .. Len(vals)
  PROVE  LET S == Starts(vals, m)
             A == Ascending(S)
             N == Cardinality(S)
         IN  /\ Positive(vals) \in SUBSET (1 .. Len(vals))
             /\ S \in SUBSET (1 .. m) /\ IsFiniteSet(S) /\ N \in Nat
             /\ DOMAIN A = 1 .. N /\ A \in Seq(S) /\ Len(A) = N
             /\ \A k \in 1 .. N : A[k] \in S
             /\ \A k, l \in 1 .. N : k < l => A[k] < A[l]
             /\ DOMAIN Runs(vals, m) = 1 .. N
             /\ \A k \in 1 .. N : Runs(vals, m)[k] = Run(vals, Positive(vals), A[k], m)
<1> DEFINE S == Starts(vals, m)
           A == Ascending(S)
           N == Cardinality(S)
<1>1. Positive(vals) \in SUBSET (1 .. Len(vals))
  BY DEF Positive
<1>2. S \in SUBSET (1 .. m)
  BY <1>1 DEF Starts
<1>3. IsFiniteSet(S) /\ S \in SUBSET Int
  <2>1. IsFiniteSet(1 .. m)
    BY FS_Interval
  <2>2. 1 .. m \subseteq Int
    OBVIOUS
  <2> HIDE DEF S
  <2> QED
    BY <1>2, <2>1, <2>2, FS_Subset
<1>4. Runs(vals, m) = [k \in DOMAIN A |-> Run(vals, Positive(vals), A[k], m)]
  BY DEF Runs, Starts
<1> HIDE DEF S
<1>5. /\ N \in Nat /\ DOMAIN A = 1 .. N /\ A \in Seq(S) /\ Len(A) = N
      /\ \A k \in 1 .. N : A[k] \in S /\ Rank(S, A[k]) = k - 1
  BY <1>3, AscendingIs
<1> HIDE DEF N, A
<1>6. ASSUME NEW k \in 1 .. N, NEW l \in 1 .. N, k < l PROVE A[k] < A[l]
  <2>1. Rank(S, A[k]) < Rank(S, A[l])
    BY <1>5, <1>6
  <2> QED
    BY <1>3, <1>5, <2>1, SameRank
<1>7. DOMAIN Runs(vals, m) = 1 .. N /\ \A k \in 1 .. N : Runs(vals, m)[k] = Run(vals, Positive(vals), A[k], m)
  BY <1>4, <1>5
<1> QED
  BY <1>1, <1>2, <1>3, <1>5, <1>6, <1>7 DEF S, A, N

\* What the loop holds after m days: the runs so far, the last of them open if the
\* day was positive.
Told(e, vals, m) ==
  LET A == Ascending(Starts(vals, m))
  IN  /\ WithLast(e) = Runs(vals, m)
      /\ e.cur # <<>> <=> m \in Positive(vals)
      /\ m \in Positive(vals) => Len(A) >= 1 /\ A[Len(A)] .. m \subseteq Positive(vals)

\* A day without carry: no run is open, and none begins.
LEMMA TurnQuiet ==
  ASSUME NEW vals \in Seq(Int), NEW m \in 0 .. Len(vals) - 1, m + 1 \notin Positive(vals),
         NEW e \in [eps : Seq(Seq(Int)), cur : Seq(Int)], Told(e, vals, m)
  PROVE  Told(Turn(e, vals[m + 1]), vals, m + 1)
<1> DEFINE pos == Positive(vals)
           f == Turn(e, vals[m + 1])
<1>1. m \in 0 .. Len(vals) /\ m + 1 \in 0 .. Len(vals) /\ m + 1 \in DOMAIN vals /\ m \in Int /\ m + 1 \in Int
  OBVIOUS
<1>2. ~(vals[m + 1] > 0)
  BY <1>1 DEF Positive
<1>3. f = IF e.cur # <<>> THEN [eps |-> Append(e.eps, e.cur), cur |-> <<>>] ELSE e
  BY <1>2 DEF Turn
<1>4. WithLast(f) = WithLast(e) /\ ~(f.cur # <<>>)
  BY <1>3 DEF WithLast
<1>5. Starts(vals, m + 1) = Starts(vals, m)
  <2>1. \A i \in pos : i \in Int /\ i # m + 1
    BY DEF Positive
  <2> QED
    BY <1>1, <2>1 DEF Starts
<1>6. Runs(vals, m + 1) = Runs(vals, m)
  <2> DEFINE S == Starts(vals, m)
             A == Ascending(S)
  <2>1. pos \in SUBSET (1 .. Len(vals)) /\ S \in SUBSET (1 .. m) /\ DOMAIN A = 1 .. Cardinality(S)
        /\ \A k \in 1 .. Cardinality(S) : A[k] \in S
    BY <1>1, StartsAre
  <2>2. Runs(vals, m) = [k \in DOMAIN A |-> Run(vals, pos, A[k], m)]
    BY DEF Runs, Starts
  <2>3. Runs(vals, m + 1) = [k \in DOMAIN A |-> Run(vals, pos, A[k], m + 1)]
    BY <1>5 DEF Runs, Starts
  <2>4. pos \in SUBSET Int /\ m + 1 \notin pos
    BY <2>1
  <2> HIDE DEF S, A, pos, f
  <2>5. \A k \in DOMAIN A : Run(vals, pos, A[k], m + 1) = Run(vals, pos, A[k], m)
    <3> SUFFICES ASSUME NEW k \in DOMAIN A PROVE Run(vals, pos, A[k], m + 1) = Run(vals, pos, A[k], m)
      OBVIOUS
    <3>1. A[k] \in 1 .. m
      BY <2>1
    <3>2. A[k] \in Int /\ m + 1 \in A[k] .. (m + 1)
      BY <1>1, <3>1
    <3> QED
      BY <1>1, <2>4, <3>2, RunEnds
  <2> QED
    BY <2>2, <2>3, <2>5
<1>7. WithLast(e) = Runs(vals, m)
  BY DEF Told
<1> HIDE DEF f
<1> QED
  BY <1>4, <1>6, <1>7 DEF Told, f

\* The first day of a run.
LEMMA TurnFirst ==
  ASSUME NEW vals \in Seq(Int), NEW m \in 0 .. Len(vals) - 1, m + 1 \in Positive(vals), m \notin Positive(vals),
         NEW e \in [eps : Seq(Seq(Int)), cur : Seq(Int)], Told(e, vals, m)
  PROVE  Told(Turn(e, vals[m + 1]), vals, m + 1)
<1> DEFINE pos == Positive(vals)
           v == vals[m + 1]
           f == Turn(e, v)
           S == Starts(vals, m)
           A == Ascending(S)
           N == Cardinality(S)
           B == Ascending(Starts(vals, m + 1))
           R == Runs(vals, m)
           Q == Runs(vals, m + 1)
<1>1. m \in 0 .. Len(vals) /\ m + 1 \in 0 .. Len(vals) /\ m + 1 \in DOMAIN vals /\ m \in Int /\ m + 1 \in Int /\ v \in Int
  OBVIOUS
<1>2. v > 0
  BY DEF Positive
<1>3. e.cur = <<>> /\ WithLast(e) = e.eps /\ e.eps = R
  BY DEF Told, WithLast
<1>4. f.cur = <<v>> /\ f.eps = e.eps
  <2>1. f = [e EXCEPT !.cur = Append(@, v)]
    BY <1>2 DEF Turn
  <2> QED
    BY <1>3, <2>1
<1>5. WithLast(f) = Append(R, <<v>>) /\ f.cur # <<>>
  BY <1>3, <1>4 DEF WithLast
<1>6. /\ pos \in SUBSET (1 .. Len(vals)) /\ S \in SUBSET (1 .. m) /\ IsFiniteSet(S) /\ N \in Nat
      /\ DOMAIN A = 1 .. N /\ A \in Seq(S) /\ Len(A) = N
      /\ (\A k \in 1 .. N : A[k] \in S)
      /\ DOMAIN R = 1 .. N
      /\ \A k \in 1 .. N : R[k] = Run(vals, pos, A[k], m)
  BY <1>1, StartsAre
<1>7. Starts(vals, m + 1) = S \cup {m + 1}
  <2>1. \A i \in pos : i \in Int /\ (i <= m + 1 <=> i <= m \/ i = m + 1)
    BY <1>1 DEF Positive
  <2>2. (m + 1) - 1 = m
    BY <1>1
  <2> QED
    BY <1>1, <2>1, <2>2 DEF Starts
<1>8. Q = [k \in DOMAIN B |-> Run(vals, pos, B[k], m + 1)]
  BY DEF Runs, Starts
<1>9. B = Append(A, m + 1)
  <2>1. S \in SUBSET Int /\ \A x \in S : x < m + 1
    BY <1>1, <1>6
  <2> HIDE DEF S
  <2> QED
    BY <1>1, <1>6, <1>7, <2>1, AscendingMore
<1> HIDE DEF pos, S, B, A, N
<1>10. DOMAIN B = 1 .. (N + 1) /\ Len(B) = N + 1 /\ B[N + 1] = m + 1 /\ \A k \in 1 .. N : B[k] = A[k]
  BY <1>6, <1>9
<1>11. Q[N + 1] = <<v>>
  <2> DEFINE y == m + 1
  <2>1. y \in Int /\ y <= y /\ y .. y \subseteq pos
    BY <1>1 DEF pos
  <2>2. Run(vals, pos, y, y) = SubSeq(vals, y, y)
    <3> HIDE DEF y
    <3> QED
      BY <2>1, RunOpen
  <2>3. SubSeq(vals, y, y) = <<v>>
    <3> DEFINE C == SubSeq(vals, y, y)
               w == <<v>>
    <3>1. C \in Seq(Int) /\ Len(C) = 1 /\ C[1] = v
      BY <1>1
    <3>2. w \in Seq(Int) /\ Len(w) = 1 /\ w[1] = v
      BY <1>1
    <3> HIDE DEF C, w
    <3>3. \A k \in 1 .. 1 : C[k] = w[k]
      BY <3>1, <3>2
    <3>4. C = w
      BY <3>1, <3>2, <3>3
    <3> QED
      BY <3>4 DEF C, w
  <2>4. N + 1 \in DOMAIN B
    BY <1>6, <1>10
  <2> QED
    BY <1>8, <1>10, <2>2, <2>3, <2>4
<1>12. \A k \in 1 .. N : Q[k] = R[k]
  <2> SUFFICES ASSUME NEW k \in 1 .. N PROVE Q[k] = R[k]
    OBVIOUS
  <2>1. A[k] \in 1 .. m /\ k \in DOMAIN B
    <3>1. A[k] \in S
      BY <1>6
    <3>2. k \in 1 .. (N + 1)
      BY <1>6
    <3> QED
      BY <1>6, <1>10, <3>1, <3>2
  <2>2. pos \in SUBSET Int /\ m \notin pos /\ A[k] \in Int /\ m \in A[k] .. (m + 1)
    BY <1>1, <1>6, <2>1 DEF pos
  <2>3. Run(vals, pos, A[k], m + 1) = Run(vals, pos, A[k], m)
    BY <1>1, <2>2, RunEnds
  <2> QED
    BY <1>6, <1>8, <1>10, <2>1, <2>3
<1>13. Append(R, <<v>>) = Q
  <2> DEFINE w == <<v>>
             C == Append(R, w)
  <2>1. R \in Seq(Seq(Int)) /\ Len(R) = N
    BY <1>3, <1>6
  <2>2. w \in Seq(Int)
    BY <1>1
  <2> HIDE DEF w, R, Q
  <2>3. C \in Seq(Seq(Int)) /\ Len(C) = N + 1 /\ C[N + 1] = w /\ \A k \in 1 .. N : C[k] = R[k]
    BY <1>6, <2>1, <2>2
  <2>4. \A k \in 1 .. (N + 1) : C[k] = Q[k]
    <3> SUFFICES ASSUME NEW k \in 1 .. (N + 1) PROVE C[k] = Q[k]
      OBVIOUS
    <3>1. k \in 1 .. N \/ k = N + 1
      BY <1>6
    <3> QED
      BY <1>11, <1>12, <2>3, <3>1 DEF w
  <2>5. DOMAIN Q = 1 .. (N + 1) /\ Q = [k \in DOMAIN Q |-> Q[k]]
    BY <1>8, <1>10
  <2> HIDE DEF C
  <2>6. DOMAIN C = 1 .. (N + 1) /\ C = [k \in DOMAIN C |-> C[k]]
    <3>1. DOMAIN C = 1 .. Len(C) /\ C = [k \in 1 .. Len(C) |-> C[k]]
      BY <2>3
    <3> QED
      BY <2>3, <3>1
  <2>7. C = Q
    BY <2>4, <2>5, <2>6
  <2> QED
    BY <2>7 DEF C, w
<1>14. Len(B) >= 1 /\ B[Len(B)] .. (m + 1) \subseteq pos
  <2>1. (m + 1) .. (m + 1) \subseteq pos
    BY <1>1 DEF pos
  <2> QED
    BY <1>6, <1>10, <2>1
<1> HIDE DEF f, Q, R
<1> QED
  BY <1>5, <1>13, <1>14 DEF Told, f, B, Q, pos

\* A further day of the open run.
LEMMA TurnOn ==
  ASSUME NEW vals \in Seq(Int), NEW m \in 0 .. Len(vals) - 1, m + 1 \in Positive(vals), m \in Positive(vals),
         NEW e \in [eps : Seq(Seq(Int)), cur : Seq(Int)], Told(e, vals, m)
  PROVE  Told(Turn(e, vals[m + 1]), vals, m + 1)
<1> DEFINE pos == Positive(vals)
           v == vals[m + 1]
           f == Turn(e, v)
           S == Starts(vals, m)
           A == Ascending(S)
           N == Cardinality(S)
           R == Runs(vals, m)
           Q == Runs(vals, m + 1)
           x == A[N]
           more == Append(e.cur, v)
<1>1. m \in 0 .. Len(vals) /\ m + 1 \in 0 .. Len(vals) /\ m + 1 \in DOMAIN vals /\ m \in Int /\ m + 1 \in Int /\ v \in Int
  OBVIOUS
<1>2. v > 0
  BY DEF Positive
<1>3. /\ pos \in SUBSET (1 .. Len(vals)) /\ S \in SUBSET (1 .. m) /\ IsFiniteSet(S) /\ N \in Nat
      /\ DOMAIN A = 1 .. N /\ A \in Seq(S) /\ Len(A) = N
      /\ (\A k \in 1 .. N : A[k] \in S)
      /\ (\A k, l \in 1 .. N : k < l => A[k] < A[l])
      /\ DOMAIN R = 1 .. N
      /\ \A k \in 1 .. N : R[k] = Run(vals, pos, A[k], m)
  BY <1>1, StartsAre
<1>4. e.cur # <<>> /\ Append(e.eps, e.cur) = R /\ N >= 1 /\ x .. m \subseteq pos
  BY <1>3 DEF Told, WithLast
<1>5. f.cur = more /\ f.eps = e.eps
  <2>1. f = [e EXCEPT !.cur = Append(@, v)]
    BY <1>2 DEF Turn
  <2> QED
    BY <2>1
<1>6. more \in Seq(Int) /\ more # <<>> /\ e.eps \in Seq(Seq(Int)) /\ e.cur \in Seq(Int)
  <2>1. e.eps \in Seq(Seq(Int)) /\ e.cur \in Seq(Int)
    OBVIOUS
  <2>2. more \in Seq(Int) /\ Len(more) = Len(e.cur) + 1 /\ Len(e.cur) \in Nat
    BY <1>1, <2>1
  <2> HIDE DEF more
  <2>3. more # <<>>
    BY <2>2
  <2> QED
    BY <2>1, <2>2, <2>3
<1>7. WithLast(f) = Append(e.eps, more)
  BY <1>5, <1>6 DEF WithLast
<1>8. Starts(vals, m + 1) = S
  <2>1. \A i \in pos : i \in Int /\ (i <= m + 1 <=> i <= m \/ i = m + 1)
    BY <1>1 DEF Positive
  <2>2. (m + 1) - 1 \in pos
    BY <1>1
  <2> QED
    BY <1>1, <2>1, <2>2 DEF Starts
<1>9. Q = [k \in DOMAIN A |-> Run(vals, pos, A[k], m + 1)]
  BY <1>8 DEF Runs, Starts
<1> HIDE DEF more, f, pos, S, A, N, R, Q
<1>10. Len(e.eps) = N - 1 /\ R[N] = e.cur /\ \A k \in 1 .. (N - 1) : R[k] = e.eps[k]
  <2> DEFINE C == Append(e.eps, e.cur)
  <2>1. Len(C) = Len(e.eps) + 1 /\ DOMAIN C = 1 .. (Len(e.eps) + 1) /\ C[Len(e.eps) + 1] = e.cur
        /\ (\A k \in 1 .. Len(e.eps) : C[k] = e.eps[k]) /\ Len(e.eps) \in Nat
    BY <1>6
  <2> HIDE DEF C
  <2>2. C = R
    BY <1>4 DEF C
  <2>3. 1 .. (Len(e.eps) + 1) = 1 .. N
    BY <1>3, <2>1, <2>2
  <2>4. Len(e.eps) + 1 = N
    BY <1>3, <2>1, <2>3
  <2> QED
    BY <1>3, <2>1, <2>2, <2>4
<1>11. x \in 1 .. m /\ x \in pos /\ x - 1 \notin pos
  BY <1>3, <1>4 DEF S, Starts, pos
<1> HIDE DEF x
<1>12. x .. (m + 1) \subseteq pos /\ x \in Int /\ x <= m /\ x <= m + 1
  <2>1. m + 1 \in pos
    BY DEF pos
  <2>2. x .. (m + 1) = (x .. m) \cup {m + 1}
    BY <1>1, <1>11
  <2> QED
    BY <1>1, <1>4, <1>11, <2>1, <2>2
<1>13. Q[N] = more
  <2>1. Run(vals, pos, x, m) = SubSeq(vals, x, m)
    BY <1>1, <1>4, <1>12, RunOpen
  <2>2. Run(vals, pos, x, m + 1) = SubSeq(vals, x, m + 1)
    BY <1>1, <1>12, RunOpen
  <2>3. SubSeq(vals, x, m + 1) = Append(SubSeq(vals, x, m), v)
    BY <1>1, <1>11
  <2>4. N \in 1 .. N
    BY <1>3, <1>4
  <2>5. e.cur = SubSeq(vals, x, m)
    BY <1>3, <1>10, <2>1, <2>4 DEF x
  <2> QED
    BY <1>3, <1>9, <2>2, <2>3, <2>4, <2>5 DEF more, x
<1>14. \A k \in 1 .. (N - 1) : Q[k] = e.eps[k]
  <2> SUFFICES ASSUME NEW k \in 1 .. (N - 1) PROVE Q[k] = e.eps[k]
    OBVIOUS
  <2>1. k \in 1 .. N /\ N \in 1 .. N /\ k < N
    BY <1>3
  <2>2. A[k] < x /\ A[k] \in Int
    <3>1. A[k] < A[N]
      BY <1>3, <2>1
    <3>2. A[k] \in S /\ S \subseteq 1 .. m
      BY <1>3, <2>1
    <3>3. A[k] \in 1 .. m
      BY <3>2
    <3> QED
      BY <1>1, <3>1, <3>3 DEF x
  <2>3. pos \in SUBSET Int /\ x - 1 \in A[k] .. (m + 1)
    BY <1>1, <1>3, <1>11, <2>2
  <2>4. Run(vals, pos, A[k], m + 1) = Run(vals, pos, A[k], m)
    BY <1>1, <1>11, <2>2, <2>3, RunEnds
  <2> QED
    BY <1>3, <1>9, <1>10, <2>1, <2>4
<1>15. Append(e.eps, more) = Q
  <2> DEFINE C == Append(e.eps, more)
  <2>1. C \in Seq(Seq(Int)) /\ Len(C) = N /\ C[N] = more /\ \A k \in 1 .. (N - 1) : C[k] = e.eps[k]
    BY <1>3, <1>4, <1>6, <1>10
  <2>2. \A k \in 1 .. N : C[k] = Q[k]
    <3> SUFFICES ASSUME NEW k \in 1 .. N PROVE C[k] = Q[k]
      OBVIOUS
    <3>1. k \in 1 .. (N - 1) \/ k = N
      BY <1>3
    <3> QED
      BY <1>13, <1>14, <2>1, <3>1
  <2>3. DOMAIN Q = 1 .. N /\ Q = [k \in DOMAIN Q |-> Q[k]]
    BY <1>3, <1>9
  <2>4. DOMAIN C = 1 .. N /\ C = [k \in DOMAIN C |-> C[k]]
    BY <2>1
  <2> HIDE DEF C
  <2>5. C = Q
    BY <2>2, <2>3, <2>4
  <2> QED
    BY <2>5 DEF C
<1>16. f.cur # <<>> /\ m + 1 \in Positive(vals)
  BY <1>5, <1>6
<1>17. Len(A) >= 1 /\ A[Len(A)] .. (m + 1) \subseteq pos
  BY <1>3, <1>4, <1>12 DEF x
<1> QED
  BY <1>7, <1>8, <1>15, <1>16, <1>17 DEF Told, f, A, Q, pos

LEMMA EpisodesOf ==
  ASSUME NEW vals \in Seq(Int)
  PROVE  Episodes(vals) = Runs(vals, Len(vals))
<1> DEFINE n == Len(vals)
           T == [eps : Seq(Seq(Int)), cur : Seq(Int)]
<1>1. PICK c : /\ Turns(vals) = c[n]
               /\ c[0] = [eps |-> <<>>, cur |-> <<>>]
               /\ \A k \in 0 .. n - 1 : c[k + 1] = Turn(c[k], vals[k + 1])
               /\ \A k \in 0 .. n : c[k] \in T
  BY EpisodeSteps
<1>2. n \in Nat
  OBVIOUS
<1> DEFINE Good == {k \in 0 .. n : Told(c[k], vals, k)}
<1>3. 0 \in Good
  <2> DEFINE R == Runs(vals, 0)
             none == <<>>
  <2>1. 0 \in 0 .. Len(vals)
    BY <1>2
  <2>2. Positive(vals) \in SUBSET (1 .. Len(vals)) /\ Starts(vals, 0) \in SUBSET (1 .. 0)
        /\ DOMAIN R = 1 .. Cardinality(Starts(vals, 0))
    BY <2>1, StartsAre
  <2>3. 1 .. 0 = {} /\ 0 \notin Positive(vals)
    BY <2>2
  <2>4. Starts(vals, 0) = {}
    BY <2>2, <2>3
  <2>5. DOMAIN R = {}
    BY <2>2, <2>3, <2>4, FS_EmptySet
  <2>6. R = [k \in DOMAIN R |-> R[k]]
    BY DEF Runs
  <2>7. DOMAIN none = {} /\ none = [k \in DOMAIN none |-> none[k]]
    OBVIOUS
  <2> HIDE DEF R, none
  <2>8. R = none
    BY <2>5, <2>6, <2>7
  <2>9. WithLast(c[0]) = R /\ ~(c[0].cur # <<>>)
    BY <1>1, <2>8 DEF WithLast, none
  <2> QED
    BY <2>1, <2>3, <2>9 DEF Told, R
<1>4. \A k \in 0 .. n - 1 : k \in Good => k + 1 \in Good
  <2> SUFFICES ASSUME NEW k \in 0 .. n - 1, k \in Good PROVE k + 1 \in Good
    OBVIOUS
  <2>1. k \in 0 .. n /\ k + 1 \in 0 .. n /\ k \in 0 .. Len(vals) - 1
    BY <1>2
  <2>2. c[k] \in [eps : Seq(Seq(Int)), cur : Seq(Int)] /\ Told(c[k], vals, k)
    BY <1>1, <2>1
  <2>3. Told(Turn(c[k], vals[k + 1]), vals, k + 1)
    <3> HIDE DEF n
    <3>1. CASE k + 1 \notin Positive(vals)
      BY <2>1, <2>2, <3>1, TurnQuiet
    <3>2. CASE k + 1 \in Positive(vals) /\ k \notin Positive(vals)
      BY <2>1, <2>2, <3>2, TurnFirst
    <3>3. CASE k + 1 \in Positive(vals) /\ k \in Positive(vals)
      BY <2>1, <2>2, <3>3, TurnOn
    <3> QED
      BY <3>1, <3>2, <3>3
  <2>4. c[k + 1] = Turn(c[k], vals[k + 1])
    BY <1>1
  <2> QED
    BY <2>1, <2>3, <2>4
<1>5. 0 .. n \subseteq Good
  <2> HIDE DEF Good, n
  <2> QED
    BY <1>2, <1>3, <1>4, UpToInduction
<1>6. n \in Good
  BY <1>2, <1>5
<1>7. WithLast(Turns(vals)) = Runs(vals, n)
  BY <1>1, <1>6 DEF Told
<1>8. Episodes(vals) = WithLast(Turns(vals))
  BY DEF Episodes, WithLast, Turns
<1> QED
  BY <1>7, <1>8

-----------------------------------------------------------------------------
\* The forward fill.
Printed(f, h) == {k \in DOMAIN f : lo <= k /\ k <= h}
LastOf(f, h) == f[Max(Printed(f, h))]
Carried(f, other, h) == IF Printed(f, h) = {} THEN <<>> ELSE <<LastOf(f, h) * other>>
Both(h) == {x \in lo .. h : Printed(short, x) # {} /\ Printed(long, x) # {}}
SpreadAt(x) == LastOf(short, x) * iv_l - LastOf(long, x) * iv_s
SpreadTo(h) == [x \in Both(h) |-> SpreadAt(x)]

\* A leg that prints at an hour is carried at that rate, another at the one before.
LEMMA CarryOn ==
  ASSUME NEW f, IsHistory(f), NEW other \in Int, NEW h \in Int, lo \in Int, lo <= h
  PROVE  Carry(f, other, h, Carried(f, other, h - 1)) = Carried(f, other, h)
<1> DEFINE U == Printed(f, h)
<1>1. CASE h \in DOMAIN f
  <2>1. U \in SUBSET Int /\ h \in U /\ \A x \in U : x <= h
    BY <1>1 DEF IsHistory, Printed
  <2> HIDE DEF U
  <2>2. Max(U) = h
    BY <2>1, MaxIs
  <2>3. Carried(f, other, h) = <<f[h] * other>>
    BY <2>1, <2>2 DEF Carried, LastOf, U
  <2> QED
    BY <1>1, <2>3 DEF Carry
<1>2. CASE h \notin DOMAIN f
  <2>1. \A k \in DOMAIN f : k \in Int /\ k # h
    BY <1>2 DEF IsHistory
  <2>2. \A k \in DOMAIN f : k <= h <=> k <= h - 1
    BY <2>1
  <2>3. Printed(f, h) = Printed(f, h - 1)
    BY <2>2 DEF Printed
  <2> QED
    BY <1>2, <2>3 DEF Carry, Carried, LastOf
<1> QED
  BY <1>1, <1>2

\* What is printed is a rate.
LEMMA LastIsInt ==
  ASSUME NEW f, IsHistory(f), NEW h \in Int, Printed(f, h) # {}
  PROVE  LastOf(f, h) \in Int
<1> DEFINE U == Printed(f, h)
<1>1. U \in SUBSET DOMAIN f /\ DOMAIN f \subseteq Int /\ IsFiniteSet(DOMAIN f)
  BY DEF Printed, IsHistory
<1> HIDE DEF U
<1>2. IsFiniteSet(U) /\ U \subseteq Int /\ U # {}
  <2>1. U # {}
    BY DEF U
  <2> QED
    BY <1>1, <2>1, FS_Subset
<1>3. Max(U) \in DOMAIN f
  <2>1. Max(U) \in U
    BY <1>2, Extremes
  <2> QED
    BY <1>1, <2>1
<1> QED
  BY <1>3 DEF IsHistory, LastOf, U

\* What the loop holds once hour h is done.
FilledAt(e, h) == /\ e.cs = Carried(short, iv_l, h)
                /\ e.cl = Carried(long, iv_s, h)
                /\ e.spread = SpreadTo(h)

LEMMA FillKeeps ==
  ASSUME SpreadInv, lo \in Int, NEW h \in Int, lo <= h, NEW e, FilledAt(e, h - 1)
  PROVE  FilledAt(Fill(e, h), h)
<1> DEFINE cs == Carry(short, iv_l, h, e.cs)
           cl == Carry(long, iv_s, h, e.cl)
           spread == IF <<>> \in {cs, cl} THEN e.spread ELSE With(e.spread, h, cs[1] - cl[1])
           S == Printed(short, h)
           L == Printed(long, h)
<1>1. iv_s \in Int /\ iv_l \in Int /\ IsHistory(short) /\ IsHistory(long)
  BY LegIntervals DEF SpreadInv
<1>2. e.cs = Carried(short, iv_l, h - 1) /\ e.cl = Carried(long, iv_s, h - 1) /\ e.spread = SpreadTo(h - 1)
  BY DEF FilledAt
<1>3. Fill(e, h) = [cs |-> cs, cl |-> cl, spread |-> spread]
  BY DEF Fill
<1>4. cs = Carried(short, iv_l, h) /\ cl = Carried(long, iv_s, h)
  BY <1>1, <1>2, CarryOn
<1> HIDE DEF cs, cl
<1>5. cs = <<>> <=> S = {}
  BY <1>4 DEF Carried
<1>6. cl = <<>> <=> L = {}
  BY <1>4 DEF Carried
<1>7. lo .. h = (lo .. (h - 1)) \cup {h} /\ h \notin lo .. (h - 1)
  OBVIOUS
<1>8. spread = SpreadTo(h)
  <2>1. CASE S = {} \/ L = {}
    <3>1. Both(h) = Both(h - 1)
      BY <1>7, <2>1 DEF Both
    <3>2. <<>> \in {cs, cl}
      BY <1>5, <1>6, <2>1
    <3> QED
      BY <1>2, <3>1, <3>2 DEF SpreadTo
  <2>2. CASE S # {} /\ L # {}
    <3>1. Both(h) = Both(h - 1) \cup {h}
      BY <1>7, <2>2 DEF Both
    <3>2. ~(<<>> \in {cs, cl})
      BY <1>5, <1>6, <2>2
    <3>3. cs[1] = LastOf(short, h) * iv_l /\ cl[1] = LastOf(long, h) * iv_s
      BY <1>4, <2>2 DEF Carried
    <3>4. spread = With(SpreadTo(h - 1), h, SpreadAt(h))
      BY <1>2, <3>2, <3>3 DEF SpreadAt
    <3>5. DOMAIN SpreadTo(h - 1) = Both(h - 1) /\ h \notin Both(h - 1)
      BY <1>7 DEF SpreadTo, Both
    <3>6. \A x \in Both(h - 1) : SpreadTo(h - 1)[x] = SpreadAt(x)
      BY DEF SpreadTo
    <3> HIDE DEF spread
    <3>7. With(SpreadTo(h - 1), h, SpreadAt(h)) = [x \in Both(h) |-> SpreadAt(x)]
      BY <3>1, <3>5, <3>6 DEF With
    <3> QED
      BY <3>4, <3>7 DEF SpreadTo
  <2> QED
    BY <2>1, <2>2
<1> HIDE DEF spread
<1> QED
  BY <1>3, <1>4, <1>8 DEF FilledAt

LEMMA FillOf ==
  ASSUME SpreadInv, NEW l \in Int, NEW u \in Int, l < u, lo = l, hi = u
  PROVE  pair_metrics_ffill = SpreadTo(u)
<1> DEFINE n == u - l + 1
           hours == [i \in 1 .. n |-> l + i - 1]
<1>1. n \in Nat /\ hours \in Seq(Int) /\ Len(hours) = n /\ \A i \in 1 .. n : hours[i] = l + i - 1
  OBVIOUS
<1>2. pair_metrics_ffill = FilledOver(hours).spread
  BY DEF pair_metrics_ffill, FilledOver
<1> HIDE DEF hours, n
<1>3. PICK c : /\ FilledOver(hours) = c[n]
               /\ c[0] = [cs |-> <<>>, cl |-> <<>>, spread |-> <<>>]
               /\ \A k \in 0 .. n - 1 : c[k + 1] = Fill(c[k], hours[k + 1])
  BY <1>1, FillSteps
<1> DEFINE Good == {k \in 0 .. n : FilledAt(c[k], l + k - 1)}
<1>4. 0 \in Good
  <2> DEFINE h == l + 0 - 1
             S == SpreadTo(h)
             none == <<>>
  <2>1. h \in Int /\ h < l /\ l .. h = {}
    OBVIOUS
  <2> HIDE DEF h
  <2>2. \A f : IsHistory(f) => Printed(f, h) = {}
    BY <2>1 DEF Printed, IsHistory
  <2>3. Carried(short, iv_l, h) = <<>> /\ Carried(long, iv_s, h) = <<>>
    BY <2>2 DEF Carried, SpreadInv
  <2>4. Both(h) = {}
    BY <2>1 DEF Both
  <2>5. DOMAIN S = {} /\ S = [x \in DOMAIN S |-> S[x]] /\ DOMAIN none = {} /\ none = [x \in DOMAIN none |-> none[x]]
    BY <2>4 DEF SpreadTo
  <2> HIDE DEF S, none
  <2>6. S = none
    BY <2>5
  <2>7. FilledAt(c[0], h)
    BY <1>3, <2>3, <2>6 DEF FilledAt, S, none
  <2> QED
    BY <1>1, <2>7 DEF h
<1>5. \A k \in 0 .. n - 1 : k \in Good => k + 1 \in Good
  <2> SUFFICES ASSUME NEW k \in 0 .. n - 1, k \in Good PROVE k + 1 \in Good
    OBVIOUS
  <2> DEFINE h == l + k
  <2>1. k + 1 \in 0 .. n /\ k + 1 \in 1 .. n /\ h \in Int /\ l <= h /\ l + (k + 1) - 1 = h /\ l + k - 1 = h - 1
    BY <1>1
  <2>2. FilledAt(c[k], h - 1) /\ hours[k + 1] = h /\ lo \in Int /\ lo <= h
    BY <1>1, <2>1
  <2> HIDE DEF h
  <2>3. FilledAt(Fill(c[k], h), h)
    BY <2>1, <2>2, FillKeeps
  <2>4. FilledAt(c[k + 1], h)
    BY <1>3, <2>2, <2>3
  <2> QED
    BY <2>1, <2>4
<1>6. 0 .. n \subseteq Good
  <2> HIDE DEF Good
  <2> QED
    BY <1>1, <1>4, <1>5, UpToInduction
<1>7. FilledAt(c[n], l + n - 1) /\ l + n - 1 = u
  BY <1>1, <1>6 DEF n
<1> QED
  BY <1>2, <1>3, <1>7 DEF FilledAt

-----------------------------------------------------------------------------
\* The window both legs cover.
LEMMA BothCover ==
  ASSUME SpreadInv, Covered
  PROVE  /\ lo \in Int /\ hi \in Int
         /\ Union \in SUBSET Int /\ IsFiniteSet(Union)
<1> DEFINE S == DOMAIN short
           L == DOMAIN long
<1>1. /\ IsFiniteSet(S) /\ S \subseteq Int /\ S # {} /\ IsFiniteSet(L) /\ L \subseteq Int /\ L # {}
  BY DEF SpreadInv, IsHistory, Covered
<1> HIDE DEF S, L
<1>2. Min(S) \in Int /\ Max(S) \in Int /\ Min(L) \in Int /\ Max(L) \in Int
  BY <1>1, Extremes
<1>3. \A a, b \in Int : Max({a, b}) \in Int /\ Min({a, b}) \in Int
  BY OfTwo
<1>4. lo \in Int /\ hi \in Int
  BY <1>2, <1>3 DEF lo, hi, S, L
<1>5. IsFiniteSet(S \cup L) /\ Union \in SUBSET (S \cup L)
  BY <1>1, FS_Union DEF Union, S, L
<1>6. IsFiniteSet(Union) /\ Union \in SUBSET Int
  BY <1>1, <1>5, FS_Subset
<1> QED
  BY <1>4, <1>6

LEMMA HourIsInt ==
  ASSUME SpreadInv, NEW h
  PROVE  d(h) \in Int
<1>1. \A f : IsHistory(f) => At(f, h) \in Int
  BY DEF IsHistory, At
<1>2. At(short, h) \in Int /\ At(long, h) \in Int /\ iv_s \in Int /\ iv_l \in Int
  BY <1>1, LegIntervals DEF SpreadInv
<1> QED
  BY <1>2 DEF d

LEMMA DayIsInt ==
  ASSUME SpreadInv, Covered, NEW k
  PROVE  Daily(k) \in Int
<1> DEFINE S == {h \in Union : h \div DayLen = k}
           w == [h \in Union |-> d(h)]
           Eq(g) == g = [s \in SUBSET S |-> IF s = {} THEN 0
                           ELSE d(CHOOSE x \in s : TRUE) + g[s \ {CHOOSE x \in s : TRUE}]]
           it == CHOOSE g : Eq(g)
<1>1. Daily(k) = it[S]
  BY DEF Daily, MapThenSumSet, MapThenFoldSet
<1>2. S \in SUBSET Union /\ IsFiniteSet(S)
  BY BothCover, FS_Subset
<1>3. \A h \in S : w[h] = d(h) /\ w[h] \in Int
  BY HourIsInt
<1> HIDE DEF w, S
<1>4. \A g : Eq(g) <=> IsSum(g, w, S)
  <2>1. \A s \in SUBSET S : s # {} => w[Pick(s)] = d(CHOOSE x \in s : TRUE)
    BY <1>3, PickIsMember DEF Pick
  <2> QED
    BY <2>1 DEF IsSum, Pick
<1>5. IsSum(it, w, S)
  <2>1. \E g : Eq(g)
    <3>1. \E g : IsSum(g, w, S)
      BY <1>2, SumExists
    <3> HIDE DEF Eq
    <3> QED
      BY <1>4, <3>1
  <2> HIDE DEF Eq
  <2> QED
    BY <1>4, <2>1
<1> HIDE DEF it
<1>6. it[S] = Total(w, S)
  <2>1. S \in SUBSET S /\ Same(w, w, S)
    BY DEF Same
  <2> QED
    BY <1>2, <1>5, <2>1, TotalOf
<1> QED
  BY <1>1, <1>2, <1>3, <1>6, TotalType

LEMMA DaysInOrder ==
  ASSUME SpreadInv, Covered
  PROVE  dv \in Seq(Int)
<1> DEFINE S == {h \div DayLen : h \in Union}
<1>1. DayLen \in Nat \ {0}
  BY SpreadBounds
<1>2. Union \in SUBSET Int /\ IsFiniteSet(Union)
  BY BothCover
<1>3. S \in SUBSET Int
  BY <1>1, <1>2
<1>4. IsFiniteSet(S)
  <2> DEFINE f == [h \in Union |-> h \div DayLen]
  <2>1. f \in Surjection(Union, S)
    BY DEF Surjection
  <2> HIDE DEF f, S
  <2> QED
    BY <1>2, <2>1, FS_Surjection
<1> HIDE DEF S
<1>5. Days \in Seq(S)
  BY <1>3, <1>4, AscendingIs DEF Days, S
<1>6. Len(Days) \in Nat
  BY <1>5
<1> QED
  BY <1>6, DayIsInt DEF dv

-----------------------------------------------------------------------------
LEMMA SpreadStart == ASSUME SpreadInit PROVE SpreadInv
BY FS_EmptySet DEF SpreadInit, SpreadInv, IsHistory

LEMMA SpreadKept == ASSUME SpreadInv, [SpreadNext]_spreadVars PROVE SpreadInv'
<1>1. ASSUME NEW f, IsHistory(f), NEW r \in Rates PROVE IsHistory(With(f, hour, r))
  <2>1. r \in Int /\ hour \in Nat
    BY SpreadBounds DEF SpreadInv
  <2>2. DOMAIN With(f, hour, r) = DOMAIN f \cup {hour}
    BY DEF With
  <2>3. IsFiniteSet(DOMAIN f \cup {hour})
    BY <1>1, FS_AddElement DEF IsHistory
  <2>4. \A h \in DOMAIN f \cup {hour} : With(f, hour, r)[h] \in Int
    BY <1>1, <2>1 DEF With, IsHistory
  <2> QED
    BY <1>1, <2>1, <2>2, <2>3, <2>4 DEF IsHistory
<1>2. CASE HourPasses
  <2>1. hour' \in Nat
    BY <1>2 DEF HourPasses, SpreadInv
  <2>2. IsHistory(short') /\ IsHistory(long')
    BY <1>1, <1>2 DEF HourPasses, SpreadInv
  <2> QED
    BY <2>1, <2>2 DEF SpreadInv, IsHistory
<1>3. CASE UNCHANGED spreadVars
  BY <1>3 DEF spreadVars, SpreadInv, IsHistory
<1> QED
  BY <1>2, <1>3 DEF SpreadNext

THEOREM SpreadInvariant == SpreadSpec => []SpreadInv
<1>1. SpreadInit => SpreadInv
  BY SpreadStart
<1>2. SpreadInv /\ [SpreadNext]_spreadVars => SpreadInv'
  BY SpreadKept
<1> QED
  BY <1>1, <1>2, PTL DEF SpreadSpec

LEMMA HistoriesMean == ASSUME SpreadInv PROVE FiguresMeanWhatTheySay
<1>1. DrawdownIsWorstFall
  <2> SUFFICES ASSUME Measured PROVE DrawdownIsWorstFall
    BY DEF DrawdownIsWorstFall
  <2> DEFINE hours == Ascending(Union)
             cum == Carries(hours)
  <2>1. Union \in SUBSET Int /\ IsFiniteSet(Union)
    BY BothCover DEF Measured
  <2>2. hours \in Seq(Union)
    BY <2>1, AscendingIs
  <2>3. hours \in Seq(Int)
    <3> DEFINE U == Union
    <3>1. U \in SUBSET Int /\ hours \in Seq(U)
      BY <2>1, <2>2
    <3> HIDE DEF hours, U
    <3>2. Len(hours) \in Nat /\ hours = [i \in 1 .. Len(hours) |-> hours[i]]
          /\ \A i \in 1 .. Len(hours) : hours[i] \in U
      BY <3>1
    <3>3. \A i \in 1 .. Len(hours) : hours[i] \in Int
      BY <3>1, <3>2
    <3> QED
      BY <3>2, <3>3
  <2>4. \A i \in DOMAIN hours : d(hours[i]) \in Int
    BY HourIsInt
  <2>5. spread_metrics_v2.max_dd = Cumulate(hours).max_dd
    BY DEF spread_metrics_v2
  <2> HIDE DEF hours
  <2>6. Cumulate(hours).max_dd = Max(UNION {{cum[j] - cum[i] : j \in 1 .. i} : i \in DOMAIN cum})
    BY <2>3, <2>4, DrawdownOf
  <2> QED
    BY <2>5, <2>6 DEF DrawdownIsWorstFall, Carries, hours
<1>2. EpisodesArePositiveRuns
  <2> SUFFICES ASSUME Measured PROVE Episodes(dv) = Runs(dv, Len(dv))
    BY DEF EpisodesArePositiveRuns
  <2>1. dv \in Seq(Int)
    BY DaysInOrder DEF Measured
  <2> QED
    BY <2>1, EpisodesOf
<1>3. FfillIsLastPrint
  <2> SUFFICES ASSUME Covered, hi > lo
               PROVE  pair_metrics_ffill = SpreadTo(hi)
    BY DEF FfillIsLastPrint, SpreadTo, SpreadAt, LastOf, Both, Printed
  <2> DEFINE l == lo
             u == hi
  <2>1. l \in Int /\ u \in Int /\ l < u
    BY BothCover
  <2> HIDE DEF l, u
  <2>2. pair_metrics_ffill = SpreadTo(u)
    BY <2>1, FillOf DEF l, u
  <2> QED
    BY <2>2 DEF u
<1> QED
  BY <1>1, <1>2, <1>3 DEF FiguresMeanWhatTheySay

\* Whatever settlements are missing on either leg, and in whatever order its rows
\* come: the drawdown of the scans is the worst fall of the carry
\* (funding_history_scan.py:219), their episodes are the runs of positive days
\* (funding_history_scan_v2.py:174), and the forward fill books the rates last
\* printed (v3_scanner.py:71).
THEOREM FiguresMean == SpreadSpec => []FiguresMeanWhatTheySay
<1>1. SpreadInv => FiguresMeanWhatTheySay
  BY HistoriesMean
<1> QED
  BY <1>1, SpreadInvariant, PTL
=============================================================================
