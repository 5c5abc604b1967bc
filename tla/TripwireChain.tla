--------------------------- MODULE TripwireChain ---------------------------
(***************************************************************************)
(* run_chain of v3_tripwires.py: the six tripwires in order, one log row    *)
(* each, and the verdict an entry waits for.  Chains of several processes    *)
(* share the venue freezes and nothing else.  What a check measures is an   *)
(* outcome here; Tripwires has the measurements.                            *)
(***************************************************************************)
EXTENDS Integers, SequencesExt

CONSTANT Chains      \* the processes that run a chain

VARIABLES chain,     \* per process: running?, outcomes so far, stop flag
          verdict,   \* per process: the verdict of its latest finished chain
          basis,     \* history: the outcomes behind that verdict
          frozen     \* venues frozen by the floor monitor, none or all of a leg

chainVars == <<chain, verdict, basis, frozen>>

TW_NAMES == <<"identity", "persistence", "live_spread", "depth", "floor", "counterparty">>

\* ok, a check that says no, an exception; the floor monitor says no for a
\* parameter change or for an outage, and freezes for the former only.
Outcomes(name) == {"ok", "no", "error"} \cup IF name = "floor" THEN {"changed"} ELSE {}

NotRunning == [on |-> FALSE, seen |-> <<>>, aborted |-> FALSE]
Started    == [on |-> TRUE, seen |-> <<>>, aborted |-> FALSE]

ChainInit ==
  /\ chain = [c \in Chains |-> NotRunning]
  /\ verdict = [c \in Chains |-> "none"]
  /\ basis = [c \in Chains |-> <<>>]
  /\ frozen = FALSE

Begin(c) ==
  /\ ~chain[c].on
  /\ chain' = [chain EXCEPT ![c] = Started]
  /\ verdict' = [verdict EXCEPT ![c] = "none"]
  /\ basis' = [basis EXCEPT ![c] = <<>>]
  /\ UNCHANGED frozen

\* Identity is a hard stop when it was measured and failed; an exception in
\* the check is logged as a failure and the chain goes on.
Stops(name, outcome) == name = "identity" /\ outcome = "no"

\* The row of each outcome in tripwire_log.
Logged(outcome) ==
  CASE outcome = "ok" -> "pass" [] outcome = "skipped" -> "skip" [] OTHER -> "fail"
Rows(c) == [i \in DOMAIN chain[c].seen |-> Logged(chain[c].seen[i])]

Check(c) ==
  LET i == Len(chain[c].seen) + 1 IN
  /\ chain[c].on /\ i <= Len(TW_NAMES) /\ ~chain[c].aborted
  /\ \E o \in Outcomes(TW_NAMES[i]) :
       /\ chain' = [chain EXCEPT ![c].seen = Append(@, o),
                                 ![c].aborted = Stops(TW_NAMES[i], o)]
       /\ frozen' = (frozen \/ o = "changed")
  /\ UNCHANGED <<verdict, basis>>

Skip(c) ==
  /\ chain[c].on /\ Len(chain[c].seen) < Len(TW_NAMES) /\ chain[c].aborted
  /\ chain' = [chain EXCEPT ![c].seen = Append(@, "skipped")]
  /\ UNCHANGED <<verdict, basis, frozen>>

\* Mutant: only the last check decides.
MutVerdictOf(rows) ==
  IF rows[1] = "fail" THEN "FAIL_HARD" ELSE IF Last(rows) = "fail" THEN "FAIL" ELSE "PASS"

VerdictOf(rows) ==
  IF rows[1] = "fail" THEN "FAIL_HARD"
  ELSE IF "fail" \in ToSet(rows) THEN "FAIL" ELSE "PASS"

Conclude(c) ==
  /\ chain[c].on /\ Len(chain[c].seen) = Len(TW_NAMES)
  /\ verdict' = [verdict EXCEPT ![c] = VerdictOf(Rows(c))]
  /\ basis' = [basis EXCEPT ![c] = chain[c].seen]
  /\ chain' = [chain EXCEPT ![c] = NotRunning]
  /\ UNCHANGED frozen

\* A commit of a row fails: the exception ends the chain, and the caller takes
\* it as a verdict that is not PASS.
LogFails(c) ==
  /\ chain[c].on
  /\ chain' = [chain EXCEPT ![c] = NotRunning]
  /\ verdict' = [verdict EXCEPT ![c] = "ERR"]
  /\ basis' = [basis EXCEPT ![c] = <<>>]
  /\ UNCHANGED frozen

\* kv venue_freeze_*: the freeze is lifted by hand or by its age.
Thaw == frozen /\ frozen' = FALSE /\ UNCHANGED <<chain, verdict, basis>>

ChainNext ==
  \/ \E c \in Chains : Begin(c) \/ Check(c) \/ Skip(c) \/ Conclude(c) \/ LogFails(c)
  \/ Thaw
ChainSpec == ChainInit /\ [][ChainNext]_chainVars

----------------------------------------------------------------------------
\* An entry waits for PASS, and PASS means that all six checks of that very
\* chain were made and said yes, whatever failed, was skipped or ran beside it.
PassMeansAllSix ==
  \A c \in Chains : verdict[c] = "PASS" =>
    basis[c] = [i \in 1..Len(TW_NAMES) |-> "ok"]

=============================================================================
