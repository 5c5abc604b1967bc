------------------------------ MODULE FloorProps ------------------------------
(***************************************************************************)
(* Correctness properties of FloorWatch.                                   *)
(***************************************************************************)
EXTENDS FloorWatch

\* A change a prober has taken into the shared baseline, where no other
\* prober can meet it again, is in the event log by the time the probers are
\* done, unless one of them was killed: kill source 1 misses no change.
NoSilentChange ==
  pc = "idle" /\ m4 = "idle" /\ crashes = 0 => silent = {}

\* A recorded floor change halts entries within KILL_FRESH_S, for the rest
\* of the day, although every entry may rely on a file evaluated before it.
KillWithinTheHour ==
  [][~entered /\ entered' => ~(Fresh < event /\ event < Day)]_vars

\* From the hour a change was noted, nothing enters through the venue until
\* the freeze is over, whoever noted it and whatever format it wrote.
ChangeShutsVenue ==
  [][~entered /\ entered' /\ crashes = 0
       => \A v \in Candidate : ~(0 < noted[v] /\ noted[v] < Ttl)]_vars


=============================================================================
