----------------------------- MODULE UnwindProps -----------------------------
(***************************************************************************)
(* Correctness properties of UnwindLadder.                                 *)
(***************************************************************************)
EXTENDS UnwindLadder

\* Without a crash, what a leg has exited and what it has resting together
\* never exceed what it entered with: no path of the ladder, the maker
\* fills and the patience conversions can flip the leg.
ExitWithinEntry ==
  crashes = 0 => \A l \in Legs : exit[l] + order[l] <= Entry[l]

\* A closed position has really exited at least 98% of both legs in the
\* fill ledger, even if the engine died anywhere on the way.
ClosedIsFlat == status = "closed" => \A l \in Legs : exit[l] >= Close[l]

(***************************************************************************)
(* The inductive invariant behind ExitWithinEntry and ClosedIsFlat.        *)
(* InHand is about the lots between two commits, Booked about the ledger,  *)
(* which a crash may leave ahead of the flags but never behind them.       *)
(***************************************************************************)
Started ==
  /\ status = "open" => pc = "idle" /\ \A l \in Legs : order[l] = 0
  /\ mdone = done

Resting ==
  \A l \in Legs :
    /\ order[l] <= Remaining(l)
    /\ order[l] > 0 => Style(l) = "maker"

InHand ==
  /\ pc \in {"marked", "expired", "written", "sized"} => lots <= Remaining(leg)
  /\ pc \in {"marked", "expired", "written"} => order[leg] = 0

Booked ==
  \A l \in Legs :
    LET counted == mdone[l] + (IF pc = "written" /\ l = leg THEN lots ELSE 0)
    IN  /\ counted <= exit[l]
        /\ crashes = 0 => counted = exit[l]

UnwindInv == TypeOK /\ Started /\ Resting /\ InHand /\ Booked /\ ClosedIsFlat

\* Every started unwind ends, unless a crash comes, if the books show
\* quotes: thin books, resting makers and lost streaks only delay it.
UnwindCompletes ==
  (status = "unwinding" /\ crashes = 0) ~> (status = "closed" \/ crashes > 0)

\* A crash never strands exposure: whatever step it interrupts, the ladder
\* goes on until both legs are flat, even if the row is never closed.
ExposureIsUnwound ==
  status = "unwinding" ~> \A l \in Legs : exit[l] >= Close[l]
=============================================================================
