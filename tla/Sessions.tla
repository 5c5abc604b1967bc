------------------------------ MODULE Sessions ------------------------------
(***************************************************************************)
(* Who holds which HTTP session.  The fetcher modules keep theirs in a      *)
(* module variable (depth_sampler and its siblings: ds; v3_connectors: vc). *)
(* vc.init adopts an open session of ds or makes one for both; vc.close     *)
(* closes it only if vc made it.  Every program puts these calls in another *)
(* order, and a tripwire chain in the middle does both.                     *)
(***************************************************************************)
EXTENDS Integers, FiniteSets, FiniteSetsExt

CONSTANTS Ids        \* bound: sessions alive at the same time, with spares

No == "none"

ASSUME SessionBounds == IsFiniteSet(Ids) /\ Ids # {} /\ No \notin Ids

VARIABLES program,   \* the program that runs: engine, desk, ledger or chain CLI
          at,        \* where it is: out, in (its session is open), chain
          own,       \* the session the program opened itself
          ds, vc,    \* the sessions of the two module variables
          owned,     \* v3_connectors' _owned_session
          open       \* sessions not yet closed

sessionVars == <<program, at, own, ds, vc, owned, open>>

Programs == {"engine", "desk", "ledger", "cli"}

SessionInit ==
  /\ program \in Programs /\ at = "out"
  /\ own = No /\ ds = No /\ vc = No /\ owned = FALSE /\ open = {}

Unused == Ids \ (open \cup {ds, vc, own})

\* The result of vc.init, with `held` in vc and `base` in ds: adopt, or make.
Adoptable(base) == base \in open
init(held, base) ==
  IF held # No
    THEN vc' = held /\ ds' = base /\ UNCHANGED <<owned, open>>
  ELSE IF Adoptable(base)
    THEN vc' = base /\ ds' = base /\ owned' = FALSE /\ UNCHANGED open
  ELSE \E s \in Unused : /\ vc' = s /\ ds' = s /\ owned' = TRUE
                         /\ open' = open \cup {s}

\* Mutant: the tick trusts what vc kept from the last one.
MutEnter ==
  /\ at = "out" /\ program # "cli"
  /\ \E s \in Unused :
       /\ own' = s
       /\ open' = open \cup {s}
       /\ ds' = s
       /\ IF vc # No \/ program = "ledger" THEN UNCHANGED <<vc, owned>>
                                          ELSE vc' = s /\ owned' = FALSE
  /\ at' = "in"
  /\ UNCHANGED program

\* `async with ClientSession` or its try/finally, and the assignments to the
\* modules.  The engine and the desk drop what vc kept and call vc.init; the
\* ledger leaves vc alone; the command line of the chain opens nothing.
Enter ==
  /\ at = "out" /\ program # "cli"
  /\ \E s \in Unused :
       /\ own' = s
       /\ open' = open \cup {s}
       /\ ds' = s
       /\ IF program = "ledger" THEN UNCHANGED <<vc, owned>>
                                ELSE vc' = s /\ owned' = FALSE
  /\ at' = "in"
  /\ UNCHANGED program

\* run_chain begins.
ChainBegins ==
  /\ at = IF program = "cli" THEN "out" ELSE "in"
  /\ program # "desk"
  /\ init(vc, ds)
  /\ at' = "chain"
  /\ UNCHANGED <<program, own>>

\* run_chain ends with vc.close.
ChainEnds ==
  /\ at = "chain"
  /\ open' = IF owned THEN open \ {vc} ELSE open
  /\ ds' = IF owned /\ ds = vc THEN No ELSE ds
  /\ vc' = No /\ owned' = FALSE
  /\ at' = IF program = "cli" THEN "out"
           ELSE IF program = "engine" THEN "readopt" ELSE "in"
  /\ UNCHANGED <<program, own>>

\* A commit of the chain's log fails: the exception leaves it before vc.close.
ChainFails ==
  /\ at = "chain" /\ program # "cli"
  /\ at' = IF program = "engine" THEN "readopt" ELSE "in"
  /\ UNCHANGED <<program, own, ds, vc, owned, open>>

\* The engine initialises the connectors again after every chain.
Readopt ==
  /\ at = "readopt"
  /\ init(vc, ds)
  /\ at' = "in"
  /\ UNCHANGED <<program, own>>

\* The session is closed; no module variable is reset.  The engine goes on to
\* its next tick; the other programs end, and the next one starts afresh.
Leave ==
  /\ at = "in"
  /\ open' = open \ {own}
  /\ own' = No
  /\ at' = "out"
  /\ IF program = "engine" THEN UNCHANGED <<ds, vc, owned>>
     ELSE ds' = No /\ vc' = No /\ owned' = FALSE
  /\ UNCHANGED program

SessionNext == Enter \/ ChainBegins \/ ChainEnds \/ ChainFails \/ Readopt \/ Leave
SessionSpec == SessionInit /\ [][SessionNext]_sessionVars

----------------------------------------------------------------------------
\* Wherever a program fetches, the session it fetches with is open: ds inside
\* its own block and in a chain, vc in a chain and, for the engine and the
\* desk, between chains too.
FetchesUseOpenSession ==
  /\ at \in {"in", "chain"} => ds \in open
  /\ at = "chain" \/ (at = "in" /\ program \in {"engine", "desk"}) => vc \in open

\* No session is left behind when a program is outside its block.
NoSessionLeaks == at = "out" => open = {}

\* Both: every fetch of every program has a session that is open, and the
\* handover that keeps it so (v3_connectors.py:635) leaves none behind.
SessionsAreHandedOver == FetchesUseOpenSession /\ NoSessionLeaks
=============================================================================
