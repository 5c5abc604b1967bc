------------------------------ MODULE RealSend ------------------------------
(***************************************************************************)
(* The way to a real order: the settings of a process (v3_settings.py), the  *)
(* signed REST client of a venue (v3_venue_adapters.py) and the intent log.  *)
(***************************************************************************)
EXTENDS Naturals, FiniteSets

CONSTANTS SendVenues, \* venues the operator tries
          MaxSends    \* bound: requests of one history

\* VENUE_SPECS: the signer family that is shipped, the ladder ceiling and
\* exec_ready.
Shipped == {"binance", "aster", "okx", "bybit", "mexc"}
ladder_max(v) ==
  CASE v \in {"binance", "aster", "okx", "bybit"} -> 4
    [] v \in {"hl", "dydx", "nado", "paradex"} -> 2
    [] v \in {"backpack", "edgex", "toobit", "weex", "vooi"} -> 0
    [] OTHER -> 1
exec_ready == Shipped

\* VENUE_FIELDS: how many secrets a venue needs; the aggregator has none there.
fields(v) ==
  CASE v \in {"dydx", "paradex", "edgex", "drift"} -> 1
    [] v \in {"okx", "bitget", "kucoin", "lighter", "blofin"} -> 3
    [] v = "vooi" -> 0
    [] OTHER -> 2

ASSUME SendBounds == MaxSends \in Nat

VARIABLES env,      \* the operator's .env: modes and filled secrets by venue
          settings, \* what get_settings caches for the process, {} before
          client,   \* the client in use, {} without one
          intents,  \* rows of the intent log
          sends     \* requests that left the process
sendVars == <<env, settings, client, intents, sends>>

Env == [mode : {"paper", "live", "other"}, dry : BOOLEAN, yes : BOOLEAN,
        filled : [SendVenues -> 0 .. 3]]

SendInit ==
  /\ env = [mode |-> "paper", dry |-> TRUE, yes |-> FALSE, filled |-> [v \in SendVenues |-> 0]]
  /\ settings = {} /\ client = {} /\ intents = <<0, 0>> /\ sends = {}

\* The operator edits the file while a process may be running.
EditEnv ==
  /\ \/ \E m \in {"paper", "live", "other"}, d, y \in BOOLEAN :
          env' = [env EXCEPT !.mode = m, !.dry = d, !.yes = y]
     \/ \E v \in SendVenues : \E k \in {0, fields(v) - 1, fields(v)} : env' = [env EXCEPT !.filled[v] = k]
  /\ UNCHANGED <<settings, client, intents, sends>>

\* The validators of EXEC_MODE and YES_REAL.
valid(e) == e.mode # "other" /\ (e.yes => e.mode = "live" /\ ~e.dry)

\* get_settings: once in a process; a file that does not validate raises.
get_settings ==
  /\ settings = {} /\ valid(env)
  /\ settings' = {env}
  /\ UNCHANGED <<env, client, intents, sends>>

Restart ==
  /\ settings' = {} /\ client' = {}
  /\ UNCHANGED <<env, intents, sends>>

\* SignedRestClient: a venue with a spec whose signer is shipped.
Construct(v, dry) ==
  /\ settings # {} /\ v \in Shipped
  /\ client' = {[venue |-> v, dry |-> dry]}
  /\ UNCHANGED <<env, settings, intents, sends>>

\* require_credentials: all the secrets of the venue; none or a part raises.
Credentialed(s, v) == fields(v) # 0 /\ s.filled[v] = fields(v)

\* Mutant: the ceiling of the ladder is not looked at.
Mutrequire_real(c, s) == c.dry \/ (~s.dry /\ s.yes)

\* _require_real: raises unless every gate is open; a dry client passes.
require_real(c, s) == c.dry \/ (~s.dry /\ s.yes /\ ladder_max(c.venue) >= 3)

\* request: signs (raises without the credentials), logs, asks the gates, and
\* only then sends.  The row says whether the client was a dry one.
Request(c, s) ==
  /\ Credentialed(s, c.venue)
  /\ intents' = [intents EXCEPT ![IF c.dry THEN 1 ELSE 2] = @ + 1]
  /\ sends' = IF require_real(c, s) /\ ~c.dry
              THEN sends \cup {[venue |-> c.venue, with |-> s, nr |-> Cardinality(sends) + 1]} ELSE sends
  /\ UNCHANGED <<env, settings, client>>

SendNext ==
  \/ EditEnv \/ get_settings \/ Restart
  \/ \E v \in SendVenues, dry \in BOOLEAN : Construct(v, dry)
  \/ /\ intents[1] + intents[2] < MaxSends
     /\ \E c \in client, s \in settings : Request(c, s)
SendSpec == SendInit /\ [][SendNext]_sendVars
-----------------------------------------------------------------------------
\* Whatever the operator edited and however often processes were restarted, an
\* order left only from a process that had loaded live mode, no dry run and the
\* operator's flip, for an executable venue with all its secrets
\* (v3_venue_adapters.py:10).
RealSendNeedsAllGates ==
  \A x \in sends :
    /\ x.with.mode = "live" /\ ~x.with.dry /\ x.with.yes
    /\ x.venue \in exec_ready /\ ladder_max(x.venue) >= 3
    /\ x.with.filled[x.venue] = fields(x.venue)

=============================================================================
