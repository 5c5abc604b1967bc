------------------------------ MODULE Discover ------------------------------
(***************************************************************************)
(* The daily discovery poll (v3_scanner.py): the arb table becomes today's    *)
(* candidates, coins never seen before and worth it become the watchlist      *)
(* file.  A poll may be repeated on the day, and may die between its commit    *)
(* and the file.                                                             *)
(***************************************************************************)
EXTENDS Naturals, FiniteSets

CONSTANTS FeedCoins, \* coins the arb table may have
          MaxDays, MaxPolls \* bounds

ASSUME DiscoverBounds == MaxDays \in Nat \ {0} /\ MaxPolls \in Nat

VARIABLES day, polls,
          feed,       \* today's arb table: coin -> does it pass the pre-filters
          candidates, \* stored rows [day, coin]
          watchlist,  \* the file: [day, coins]
          poll,       \* the coins a running poll found, {} when none runs
          first       \* by day, what its first completed poll wrote, for the property
discoverVars == <<day, polls, feed, candidates, watchlist, poll, first>>

Feeds == UNION {[s -> BOOLEAN] : s \in SUBSET FeedCoins}

DiscoverInit ==
  /\ day = 1 /\ polls = 0 /\ feed \in Feeds
  /\ candidates = {} /\ watchlist = [day |-> 0, coins |-> {}] /\ poll = {} /\ first = [d \in 1 .. MaxDays |-> {}]

\* _known_coins: those of any stored row.
_known_coins(stored) == {c.coin : c \in stored}

\* Mutant: the known coins are read before today's rows are deleted.
MutNewCoins == {c \in DOMAIN feed : feed[c] /\ c \notin _known_coins(candidates)}

\* Coins no earlier day has stored that pass the net and depth floors: today's
\* rows are deleted before the known coins are read.
NewCoins == {c \in DOMAIN feed : feed[c] /\ c \notin _known_coins({r \in candidates : r.day # day})}

\* The table is stored under today's stamp, in one commit.
StoreTable ==
  /\ poll = {} /\ polls < MaxPolls
  /\ poll' = {NewCoins} /\ polls' = polls + 1
  /\ candidates' = {r \in candidates : r.day # day} \cup {[day |-> day, coin |-> c] : c \in DOMAIN feed}
  /\ UNCHANGED <<day, feed, watchlist, first>>

\* The watchlist file is replaced.
WriteWatchlist ==
  /\ poll # {}
  /\ \E coins \in poll :
       /\ watchlist' = [day |-> day, coins |-> coins]
       /\ first' = IF first[day] = {} THEN [first EXCEPT ![day] = {coins}] ELSE first
  /\ poll' = {}
  /\ UNCHANGED <<day, polls, feed, candidates>>

PollDies == poll # {} /\ poll' = {} /\ UNCHANGED <<day, polls, feed, candidates, watchlist, first>>

\* The next day has another table.
NextDay ==
  /\ poll = {} /\ day < MaxDays
  /\ day' = day + 1 /\ feed' \in Feeds
  /\ UNCHANGED <<polls, candidates, watchlist, poll, first>>

DiscoverNext == StoreTable \/ WriteWatchlist \/ PollDies \/ NextDay
DiscoverSpec == DiscoverInit /\ [][DiscoverNext]_discoverVars
-----------------------------------------------------------------------------
\* A poll repeated on the day, after one that finished or one that died, writes
\* the same watchlist: its own rows do not make its coins known
\* (v3_scanner.py:337, "idempotent").
RepeatedPollAgrees ==
  watchlist.day # 0 => first[watchlist.day] = {watchlist.coins}
=============================================================================
