------------------------------ MODULE RateLimit ------------------------------
(***************************************************************************)
(* createRateLimiter: one counter per key in a Map of the process, a fixed *)
(* window that starts at the key's first request, and a clean-up that runs *)
(* inside a request when the last one is old enough.  A limiter is mounted *)
(* before /api, before the administrator's routes and before the login.    *)
(***************************************************************************)
EXTENDS Integers, FiniteSets

CONSTANTS
    Keys,             \* ip:path:user
    WindowMs, MaxHits,
    CleanupIntervalMs,
    MaxKeys,
    MaxCount,         \* bound on a counter
    MaxClock          \* bound on the clock

ASSUME LimitAssumption ==
    /\ {WindowMs, MaxHits, MaxKeys, MaxCount, MaxClock} \subseteq Nat
    /\ CleanupIntervalMs \in Nat

StaleAfterMs == WindowMs * 2

VARIABLES
    hits,           \* the Map; a key may be absent
    lastCleanupAt,
    limitClock,
    since,          \* history: when each key's present window began
    passed,         \* history: requests of it let through
    turnedAway,     \* history: whether one of it was refused
    forgotten       \* history: keys dropped by the size bound during their window

limitVars == <<hits, lastCleanupAt, limitClock, since, passed, turnedAway, forgotten>>

NoEntry == [count |-> 0, resetAt |-> 0, lastSeenAt |-> 0, held |-> FALSE]
Entry == [count : Nat, resetAt : Nat, lastSeenAt : Nat, held : BOOLEAN]

LimitInit ==
    /\ hits = [k \in Keys |-> NoEntry]
    /\ lastCleanupAt = 0 /\ limitClock = 0
    /\ since = [k \in Keys |-> -1]
    /\ passed = [k \in Keys |-> 0]
    /\ turnedAway = [k \in Keys |-> FALSE]
    /\ forgotten = {}

LimitTick == limitClock < MaxClock /\ limitClock' = limitClock + 1
             /\ UNCHANGED <<hits, lastCleanupAt, since, passed, turnedAway, forgotten>>

StaleSoon(k) == hits[k].held /\ limitClock - hits[k].lastSeenAt > 0
Stale(k) == hits[k].held /\ limitClock - hits[k].lastSeenAt > StaleAfterMs

\* When the Map is too large the entries seen longest ago go; entries seen at
\* the same time go in the order of the Map, which is left open.
Excess(dropped) ==
    LET kept == {k \in Keys : hits[k].held /\ ~Stale(k)} IN
    /\ dropped \subseteq kept
    /\ IF MaxKeys > 0 /\ Cardinality(kept) > MaxKeys
       THEN /\ Cardinality(dropped) = Cardinality(kept) - MaxKeys
            /\ \A d \in dropped, k \in kept \ dropped : hits[d].lastSeenAt <= hits[k].lastSeenAt
       ELSE dropped = {}

CleanupDue == CleanupIntervalMs > 0 /\ limitClock - lastCleanupAt >= CleanupIntervalMs

\* The Map after the clean-up, if one is due: what Hit starts from.
Cleaned(dropped) ==
    [k \in Keys |-> IF CleanupDue /\ (Stale(k) \/ k \in dropped) THEN NoEntry ELSE hits[k]]

Opened == [NoEntry EXCEPT !.held = TRUE, !.resetAt = limitClock + WindowMs]

\* The counter of a request of k.
Renewed(e) ==
    IF ~e.held \/ limitClock > e.resetAt THEN Opened ELSE e

Counted(e) == [Renewed(e) EXCEPT !.lastSeenAt = limitClock, !.count = @ + 1]

Refuses(e) == e.count > MaxHits

\* The window of the promise: it starts with a request and lasts WindowMs.
StartsAnew(k) == since[k] = -1 \/ limitClock > since[k] + WindowMs

Hit(k) ==
    /\ hits[k].count < MaxCount
    /\ \E dropped \in SUBSET Keys :
        /\ IF CleanupDue THEN Excess(dropped) ELSE dropped = {}
        /\ LET map == Cleaned(dropped)
               entry == Counted(map[k])
           IN  /\ hits' = [map EXCEPT ![k] = entry]
               /\ passed' = [passed EXCEPT ![k] = (IF StartsAnew(k) THEN 0 ELSE @) + (IF Refuses(entry) THEN 0 ELSE 1)]
               /\ forgotten' = (forgotten \cup dropped) \ (IF StartsAnew(k) /\ entry.count = 1 THEN {k} ELSE {})
               /\ turnedAway' = [turnedAway EXCEPT ![k] = Refuses(entry)]
        /\ lastCleanupAt' = IF CleanupDue THEN limitClock ELSE lastCleanupAt
        /\ since' = [since EXCEPT ![k] = IF StartsAnew(k) THEN limitClock ELSE @]
    /\ UNCHANGED limitClock

LimitNext == LimitTick \/ \E k \in Keys : Hit(k)

LimitSpec == LimitInit /\ [][LimitNext]_limitVars

-----------------------------------------------------------------------------
\* The Map holds counters whose times lie around the present.
LimitTypeOK ==
    /\ hits \in [Keys -> Entry]
    /\ lastCleanupAt \in Nat /\ limitClock \in Nat
    /\ since \in [Keys -> Int] /\ passed \in [Keys -> Nat] /\ turnedAway \in [Keys -> BOOLEAN]
    /\ forgotten \subseteq Keys

\* In the window that a key's request opens, at most MaxHits of its requests
\* pass, whatever is cleaned up meanwhile: an entry is stale only when its
\* window is over (routes/admin-auth.js:8 "5 attempts per 15 minutes").  Only
\* a Map beyond its bound forgets a live window.
PassesWithinLimit == \A k \in Keys \ forgotten : passed[k] <= MaxHits

\* A request is refused only when MaxHits others of its window have passed: a
\* refused request counts, but does not prolong the window.
RefusedOnlyWhenFull == \A k \in Keys \ forgotten : turnedAway[k] => passed[k] >= MaxHits

(* In each window at most MaxHits requests of a key pass, and one is        *)
(* refused only when as many have passed, unless the map forgot the key     *)
(* while its window was open.                                               *)
LimitSafe ==
    /\ LimitTypeOK /\ PassesWithinLimit /\ RefusedOnlyWhenFull
=============================================================================
