----------------------------- MODULE RateLimit ------------------------------
(***************************************************************************)
(* The rate limiter of the anonymous endpoints                             *)
(* (internal/http/middleware/ratelimit.go): a token bucket per client      *)
(* address in a map under a mutex, from which a call sweeps idle entries.  *)
(*                                                                         *)
(* A handler reads the clock before it has the mutex, so that requests may *)
(* overtake each other in between.  Time is counted in the units a bucket  *)
(* refills in: one per unit, a request costs Cost = time.Minute/perMinute  *)
(* of them and a full bucket holds Full = burst * Cost.                    *)
(***************************************************************************)
EXTENDS Integers

CONSTANTS
    Clients,     \* the addresses
    Requests,    \* the handlers that run at the same time
    NoClient,    \* what an idle handler serves
    Cost, Full,
    SweepEvery,  \* time.Minute
    IdleTTL,     \* idleTTL
    MaxDelay,    \* the longest a handler takes from its clock reading to the mutex
    MaxClock     \* bound: how long the run lasts

\* Ten minutes are more than a burst takes to refill (half a minute, at the rates
\* of the router), and more than a handler waits for a mutex held for one call.
ASSUME RateAssumption ==
    /\ Cost \in Nat /\ Full \in Nat /\ SweepEvery \in Nat
    /\ IdleTTL \in Nat /\ MaxDelay \in Nat /\ MaxClock \in Nat
    /\ NoClient \notin Clients
    /\ 0 < Cost /\ Cost <= Full
    /\ Full + 2 * MaxDelay <= IdleTTL

VARIABLES
    clock,
    from, now,              \* a handler's client, and the time it has read
    tracked,                \* the addresses in limiter.clients
    tokens, last,           \* rate.Limiter: the level of a bucket at its last use
    lastSeen, lastSweep,
    start,                  \* history: when the observation began, or NotYet
    granted,                \* history: what each client has been granted since
    skew                    \* history: how far its requests have overtaken each other

pending == <<from, now>>
limiter == <<tracked, tokens, last, lastSeen, lastSweep>>
history == <<start, granted, skew>>
rateVars == <<clock, pending, limiter, history>>

NotYet == -1
Ahead(t, u) == IF t > u THEN t - u ELSE 0

RateInit ==
    /\ clock = 0
    /\ from = [r \in Requests |-> NoClient] /\ now = [r \in Requests |-> 0]
    /\ tracked = {}
    /\ tokens = [c \in Clients |-> Full] /\ last = [c \in Clients |-> 0]
    /\ lastSeen = [c \in Clients |-> 0]
    /\ lastSweep = -(SweepEvery + 1)        \* the zero time: long ago
    /\ start = NotYet
    /\ granted = [c \in Clients |-> 0] /\ skew = [c \in Clients |-> 0]

\* time.Now() is evaluated before allow is entered.
Arrive(r, c) ==
    /\ from[r] = NoClient
    /\ from' = [from EXCEPT ![r] = c] /\ now' = [now EXCEPT ![r] = clock]
    /\ UNCHANGED <<clock, limiter, history>>

-----------------------------------------------------------------------------
SweepDue(t) == t - lastSweep > SweepEvery

\* Mutant of Kept: the comparison is the wrong way round.
KeptSwapped(t) == IF SweepDue(t) THEN {c \in tracked : t - lastSeen[c] > IdleTTL} ELSE tracked

\* The entries a call at t leaves in the map.
Kept(t) == IF SweepDue(t) THEN {c \in tracked : t - lastSeen[c] <= IdleTTL} ELSE tracked

\* rate.Limiter.advance: the level at t, and no refill for a time before its last
\* use; a new limiter is full.
Level(c, t) ==
    LET refilled == tokens[c] + Ahead(t, last[c])
    IN IF c \notin Kept(t) \/ refilled > Full THEN Full ELSE refilled

Overtaken(c, t) ==
    IF granted[c] = 0 THEN Ahead(start, t) ELSE IF c \in Kept(t) THEN Ahead(last[c], t) ELSE 0

\* Mutant of Tracks: a call notes the sweep and leaves the idle entries.
TracksAll(c, t) ==
    /\ tracked' = tracked \cup {c}
    /\ lastSweep' = IF SweepDue(t) THEN t ELSE lastSweep
    /\ lastSeen' = [lastSeen EXCEPT ![c] = t]

\* allow: the sweep, and the entry of the client.
Tracks(c, t) ==
    /\ tracked' = Kept(t) \cup {c}
    /\ lastSweep' = IF SweepDue(t) THEN t ELSE lastSweep
    /\ lastSeen' = [lastSeen EXCEPT ![c] = t]

Answer(r) == from' = [from EXCEPT ![r] = NoClient] /\ now' = [now EXCEPT ![r] = 0]

\* allow: AllowN takes a token.
Admit(r) ==
    /\ from[r] # NoClient
    /\ LET c == from[r]
           t == now[r]
       IN /\ Level(c, t) >= Cost
          /\ Tracks(c, t)
          /\ tokens' = [tokens EXCEPT ![c] = Level(c, t) - Cost]
          /\ last' = [last EXCEPT ![c] = t]
          /\ IF start = NotYet THEN UNCHANGED <<granted, skew>>
             ELSE /\ granted' = [granted EXCEPT ![c] = @ + Cost]
                  /\ skew' = [skew EXCEPT ![c] = @ + Overtaken(c, t)]
    /\ Answer(r)
    /\ UNCHANGED <<clock, start>>

\* allow: AllowN finds no token and leaves the bucket alone; the answer is 429.
Reject(r) ==
    /\ from[r] # NoClient
    /\ Level(from[r], now[r]) < Cost
    /\ Tracks(from[r], now[r])
    /\ Answer(r)
    /\ UNCHANGED <<clock, tokens, last, history>>

\* Time passes; no handler is kept from the mutex for longer than MaxDelay.
Tick ==
    /\ clock < MaxClock /\ clock' = clock + 1
    /\ \A r \in Requests : from[r] # NoClient => clock - now[r] < MaxDelay
    /\ UNCHANGED <<pending, limiter, history>>

\* Somebody begins to count.
Observe == start = NotYet /\ start' = clock /\ UNCHANGED <<clock, pending, limiter, granted, skew>>

RateNext ==
    \/ \E r \in Requests : (\E c \in Clients : Arrive(r, c)) \/ Admit(r) \/ Reject(r)
    \/ Tick \/ Observe

RateSpec == RateInit /\ [][RateNext]_rateVars

-----------------------------------------------------------------------------
(* "Allows each client address perMinute requests per minute, with bursts of up
   to burst": in any stretch of time a client is granted no more than a full
   bucket and what refills meanwhile, although idle entries are forgotten and
   begin again with a full bucket.  Requests that overtake each other between
   the clock and the mutex gain by as much as they do so. *)
RateIsKept == \A c \in Clients : granted[c] > 0 => granted[c] <= Full + (clock - start) + skew[c]

(* "Idle entries are swept lazily as requests arrive, so the map cannot grow
   without bound": when a call returns, whoever is in the map has called within
   the idle time and one sweep interval of it. *)
IdleAreForgotten ==
    [][\A r \in Requests : from[r] # NoClient /\ from'[r] = NoClient =>
         \A c \in tracked' : now[r] - lastSeen'[c] <= IdleTTL + SweepEvery]_rateVars

(* The rate as it is announced, whatever overtakes whatever. *)
RateIsStrict == \A c \in Clients : granted[c] > 0 => granted[c] <= Full + (clock - start)
=============================================================================
