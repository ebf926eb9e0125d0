-------------------------------- MODULE RateLimit --------------------------------
(***************************************************************************)
(* The gateway's rate limiter: fixed windows of one second in Redis, shared *)
(* by the replicas, and a token bucket in each replica's memory that takes  *)
(* over for the requests Redis fails on.                                    *)
(*                                                                          *)
(* Redis is external: INCR is atomic, a key without EXPIRE stays.  Time is  *)
(* a clock of seconds; a bucket (x/time/rate) gains Rps tokens per second   *)
(* up to its burst, here all at once when the second begins.                *)
(***************************************************************************)
EXTENDS Naturals
LOCAL INSTANCE Functions

CONSTANTS
  Replicas,     \* gateway processes
  Clients,      \* client IPs
  AuthRPS, AuthBurst, GeneralRPS, GeneralBurst,
  MaxTime,      \* bound: the clock stops here
  MaxAsked      \* bound: requests per second

VARIABLES
  now,       \* time.Now().Unix()
  counter,   \* gw:rl:zone:ip:second, the count; 0 when there is no key
  expiring,  \* keys whose EXPIRE took effect
  tokens,    \* tokens[r][q]: replica r's bucket of q, made on first use
  asked,     \* history: requests of q in this second
  shared,    \* history: requests of q Redis let pass in this second
  alone      \* history: requests of q replica r let pass by itself in this second

limiterVars == <<now, counter, expiring, tokens, asked, shared, alone>>

ASSUME RateAssumption ==
  /\ AuthRPS \in Nat \ {0} /\ GeneralRPS \in Nat \ {0}
  /\ AuthBurst \in Nat /\ GeneralBurst \in Nat
  /\ MaxTime \in Nat /\ MaxAsked \in Nat

Zones == {"auth", "general"}

\* What is limited: a client in a zone.
Quota == Zones \X Clients

Rps(q) == IF q[1] = "auth" THEN AuthRPS ELSE GeneralRPS

\* limitPerWindow and newPool: the burst, or else the rate.
limitPerWindow(q) ==
  LET burst == IF q[1] = "auth" THEN AuthBurst ELSE GeneralBurst
  IN IF burst > 0 THEN burst ELSE Rps(q)

\* The key of a request is that of its zone, client and second.
key_NoWindow(q) == <<q, 0>>
key(q) == <<q, now>>

Keys == Quota \X (0..MaxTime)

LimiterTypeOK ==
  /\ now \in 0..MaxTime
  /\ counter \in [Keys -> Nat]
  /\ expiring \subseteq {k \in Keys : counter[k] > 0}
  /\ tokens \in [Replicas -> [Quota -> Nat]]
  /\ \A r \in Replicas, q \in Quota : tokens[r][q] <= limitPerWindow(q)
  /\ asked \in [Quota -> Nat]
  /\ shared \in [Quota -> Nat]
  /\ alone \in [Replicas -> [Quota -> Nat]]

LimiterInit ==
  /\ now = 0
  /\ counter = [k \in Keys |-> 0]
  /\ expiring = {}
  /\ tokens = [r \in Replicas |-> [q \in Quota |-> limitPerWindow(q)]]
  /\ asked = [q \in Quota |-> 0]
  /\ shared = [q \in Quota |-> 0]
  /\ alone = [r \in Replicas |-> [q \in Quota |-> 0]]

--------------------------------------------------------------------------------

\* redisLimiter.allow: INCR, EXPIRE for the first of a window, its error ignored.
RedisAllow_OffByOne(q, ok) ==
  /\ counter' = [counter EXCEPT ![key(q)] = @ + 1]
  /\ \/ counter[key(q)] = 0 /\ expiring' = expiring \cup {key(q)}
     \/ UNCHANGED expiring
  /\ ok = (counter[key(q)] <= limitPerWindow(q))
  /\ shared' = IF ok THEN [shared EXCEPT ![q] = @ + 1] ELSE shared
  /\ UNCHANGED <<now, tokens, alone>>
RedisAllow(q, ok) ==
  /\ counter' = [counter EXCEPT ![key(q)] = @ + 1]
  /\ \/ counter[key(q)] = 0 /\ expiring' = expiring \cup {key(q)}
     \/ UNCHANGED expiring
  /\ ok = (counter'[key(q)] <= limitPerWindow(q))
  /\ shared' = IF ok THEN [shared EXCEPT ![q] = @ + 1] ELSE shared
  /\ UNCHANGED <<now, tokens, alone>>

\* Redis errs, its INCR perhaps done, or there is no Redis: memoryLimiter.Allow.
MemoryAllow(r, q, ok) ==
  /\ counter' \in {counter, [counter EXCEPT ![key(q)] = @ + 1]}
  /\ ok = (tokens[r][q] > 0)
  /\ tokens' = IF ok THEN [tokens EXCEPT ![r][q] = @ - 1] ELSE tokens
  /\ alone' = IF ok THEN [alone EXCEPT ![r][q] = @ + 1] ELSE alone
  /\ UNCHANGED <<now, expiring, shared>>

\* Limiter.Allow: whether replica r lets a request of q pass.
Allow(r, q, ok) ==
  /\ FoldFunction(+, 0, asked) < MaxAsked
  /\ asked' = [asked EXCEPT ![q] = @ + 1]
  /\ RedisAllow(q, ok) \/ MemoryAllow(r, q, ok)

\* A second passes: buckets gain, keys whose time (a period and a second) is over go.
Gained(r, q) ==
  IF tokens[r][q] + Rps(q) > limitPerWindow(q)
  THEN limitPerWindow(q) ELSE tokens[r][q] + Rps(q)

Tick ==
  LET over == {k \in expiring : k[2] + 1 <= now}
  IN /\ now < MaxTime
     /\ now' = now + 1
     /\ counter' = [k \in Keys |-> IF k \in over THEN 0 ELSE counter[k]]
     /\ expiring' = expiring \ over
     /\ tokens' = [r \in Replicas |-> [q \in Quota |-> Gained(r, q)]]
     /\ asked' = [q \in Quota |-> 0]
     /\ shared' = [q \in Quota |-> 0]
     /\ alone' = [r \in Replicas |-> [q \in Quota |-> 0]]

\* A replica is started again: its buckets are full.
RestartReplica(r) ==
  /\ tokens' = [tokens EXCEPT ![r] = [q \in Quota |-> limitPerWindow(q)]]
  /\ alone' = [alone EXCEPT ![r] = [q \in Quota |-> 0]]
  /\ UNCHANGED <<now, counter, expiring, asked, shared>>

--------------------------------------------------------------------------------
(***************************************************************************)
(* Properties.                                                             *)
(***************************************************************************)

\* However Redis fails and whatever replica a request meets, a client gets no more
\* than the limit of a second from Redis, for all replicas together, and no more than
\* the burst and the rate from each replica that stays up.
WithinLimit ==
  \A q \in Quota :
     /\ shared[q] <= limitPerWindow(q)
     /\ \A r \in Replicas : alone[r][q] <= limitPerWindow(q) + Rps(q)

\* What Redis counts against a client is what this client asked, in this zone and this
\* second: as long as Redis answers, one that has asked less than the limit has its
\* room, also when a key lost its EXPIRE and stays for ever, or when an INCR was made
\* for a request that a replica then decided by itself.  (A replica's own bucket is not
\* so generous: after a burst it gains the rate a second, and may refuse sooner.)
RoomLeft ==
  \A q \in Quota : counter[key(q)] <= asked[q]

================================================================================
