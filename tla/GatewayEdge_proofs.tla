--------------------------- MODULE GatewayEdge_proofs ---------------------------
(***************************************************************************)
(* Proofs about the rate limiter, for any number of replicas and clients   *)
(* and every rate and burst, and about the rules a request then meets.     *)
(*                                                                         *)
(* Both limits are kept by an account.  In Redis, what has passed in this  *)
(* second is at most the second's counter, and a counter that belongs to a *)
(* later second is still zero (Ahead).  In a replica, what has passed and  *)
(* what is left in the bucket are together at most the burst (Buckets).    *)
(*                                                                         *)
(* The rules are decided path by path: each path's tokens settle which     *)
(* prefixes match it, so whether it is anonymous, who serves it and        *)
(* whether the services ask for the internal token; Fits says when these   *)
(* agree.                                                                  *)
(***************************************************************************)
EXTENDS GatewayEdge, SequenceTheorems, TLAPS
LOCAL INSTANCE SequencesExt

\* Nobody has counted in a second that has not begun.
Ahead == \A k \in Keys : k[2] > now => counter[k] = 0

\* Redis let no more pass than it counted.
Counted == \A q \in Quota : shared[q] <= counter[key(q)] /\ shared[q] <= limitPerWindow(q)

\* What a bucket gave in this second it no longer has.
Buckets ==
  \A r \in Replicas, q \in Quota : alone[r][q] + tokens[r][q] <= limitPerWindow(q)

\* The inductive invariant.
Inv == TypeOK /\ Ahead /\ Counted /\ Buckets /\ RoomLeft

--------------------------------------------------------------------------------

\* A window admits something, and no less than a second's rate can be gained.
LEMMA LimitIsPositive ==
  ASSUME NEW q \in Quota
  PROVE  limitPerWindow(q) \in Nat \ {0} /\ Rps(q) \in Nat \ {0}
  BY RateAssumption DEF limitPerWindow, Rps

\* The key of this second is one of the keys.
LEMMA KeyIsKey ==
  ASSUME now \in 0..MaxTime, NEW q \in Quota
  PROVE  key(q) \in Keys /\ key(q)[2] = now
  BY DEF key, Keys

\* Every path is of one of the two zones.
LEMMA QuotaOfIsQuota ==
  ASSUME NEW c \in Clients, NEW path
  PROVE  QuotaOf(c, path) \in Quota
  BY DEF QuotaOf, Quota, Zones

--------------------------------------------------------------------------------
(***************************************************************************)
(* A request.                                                              *)
(***************************************************************************)

\* Counting a request in this second's key.
LEMMA Incremented ==
  ASSUME Inv, NEW q \in Quota, counter' = [counter EXCEPT ![key(q)] = @ + 1]
  PROVE  /\ counter' \in [Keys -> Nat]
         /\ counter'[key(q)] = counter[key(q)] + 1
         /\ \A p \in Quota : p # q => counter'[key(p)] = counter[key(p)]
         /\ \A k \in Keys : counter[k] <= counter'[k]
         /\ \A k \in Keys : k[2] > now => counter'[k] = 0
<1>1. now \in 0..MaxTime /\ counter \in [Keys -> Nat]
  BY DEF Inv, TypeOK, LimiterTypeOK
<1>2. key(q) \in Keys /\ key(q)[2] = now
  BY <1>1, KeyIsKey
<1>3. \A p \in Quota : p # q => key(p) # key(q) /\ key(p) \in Keys
  BY <1>1, KeyIsKey DEF key
<1>4. \A k \in Keys : counter[k] \in Nat /\ (k = key(q) => ~(k[2] > now))
  BY <1>1, <1>2, RateAssumption
<1> QED
  BY <1>1, <1>2, <1>3, <1>4 DEF Inv, Ahead

\* Redis counts the request before it compares: what passes is within the limit.
LEMMA RedisStep ==
  ASSUME Inv, NEW q \in Quota, NEW ok \in BOOLEAN, RedisAllow(q, ok),
         asked' = [asked EXCEPT ![q] = @ + 1], UNCHANGED config
  PROVE  Inv'
<1>1. /\ counter' = [counter EXCEPT ![key(q)] = @ + 1]
      /\ expiring' \subseteq expiring \cup {key(q)}
      /\ \/ counter'[key(q)] <= limitPerWindow(q) /\ shared' = [shared EXCEPT ![q] = @ + 1]
         \/ shared' = shared
      /\ UNCHANGED <<now, tokens, alone>>
  BY Zenon DEF RedisAllow
<1>2. /\ now \in 0..MaxTime /\ counter \in [Keys -> Nat]
      /\ expiring \subseteq {k \in Keys : counter[k] > 0}
      /\ asked \in [Quota -> Nat] /\ shared \in [Quota -> Nat]
  BY DEF Inv, TypeOK, LimiterTypeOK
<1>3. /\ counter' \in [Keys -> Nat]
      /\ counter'[key(q)] = counter[key(q)] + 1
      /\ \A p \in Quota : p # q => counter'[key(p)] = counter[key(p)]
      /\ \A k \in Keys : counter[k] <= counter'[k]
      /\ \A k \in Keys : k[2] > now => counter'[k] = 0
  BY <1>1, Incremented, Zenon
<1>4. \A p \in Quota : key(p) \in Keys /\ key(p)' = key(p)
  BY <1>1, <1>2, KeyIsKey DEF key
<1>5. \A p \in Quota : counter[key(p)] \in Nat /\ limitPerWindow(p) \in Nat
  BY <1>2, <1>4, LimitIsPositive
<1>6. TypeOK'
  <2>1. expiring' \subseteq {k \in Keys : counter'[k] > 0}
    BY <1>1, <1>2, <1>3, <1>4, <1>5
  <2>2. asked' \in [Quota -> Nat] /\ shared' \in [Quota -> Nat]
    BY <1>1, <1>2
  <2>3. QED
    BY <1>1, <1>3, <2>1, <2>2 DEF Inv, TypeOK, LimiterTypeOK
<1>7. Ahead'
  BY <1>1, <1>3 DEF Ahead
<1>8. Counted'
  <2> SUFFICES ASSUME NEW p \in Quota
               PROVE  shared'[p] <= counter'[key(p)] /\ shared'[p] <= limitPerWindow(p)
    BY <1>4 DEF Counted
  <2>1. shared[p] \in Nat /\ shared[p] <= counter[key(p)] /\ shared[p] <= limitPerWindow(p)
    BY <1>2 DEF Inv, Counted
  <2>2. CASE /\ p = q /\ shared' = [shared EXCEPT ![q] = @ + 1]
             /\ counter'[key(q)] <= limitPerWindow(q)
    <3>1. shared'[p] = shared[p] + 1
      BY <1>2, <2>2
    <3>2. QED
      BY <1>3, <1>5, <2>1, <2>2, <3>1
  <2>3. CASE p # q \/ shared' = shared
    <3>1. shared'[p] = shared[p]
      BY <1>1, <1>2, <2>3
    <3>2. counter[key(p)] <= counter'[key(p)] /\ counter'[key(p)] \in Nat
      BY <1>3, <1>4
    <3>3. QED
      BY <1>5, <2>1, <3>1, <3>2
  <2>4. QED
    BY <1>1, <2>2, <2>3
<1>9. Buckets'
  BY <1>1 DEF Inv, Buckets
<1>10. RoomLeft'
  <2> SUFFICES ASSUME NEW p \in Quota PROVE counter'[key(p)] <= asked'[p]
    BY <1>4 DEF RoomLeft
  <2>1. counter[key(p)] <= asked[p] /\ asked[p] \in Nat
    BY <1>2 DEF Inv, RoomLeft
  <2>2. QED
    BY <1>2, <1>3, <1>5, <2>1
<1> QED
  BY <1>6, <1>7, <1>8, <1>9, <1>10 DEF Inv

\* Redis errs: the replica's bucket pays, and Redis may have counted all the same.
LEMMA MemoryStep ==
  ASSUME Inv, NEW r \in Replicas, NEW q \in Quota, NEW ok \in BOOLEAN, MemoryAllow(r, q, ok),
         asked' = [asked EXCEPT ![q] = @ + 1], UNCHANGED config
  PROVE  Inv'
<1>1. /\ counter' = counter \/ counter' = [counter EXCEPT ![key(q)] = @ + 1]
      /\ \/ /\ tokens[r][q] > 0
            /\ tokens' = [tokens EXCEPT ![r][q] = @ - 1]
            /\ alone' = [alone EXCEPT ![r][q] = @ + 1]
         \/ tokens' = tokens /\ alone' = alone
      /\ UNCHANGED <<now, expiring, shared>>
  BY Zenon DEF MemoryAllow
<1>2. /\ now \in 0..MaxTime /\ counter \in [Keys -> Nat]
      /\ expiring \subseteq {k \in Keys : counter[k] > 0}
      /\ asked \in [Quota -> Nat] /\ shared \in [Quota -> Nat]
      /\ tokens \in [Replicas -> [Quota -> Nat]] /\ alone \in [Replicas -> [Quota -> Nat]]
  BY DEF Inv, TypeOK, LimiterTypeOK
<1>3. \A p \in Quota : key(p) \in Keys /\ key(p)' = key(p)
  BY <1>1, <1>2, KeyIsKey DEF key
<1>4. \A k \in Keys : counter[k] \in Nat
  BY <1>2
<1>5. /\ counter' \in [Keys -> Nat]
      /\ \A k \in Keys : counter[k] <= counter'[k]
      /\ \A k \in Keys : k[2] > now => counter'[k] = 0
      /\ counter'[key(q)] <= counter[key(q)] + 1
      /\ \A p \in Quota : p # q => counter'[key(p)] = counter[key(p)]
  <2>1. CASE counter' = counter
    BY <1>2, <1>3, <1>4, <2>1 DEF Inv, Ahead
  <2>2. CASE counter' = [counter EXCEPT ![key(q)] = @ + 1]
    <3>1. counter[key(q)] + 1 \in Nat
      BY <1>3, <1>4
    <3>2. /\ counter' \in [Keys -> Nat]
          /\ counter'[key(q)] = counter[key(q)] + 1
          /\ \A p \in Quota : p # q => counter'[key(p)] = counter[key(p)]
          /\ \A k \in Keys : counter[k] <= counter'[k]
          /\ \A k \in Keys : k[2] > now => counter'[k] = 0
      BY <2>2, Incremented, Zenon
    <3>3. QED
      BY <3>1, <3>2
  <2>3. QED
    BY <1>1, <2>1, <2>2
<1>6. /\ tokens' \in [Replicas -> [Quota -> Nat]] /\ alone' \in [Replicas -> [Quota -> Nat]]
      /\ \A s \in Replicas, p \in Quota :
            /\ tokens'[s][p] <= tokens[s][p]
            /\ alone'[s][p] + tokens'[s][p] = alone[s][p] + tokens[s][p]
  <2>1. CASE /\ tokens[r][q] > 0
             /\ tokens' = [tokens EXCEPT ![r][q] = @ - 1]
             /\ alone' = [alone EXCEPT ![r][q] = @ + 1]
    <3>1. tokens[r][q] \in Nat /\ tokens[r][q] - 1 \in Nat /\ alone[r][q] \in Nat
      BY <1>2, <2>1
    <3>2. /\ tokens' = [tokens EXCEPT ![r] = [tokens[r] EXCEPT ![q] = tokens[r][q] - 1]]
          /\ alone' = [alone EXCEPT ![r] = [alone[r] EXCEPT ![q] = alone[r][q] + 1]]
      BY <1>2, <2>1
    <3>3. /\ tokens' \in [Replicas -> [Quota -> Nat]]
          /\ alone' \in [Replicas -> [Quota -> Nat]]
      BY <1>2, <3>1, <3>2
    <3>4. /\ tokens'[r][q] = tokens[r][q] - 1 /\ alone'[r][q] = alone[r][q] + 1
          /\ \A s \in Replicas, p \in Quota : ~(s = r /\ p = q) =>
                tokens'[s][p] = tokens[s][p] /\ alone'[s][p] = alone[s][p]
      BY <1>2, <3>2
    <3>5. \A s \in Replicas, p \in Quota : tokens[s][p] \in Nat /\ alone[s][p] \in Nat
      BY <1>2
    <3>6. \A s \in Replicas, p \in Quota :
             /\ tokens'[s][p] <= tokens[s][p]
             /\ alone'[s][p] + tokens'[s][p] = alone[s][p] + tokens[s][p]
      <4> SUFFICES ASSUME NEW s \in Replicas, NEW p \in Quota
                   PROVE  /\ tokens'[s][p] <= tokens[s][p]
                          /\ alone'[s][p] + tokens'[s][p] = alone[s][p] + tokens[s][p]
        OBVIOUS
      <4>1. CASE s = r /\ p = q
        BY <3>4, <3>5, <4>1
      <4>2. CASE ~(s = r /\ p = q)
        BY <3>4, <3>5, <4>2
      <4>3. QED
        BY <4>1, <4>2
    <3>7. QED
      BY <3>3, <3>6
  <2>2. CASE tokens' = tokens /\ alone' = alone
    BY <1>2, <2>2
  <2>3. QED
    BY <1>1, <2>1, <2>2
<1>7. TypeOK'
  <2>1. expiring' \subseteq {k \in Keys : counter'[k] > 0}
    BY <1>1, <1>2, <1>4, <1>5
  <2>2. asked' \in [Quota -> Nat]
    BY <1>2
  <2>3. \A s \in Replicas, p \in Quota : tokens'[s][p] <= limitPerWindow(p)
    <3>1. \A s \in Replicas, p \in Quota :
             /\ tokens[s][p] \in Nat /\ tokens'[s][p] \in Nat /\ limitPerWindow(p) \in Nat
             /\ tokens[s][p] <= limitPerWindow(p)
      BY <1>2, <1>6, LimitIsPositive DEF Inv, TypeOK, LimiterTypeOK
    <3>2. QED
      BY <1>6, <3>1
  <2>4. QED
    BY <1>1, <1>5, <1>6, <2>1, <2>2, <2>3 DEF Inv, TypeOK, LimiterTypeOK
<1>8. Ahead'
  BY <1>1, <1>5 DEF Ahead
<1>9. Counted'
  <2> SUFFICES ASSUME NEW p \in Quota
               PROVE  shared[p] <= counter'[key(p)] /\ shared[p] <= limitPerWindow(p)
    BY <1>1, <1>3 DEF Counted
  <2>1. /\ shared[p] \in Nat /\ counter[key(p)] \in Nat /\ counter'[key(p)] \in Nat
        /\ shared[p] <= counter[key(p)] /\ counter[key(p)] <= counter'[key(p)]
        /\ shared[p] <= limitPerWindow(p)
    BY <1>2, <1>3, <1>5 DEF Inv, Counted
  <2>2. QED
    BY <2>1
<1>10. Buckets'
  BY <1>6 DEF Inv, Buckets
<1>11. RoomLeft'
  <2> SUFFICES ASSUME NEW p \in Quota PROVE counter'[key(p)] <= asked'[p]
    BY <1>3 DEF RoomLeft
  <2>1. /\ counter[key(p)] \in Nat /\ counter'[key(p)] \in Nat /\ asked[p] \in Nat
        /\ counter[key(p)] <= asked[p]
    BY <1>2, <1>3, <1>5 DEF Inv, RoomLeft
  <2>2. asked'[p] = IF p = q THEN asked[p] + 1 ELSE asked[p]
    BY <1>2
  <2>3. QED
    BY <1>5, <2>1, <2>2
<1> QED
  BY <1>7, <1>8, <1>9, <1>10, <1>11 DEF Inv

--------------------------------------------------------------------------------
(***************************************************************************)
(* Time and restarts.                                                      *)
(***************************************************************************)

\* In the new second nobody has counted, and no bucket holds more than its burst.
LEMMA TickStep ==
  ASSUME Inv, Tick, UNCHANGED config
  PROVE  Inv'
<1>1. /\ now \in 0..MaxTime /\ counter \in [Keys -> Nat]
      /\ expiring \subseteq {k \in Keys : counter[k] > 0}
      /\ tokens \in [Replicas -> [Quota -> Nat]] /\ config \in Configs
  BY DEF Inv, TypeOK, LimiterTypeOK
<1>2. PICK over : over = {k \in expiring : k[2] + 1 <= now}
  OBVIOUS
<1>3. /\ now < MaxTime /\ now' = now + 1
      /\ counter' = [k \in Keys |-> IF k \in over THEN 0 ELSE counter[k]]
      /\ expiring' = expiring \ over
      /\ tokens' = [r \in Replicas |-> [q \in Quota |-> Gained(r, q)]]
      /\ asked' = [q \in Quota |-> 0] /\ shared' = [q \in Quota |-> 0]
      /\ alone' = [r \in Replicas |-> [q \in Quota |-> 0]]
  BY <1>2 DEF Tick
<1>4. now' \in 0..MaxTime /\ now \in Nat
  BY <1>1, <1>3, RateAssumption
<1>5. \A r \in Replicas, q \in Quota : Gained(r, q) \in Nat /\ Gained(r, q) <= limitPerWindow(q)
  <2> SUFFICES ASSUME NEW r \in Replicas, NEW q \in Quota
               PROVE  Gained(r, q) \in Nat /\ Gained(r, q) <= limitPerWindow(q)
    OBVIOUS
  <2>1. tokens[r][q] \in Nat /\ Rps(q) \in Nat /\ limitPerWindow(q) \in Nat
    BY <1>1, LimitIsPositive
  <2>2. QED
    BY <2>1 DEF Gained
<1>6. /\ counter' \in [Keys -> Nat]
      /\ \A k \in Keys : counter[k] = 0 => counter'[k] = 0
      /\ \A k \in Keys : k \notin over => counter'[k] = counter[k]
  BY <1>1, <1>3
<1>7. TypeOK'
  <2>1. expiring' \subseteq {k \in Keys : counter'[k] > 0}
    BY <1>1, <1>3, <1>6
  <2>2. \A r \in Replicas, q \in Quota : tokens'[r][q] = Gained(r, q)
    BY <1>3
  <2>3. tokens' \in [Replicas -> [Quota -> Nat]]
    BY <1>3, <1>5
  <2>4. asked' \in [Quota -> Nat] /\ shared' \in [Quota -> Nat]
        /\ alone' \in [Replicas -> [Quota -> Nat]]
    BY <1>3
  <2>5. QED
    BY <1>1, <1>4, <1>5, <1>6, <2>1, <2>2, <2>3, <2>4 DEF TypeOK, LimiterTypeOK
<1>8. Ahead'
  <2> SUFFICES ASSUME NEW k \in Keys, k[2] > now + 1 PROVE counter'[k] = 0
    BY <1>3 DEF Ahead
  <2>1. k[2] > now
    <3>1. k[2] \in 0..MaxTime
      BY DEF Keys
    <3>2. QED
      BY <1>4, <3>1, RateAssumption
  <2>2. QED
    BY <1>6, <2>1 DEF Inv, Ahead
<1>9. \A q \in Quota : counter'[key(q)'] = 0
  <2> SUFFICES ASSUME NEW q \in Quota PROVE counter'[key(q)'] = 0
    OBVIOUS
  <2>1. PICK k : k = <<q, now + 1>>
    OBVIOUS
  <2>2. key(q)' = k
    BY <1>3, <2>1 DEF key
  <2>3. k \in Keys /\ k[2] > now
    BY <1>3, <1>4, <2>1 DEF Keys
  <2>4. QED
    BY <1>6, <2>2, <2>3 DEF Inv, Ahead
<1>10. Counted'
  <2> SUFFICES ASSUME NEW q \in Quota
               PROVE  shared'[q] <= counter'[key(q)'] /\ shared'[q] <= limitPerWindow(q)
    BY DEF Counted
  <2>1. shared'[q] = 0 /\ limitPerWindow(q) \in Nat
    BY <1>3, LimitIsPositive
  <2>2. QED
    BY <1>9, <2>1
<1>11. Buckets'
  <2> SUFFICES ASSUME NEW r \in Replicas, NEW q \in Quota
               PROVE  alone'[r][q] + tokens'[r][q] <= limitPerWindow(q)
    BY DEF Buckets
  <2>1. alone'[r][q] = 0 /\ tokens'[r][q] = Gained(r, q)
    BY <1>3
  <2>2. QED
    BY <1>5, <2>1
<1>12. RoomLeft'
  BY <1>3, <1>9 DEF RoomLeft
<1> QED
  BY <1>7, <1>8, <1>10, <1>11, <1>12 DEF Inv

\* A new replica's buckets are full and it has let nobody pass.
LEMMA RestartStep ==
  ASSUME Inv, NEW r \in Replicas, RestartReplica(r), UNCHANGED config
  PROVE  Inv'
<1>1. /\ tokens' = [tokens EXCEPT ![r] = [q \in Quota |-> limitPerWindow(q)]]
      /\ alone' = [alone EXCEPT ![r] = [q \in Quota |-> 0]]
      /\ UNCHANGED <<now, counter, expiring, asked, shared>>
  BY DEF RestartReplica
<1>2. /\ tokens \in [Replicas -> [Quota -> Nat]] /\ alone \in [Replicas -> [Quota -> Nat]]
      /\ \A q \in Quota : limitPerWindow(q) \in Nat
  BY LimitIsPositive DEF Inv, TypeOK, LimiterTypeOK
<1>3. /\ tokens' \in [Replicas -> [Quota -> Nat]] /\ alone' \in [Replicas -> [Quota -> Nat]]
      /\ \A q \in Quota : tokens'[r][q] = limitPerWindow(q) /\ alone'[r][q] = 0
      /\ \A s \in Replicas : s # r => tokens'[s] = tokens[s] /\ alone'[s] = alone[s]
  BY <1>1, <1>2
<1>4. \A s \in Replicas, q \in Quota :
         tokens'[s][q] <= limitPerWindow(q) /\ alone'[s][q] + tokens'[s][q] <= limitPerWindow(q)
  <2> SUFFICES ASSUME NEW s \in Replicas, NEW q \in Quota
               PROVE  /\ tokens'[s][q] <= limitPerWindow(q)
                      /\ alone'[s][q] + tokens'[s][q] <= limitPerWindow(q)
    OBVIOUS
  <2>1. CASE s = r
    BY <1>2, <1>3, <2>1
  <2>2. CASE s # r
    BY <1>3, <2>2 DEF Inv, TypeOK, LimiterTypeOK, Buckets
  <2>3. QED
    BY <2>1, <2>2
<1>5. TypeOK'
  BY <1>1, <1>3, <1>4 DEF Inv, TypeOK, LimiterTypeOK
<1>6. Ahead' /\ Counted' /\ RoomLeft'
  BY <1>1 DEF Inv, Ahead, Counted, RoomLeft, key
<1>7. Buckets'
  BY <1>4 DEF Buckets
<1> QED
  BY <1>5, <1>6, <1>7 DEF Inv

--------------------------------------------------------------------------------
(***************************************************************************)
(* The theorems.                                                           *)
(***************************************************************************)

LEMMA Invariant == Spec => []Inv
<1>1. Init => Inv
  <2> SUFFICES ASSUME Init PROVE Inv
    OBVIOUS
  <2>1. /\ now = 0 /\ counter = [k \in Keys |-> 0] /\ expiring = {}
        /\ tokens = [r \in Replicas |-> [q \in Quota |-> limitPerWindow(q)]]
        /\ asked = [q \in Quota |-> 0] /\ shared = [q \in Quota |-> 0]
        /\ alone = [r \in Replicas |-> [q \in Quota |-> 0]] /\ config \in Configs
    BY DEF Init, LimiterInit
  <2>2. \A q \in Quota : limitPerWindow(q) \in Nat
    BY LimitIsPositive
  <2>3. now \in 0..MaxTime
    BY <2>1, RateAssumption
  <2>4. \A r \in Replicas, q \in Quota :
           tokens[r][q] = limitPerWindow(q) /\ alone[r][q] = 0
    BY <2>1
  <2>5. TypeOK
    BY <2>1, <2>2, <2>3, <2>4 DEF TypeOK, LimiterTypeOK
  <2>6. Ahead
    BY <2>1 DEF Ahead
  <2>7. \A q \in Quota : counter[key(q)] = 0
    BY <2>1, <2>3, KeyIsKey
  <2>8. Counted /\ RoomLeft
    BY <2>1, <2>2, <2>7 DEF Counted, RoomLeft
  <2>9. Buckets
    BY <2>2, <2>4 DEF Buckets
  <2>10. QED
    BY <2>5, <2>6, <2>8, <2>9 DEF Inv
<1>2. Inv /\ [Next]_vars => Inv'
  <2> SUFFICES ASSUME Inv, [Next]_vars PROVE Inv'
    OBVIOUS
  <2>1. ASSUME NEW r \in Replicas, NEW c \in Clients, NEW e \in Endpoints,
               Middleware(r, QuotaOf(c, e.path)), UNCHANGED config
        PROVE  Inv'
    <3>1. PICK q : q = QuotaOf(c, e.path)
      OBVIOUS
    <3>2. q \in Quota
      BY <3>1, QuotaOfIsQuota
    <3>3. PICK ok \in BOOLEAN : Allow(r, q, ok)
      BY <2>1, <3>1 DEF Middleware
    <3>4. asked' = [asked EXCEPT ![q] = @ + 1] /\ (RedisAllow(q, ok) \/ MemoryAllow(r, q, ok))
      BY <3>3 DEF Allow
    <3>5. QED
      BY <2>1, <3>2, <3>4, RedisStep, MemoryStep
  <2>2. CASE Tick /\ UNCHANGED config
    BY <2>2, TickStep
  <2>3. ASSUME NEW r \in Replicas, RestartReplica(r), UNCHANGED config PROVE Inv'
    BY <2>3, RestartStep
  <2>4. CASE UNCHANGED vars
    BY <2>4 DEF vars, limiterVars, Inv, TypeOK, LimiterTypeOK, Ahead, Counted, Buckets, RoomLeft, key
  <2>5. QED
    BY <2>1, <2>2, <2>3, <2>4 DEF Next
<1> QED
  BY <1>1, <1>2, PTL DEF Spec

\* Counters, keys and buckets keep their types, and no bucket holds more than its
\* burst.
THEOREM TypeCorrect == Spec => []TypeOK
  BY Invariant, PTL DEF Inv

\* Whatever Redis fails on and however requests meet the replicas, a client is let
\* through within the limit of the second by Redis, and within burst and rate by each
\* replica that falls back to its own bucket.
THEOREM LimitKept == Spec => []WithinLimit
<1>1. Inv => WithinLimit
  <2> SUFFICES ASSUME Inv, NEW q \in Quota
               PROVE  /\ shared[q] <= limitPerWindow(q)
                      /\ \A r \in Replicas : alone[r][q] <= limitPerWindow(q) + Rps(q)
    BY DEF WithinLimit
  <2>1. limitPerWindow(q) \in Nat /\ Rps(q) \in Nat
    BY LimitIsPositive
  <2>2. \A r \in Replicas : /\ alone[r][q] \in Nat /\ tokens[r][q] \in Nat
                            /\ alone[r][q] + tokens[r][q] <= limitPerWindow(q)
    BY DEF Inv, TypeOK, LimiterTypeOK, Buckets
  <2>3. shared[q] <= limitPerWindow(q)
    BY DEF Inv, Counted
  <2>4. QED
    BY <2>1, <2>2, <2>3
<1> QED
  BY <1>1, Invariant, PTL

\* What counts against a client in Redis is what it asked in this zone and second,
\* also when keys have lost their EXPIRE and stay.
THEOREM RoomIsLeft == Spec => []RoomLeft
  BY Invariant, PTL DEF Inv

--------------------------------------------------------------------------------
(***************************************************************************)
(* The path rules, the route table and the services' checks.               *)
(***************************************************************************)

\* IsPrefix, index by index.
LEMMA PrefixIs ==
  ASSUME NEW S, NEW s \in Seq(S), NEW t \in Seq(S)
  PROVE  IsPrefix(s, t) <=> Len(s) <= Len(t) /\ \A i \in 1..Len(s) : s[i] = t[i]
  BY DEF IsPrefix

\* A prefix of two, three or four tokens.
LEMMA Prefix2 ==
  ASSUME NEW S, NEW a \in S, NEW b \in S, NEW t \in Seq(S)
  PROVE  IsPrefix(<<a, b>>, t) <=> Len(t) >= 2 /\ t[1] = a /\ t[2] = b
<1>0. <<a, b>> \in Seq(S)
  OBVIOUS
<1>1. PICK s \in Seq(S) : s = <<a, b>>
  BY <1>0
<1>2. Len(s) = 2 /\ s[1] = a /\ s[2] = b
  BY <1>1
<1>3. IsPrefix(s, t) <=> Len(s) <= Len(t) /\ \A i \in 1..Len(s) : s[i] = t[i]
  BY PrefixIs
<1> QED
  BY <1>1, <1>2, <1>3

LEMMA Prefix3 ==
  ASSUME NEW S, NEW a \in S, NEW b \in S, NEW c \in S, NEW t \in Seq(S)
  PROVE  IsPrefix(<<a, b, c>>, t) <=> Len(t) >= 3 /\ t[1] = a /\ t[2] = b /\ t[3] = c
<1>0. <<a, b, c>> \in Seq(S)
  OBVIOUS
<1>1. PICK s \in Seq(S) : s = <<a, b, c>>
  BY <1>0
<1>2. Len(s) = 3 /\ s[1] = a /\ s[2] = b /\ s[3] = c
  BY <1>1
<1>3. IsPrefix(s, t) <=> Len(s) <= Len(t) /\ \A i \in 1..Len(s) : s[i] = t[i]
  BY PrefixIs
<1> QED
  BY <1>1, <1>2, <1>3

LEMMA Prefix4 ==
  ASSUME NEW S, NEW a \in S, NEW b \in S, NEW c \in S, NEW d \in S, NEW t \in Seq(S)
  PROVE  IsPrefix(<<a, b, c, d>>, t) <=> Len(t) >= 4 /\ t[1] = a /\ t[2] = b /\ t[3] = c /\ t[4] = d
<1>0. <<a, b, c, d>> \in Seq(S)
  OBVIOUS
<1>1. PICK s \in Seq(S) : s = <<a, b, c, d>>
  BY <1>0
<1>2. Len(s) = 4 /\ s[1] = a /\ s[2] = b /\ s[3] = c /\ s[4] = d
  BY <1>1
<1>3. IsPrefix(s, t) <=> Len(s) <= Len(t) /\ \A i \in 1..Len(s) : s[i] = t[i]
  BY PrefixIs
<1> QED
  BY <1>1, <1>2, <1>3

\* Two tokens and then one or two more.
LEMMA Concat3 ==
  ASSUME NEW S, NEW a \in S, NEW b \in S, NEW c \in S
  PROVE  <<a, b>> \o <<c>> = <<a, b, c>>
<1> DEFINE s == <<a, b>>
           t == <<c>>
           u == <<a, b, c>>
<1>1. s \in Seq(S) /\ t \in Seq(S) /\ u \in Seq(S)
  OBVIOUS
<1>2. Len(s) = 2 /\ Len(t) = 1 /\ Len(u) = 3
  OBVIOUS
<1>3. s \o t \in Seq(S) /\ Len(s \o t) = 3
  BY <1>1, <1>2, ConcatProperties
<1>4. \A i \in 1..3 : (s \o t)[i] = u[i]
  BY <1>1, <1>2, ConcatProperties
<1> HIDE DEF s, t, u
<1> QED
  BY <1>1, <1>2, <1>3, <1>4, SeqEqual DEF s, t, u

LEMMA Concat4 ==
  ASSUME NEW S, NEW a \in S, NEW b \in S, NEW c \in S, NEW d \in S
  PROVE  <<a, b>> \o <<c, d>> = <<a, b, c, d>>
<1> DEFINE s == <<a, b>>
           t == <<c, d>>
           u == <<a, b, c, d>>
<1>1. s \in Seq(S) /\ t \in Seq(S) /\ u \in Seq(S)
  OBVIOUS
<1>2. Len(s) = 2 /\ Len(t) = 2 /\ Len(u) = 4
  OBVIOUS
<1>3. s \o t \in Seq(S) /\ Len(s \o t) = 4
  BY <1>1, <1>2, ConcatProperties
<1>4. \A i \in 1..4 : (s \o t)[i] = u[i]
  BY <1>1, <1>2, ConcatProperties
<1> HIDE DEF s, t, u
<1> QED
  BY <1>1, <1>2, <1>3, <1>4, SeqEqual DEF s, t, u

\* The tokens of the paths EdgeRules names.
Token == {"/", "healthz", "sign-in", "/dev", "callback", "sign-out", "admin", "items", "v1/",
  "users/", "me", "", "business/", "ping", "files/", "id", "auth/", "miniprogram/login",
  "jwks", "audit/", "events", "internal/", "webhooks/", "logto", "identity/", "resolve", "job-effects"}

\* A path below /internal/.
LEMMA InternalIs ==
  ASSUME NEW x \in Token, NEW y \in Token
  PROVE  /\ Internal(<<x>>) = <<"/", "internal/", x>>
         /\ Internal(<<x, y>>) = <<"/", "internal/", x, y>>
<1>1. "/" \in Token /\ "internal/" \in Token
  BY DEF Token
<1> QED
  BY <1>1, Concat3, Concat4 DEF Internal

\* What strings.HasPrefix says of a path, rule by rule.
LEMMA RulePrefixes ==
  ASSUME NEW w \in Seq(Token)
  PROVE  /\ IsPrefix(<<"/", "admin">>, w) <=> Len(w) >= 2 /\ w[1] = "/" /\ w[2] = "admin"
         /\ IsPrefix(<<"/", "v1/">>, w) <=> Len(w) >= 2 /\ w[1] = "/" /\ w[2] = "v1/"
         /\ IsPrefix(<<"/", "internal/">>, w) <=> Len(w) >= 2 /\ w[1] = "/" /\ w[2] = "internal/"
         /\ IsPrefix(<<"/", "admin", "/">>, w) <=>
               Len(w) >= 3 /\ w[1] = "/" /\ w[2] = "admin" /\ w[3] = "/"
         /\ IsPrefix(<<"/", "v1/", "auth/">>, w) <=>
               Len(w) >= 3 /\ w[1] = "/" /\ w[2] = "v1/" /\ w[3] = "auth/"
         /\ IsPrefix(Internal(<<"webhooks/">>), w) <=>
               Len(w) >= 3 /\ w[1] = "/" /\ w[2] = "internal/" /\ w[3] = "webhooks/"
         /\ IsPrefix(Business("ping"), w) <=>
               Len(w) >= 4 /\ w[1] = "/" /\ w[2] = "v1/" /\ w[3] = "business/" /\ w[4] = "ping"
<1>1. /\ {"/", "admin", "v1/", "internal/", "webhooks/", "business/", "ping", "auth/"} \subseteq Token
  BY DEF Token
<1>2. Internal(<<"webhooks/">>) = <<"/", "internal/", "webhooks/">>
  BY <1>1, InternalIs
<1> QED
  BY <1>1, <1>2, Prefix2, Prefix3, Prefix4 DEF Business

\* The anonymous rules when GATEWAY_ANON_PREFIXES says nothing.
Defaults == ResolveAnonPrefixes([exact |-> {}, prefix |-> {}])

\* What they allow.
LEMMA DefaultAllows ==
  ASSUME NEW w
  PROVE  Allows(Defaults, w) <=>
           \/ w \in {Healthz, SignInPath, CallbackPath, SignOutPath, Webhook, Home}
           \/ config.devLogin /\ w = SignInDev
           \/ IsPrefix(Business("ping"), w) \/ IsPrefix(<<"/", "admin">>, w)
           \/ IsPrefix(<<"/", "v1/", "auth/">>, w)
<1>1. ParseAnonPrefixes([exact |-> {}, prefix |-> {}]) = DefaultAnon
  BY DEF ParseAnonPrefixes
<1>2. /\ Defaults.prefix = DefaultAnon.prefix
      /\ Defaults.exact = IF config.devLogin THEN DefaultAnon.exact \cup {SignInDev}
                          ELSE DefaultAnon.exact
  BY <1>1 DEF Defaults, ResolveAnonPrefixes, DefaultAnon
<1> QED
  BY <1>2 DEF Allows, DefaultAnon

\* What the gateway makes of a path: anonymous or not, who serves it, and whether
\* the services ask for the internal token.
Treated(w, anon, to, skipped) ==
  /\ Allows(Defaults, w) <=> anon
  /\ Mux(w) = to
  /\ gatewayTrustSkipped(w) <=> skipped

\* The paths, token by token.
Is2(w, a) == w \in Seq(Token) /\ Len(w) = 2 /\ w[1] = "/" /\ w[2] = a
Is3(w, a, b) == w \in Seq(Token) /\ Len(w) = 3 /\ w[1] = "/" /\ w[2] = a /\ w[3] = b
Is4(w, a, b, c) ==
  w \in Seq(Token) /\ Len(w) = 4 /\ w[1] = "/" /\ w[2] = a /\ w[3] = b /\ w[4] = c

\* What the rules' prefixes say of a path of four tokens.
LEMMA Rules4 ==
  ASSUME NEW w, NEW a, NEW b, NEW c, Is4(w, a, b, c)
  PROVE  /\ IsPrefix(<<"/", "admin">>, w) <=> a = "admin"
         /\ IsPrefix(<<"/", "v1/">>, w) <=> a = "v1/"
         /\ IsPrefix(<<"/", "internal/">>, w) <=> a = "internal/"
         /\ IsPrefix(<<"/", "admin", "/">>, w) <=> a = "admin" /\ b = "/"
         /\ IsPrefix(<<"/", "v1/", "auth/">>, w) <=> a = "v1/" /\ b = "auth/"
         /\ IsPrefix(Internal(<<"webhooks/">>), w) <=> a = "internal/" /\ b = "webhooks/"
         /\ IsPrefix(Business("ping"), w) <=> a = "v1/" /\ b = "business/" /\ c = "ping"
<1>1. /\ w \in Seq(Token) /\ Len(w) >= 2 /\ Len(w) >= 3 /\ Len(w) >= 4
      /\ w[1] = "/" /\ w[2] = a /\ w[3] = b /\ w[4] = c
  BY DEF Is4
<1> QED
  BY <1>1, RulePrefixes

\* The same of a path of three.
LEMMA Rules3 ==
  ASSUME NEW w, NEW a, NEW b, Is3(w, a, b)
  PROVE  /\ IsPrefix(<<"/", "admin">>, w) <=> a = "admin"
         /\ IsPrefix(<<"/", "v1/">>, w) <=> a = "v1/"
         /\ IsPrefix(<<"/", "internal/">>, w) <=> a = "internal/"
         /\ IsPrefix(<<"/", "admin", "/">>, w) <=> a = "admin" /\ b = "/"
         /\ IsPrefix(<<"/", "v1/", "auth/">>, w) <=> a = "v1/" /\ b = "auth/"
         /\ IsPrefix(Internal(<<"webhooks/">>), w) <=> a = "internal/" /\ b = "webhooks/"
         /\ ~IsPrefix(Business("ping"), w)
<1>1. /\ w \in Seq(Token) /\ Len(w) >= 2 /\ Len(w) >= 3 /\ ~(Len(w) >= 4)
      /\ w[1] = "/" /\ w[2] = a /\ w[3] = b
  BY DEF Is3
<1> QED
  BY <1>1, RulePrefixes

\* A tuple is the path of its tokens.
LEMMA TupleIs ==
  ASSUME NEW a \in Token, NEW b \in Token
  PROVE  /\ Is2(<<"/", a>>, a)
         /\ Is3(<<"/", a, b>>, a, b)
         /\ \A c \in Token : Is4(<<"/", a, b, c>>, a, b, c)
<1>1. "/" \in Token
  BY DEF Token
<1> QED
  BY <1>1 DEF Is2, Is3, Is4

\* The paths of the gateway's own handlers, the admin files and the site.
LEMMA OwnPaths ==
  /\ Home \in Seq(Token) /\ Len(Home) = 1
  /\ Is2(Healthz, "healthz")
  /\ Is2(SignInPath, "sign-in")
  /\ Is3(SignInDev, "sign-in", "/dev")
  /\ Is2(CallbackPath, "callback")
  /\ Is2(SignOutPath, "sign-out")
  /\ Is4(AdminItems, "admin", "/", "items")
  BY DEF Is2, Is3, Is4, Token, Healthz, SignInPath, SignInDev, CallbackPath, SignOutPath, AdminItems, Home

\* The services' public paths.
LEMMA ApiPaths ==
  /\ \A x \in Token : /\ Is4(User(x), "v1/", "users/", x)
                      /\ Is4(Business(x), "v1/", "business/", x)
                      /\ Is4(File(x), "v1/", "files/", x)
                      /\ Is4(Auth(x), "v1/", "auth/", x)
  /\ Is4(AuditEvents, "v1/", "audit/", "events")
  BY DEF Is4, Token, User, Business, File, Auth, AuditEvents

\* The services' internal paths.
LEMMA InternalPaths ==
  /\ Is4(Webhook, "internal/", "webhooks/", "logto")
  /\ Is4(Internal(<<"identity/", "resolve">>), "internal/", "identity/", "resolve")
  /\ Is4(Internal(<<"audit/", "events">>), "internal/", "audit/", "events")
  /\ Is3(Internal(<<"job-effects">>), "internal/", "job-effects")
<1>1. {"/", "internal/", "webhooks/", "logto", "identity/", "resolve", "audit/", "events", "job-effects"}
        \subseteq Token
  BY DEF Token
<1>2. /\ Webhook = <<"/", "internal/", "webhooks/", "logto">>
      /\ Internal(<<"identity/", "resolve">>) = <<"/", "internal/", "identity/", "resolve">>
      /\ Internal(<<"audit/", "events">>) = <<"/", "internal/", "audit/", "events">>
      /\ Internal(<<"job-effects">>) = <<"/", "internal/", "job-effects">>
  BY <1>1, InternalIs DEF Webhook
<1> QED
  BY <1>1, <1>2, TupleIs

\* What the gateway serves itself.
LEMMA GatewayOwn ==
  /\ Treated(Healthz, TRUE, "gateway", TRUE)
  /\ Treated(SignInPath, TRUE, "gateway", FALSE)
  /\ Treated(SignInDev, config.devLogin, "gateway", FALSE)
  /\ Treated(CallbackPath, TRUE, "gateway", FALSE)
  /\ Treated(SignOutPath, TRUE, "gateway", FALSE)
  /\ Treated(AdminItems, TRUE, "admin files", FALSE)
  /\ Treated(Home, TRUE, "site", FALSE)
<1>1. Treated(Healthz, TRUE, "gateway", TRUE)
  BY DefaultAllows DEF Treated, Mux, gatewayTrustSkipped
<1>2. /\ Treated(SignInPath, TRUE, "gateway", FALSE)
      /\ Treated(CallbackPath, TRUE, "gateway", FALSE)
      /\ Treated(SignOutPath, TRUE, "gateway", FALSE)
  BY OwnPaths, DefaultAllows, RulePrefixes DEF Treated, Mux, gatewayTrustSkipped, Is2
<1>3. Treated(SignInDev, config.devLogin, "gateway", FALSE)
  <2>1. "auth/" \in Token
    BY DEF Token
  <2>2. SignInDev \notin {Healthz, SignInPath, CallbackPath, SignOutPath, Webhook, Home}
    BY OwnPaths, InternalPaths DEF Is2, Is3, Is4
  <2>3. ~IsPrefix(Business("ping"), SignInDev) /\ ~IsPrefix(<<"/", "admin">>, SignInDev)
    BY OwnPaths, Rules3
  <2>4. ~IsPrefix(<<"/", "v1/", "auth/">>, SignInDev) /\ ~IsPrefix(<<"/", "internal/">>, SignInDev)
    BY <2>1, OwnPaths, Rules3
  <2> QED
    BY <2>2, <2>3, <2>4, DefaultAllows DEF Treated, Mux, gatewayTrustSkipped
<1>4. Treated(AdminItems, TRUE, "admin files", FALSE)
  <2>1. AdminItems \notin {Healthz, SignInPath, SignInDev, CallbackPath, SignOutPath}
    BY OwnPaths DEF Is2, Is3, Is4
  <2>2. IsPrefix(<<"/", "admin">>, AdminItems) /\ IsPrefix(<<"/", "admin", "/">>, AdminItems)
    BY OwnPaths, Rules4
  <2>3. ~IsPrefix(<<"/", "internal/">>, AdminItems)
    BY OwnPaths, Rules4
  <2> QED
    BY <2>1, <2>2, <2>3, DefaultAllows DEF Treated, Mux, gatewayTrustSkipped
<1>5. Treated(Home, TRUE, "site", FALSE)
  BY OwnPaths, DefaultAllows, RulePrefixes DEF Treated, Mux, IsAPIPath, gatewayTrustSkipped, Is2, Is3, Is4
<1> QED
  BY <1>1, <1>2, <1>3, <1>4, <1>5

\* The route of a path that one rule matches.
LEMMA OneRoute ==
  ASSUME NEW w \in Seq(Token), NEW r \in Routes, IsPrefix(r.prefix, w),
         \A x \in Routes : IsPrefix(x.prefix, w) => x = r
  PROVE  Router(w) = r.to
<1> DEFINE hits == {x \in Routes : IsPrefix(x.prefix, w)}
           longest == {x \in hits : \A y \in hits : Len(y.prefix) <= Len(x.prefix)}
<1>1. hits = {r}
  OBVIOUS
<1>2. Len(r.prefix) <= Len(r.prefix)
  <2>1. {"/", "internal/", "webhooks/", "v1/", "users/", "business/", "files/", "auth/", "audit/"} \subseteq Token
    BY DEF Token
  <2>2. Internal(<<"webhooks/">>) = <<"/", "internal/", "webhooks/">>
    BY <2>1, InternalIs
  <2>3. Len(r.prefix) = 3
    BY <2>1, <2>2 DEF Routes
  <2> QED
    BY <2>3
<1>3. longest = {r}
  BY <1>1, <1>2
<1>4. (CHOOSE x \in longest : TRUE) = r
  BY <1>3
<1> QED
  BY <1>1, <1>4 DEF Router

\* A route under /v1/ is told by the third token of its prefix.
LEMMA RouteOf ==
  ASSUME NEW x \in Routes
  PROVE  /\ x = [prefix |-> x.prefix, to |-> x.to]
         /\ \/ x.prefix = Internal(<<"webhooks/">>)
            \/ /\ x.prefix = <<"/", "v1/", x.prefix[3]>>
               /\ <<x.prefix[3], x.to>> \in
                     {<<"users/", "user-service">>, <<"business/", "business-service">>,
                      <<"files/", "file-service">>, <<"auth/", "auth-service">>,
                      <<"audit/", "audit-service">>}
  BY DEF Routes

\* A route under /v1/ matches by its third token.
LEMMA V1Prefix ==
  ASSUME NEW w \in Seq(Token), NEW x \in Token
  PROVE  IsPrefix(<<"/", "v1/", x>>, w) <=> Len(w) >= 3 /\ w[1] = "/" /\ w[2] = "v1/" /\ w[3] = x
<1>1. "/" \in Token /\ "v1/" \in Token
  BY DEF Token
<1> QED
  BY <1>1, Prefix3

\* The API's paths under /v1/: who serves one, by its third token.
LEMMA ServedUnderV1 ==
  ASSUME NEW w, NEW y \in Token, NEW z \in Token, Is4(w, "v1/", y, z),
         NEW to, [prefix |-> <<"/", "v1/", y>>, to |-> to] \in Routes
  PROVE  Mux(w) = to /\ ~gatewayTrustSkipped(w)
<1> DEFINE r == [prefix |-> <<"/", "v1/", y>>, to |-> to]
<1>1. w \notin {Healthz, SignInPath, SignInDev, CallbackPath, SignOutPath}
  BY OwnPaths DEF Is2, Is3, Is4
<1>2. /\ ~IsPrefix(<<"/", "internal/">>, w) /\ ~IsPrefix(Internal(<<"webhooks/">>), w)
      /\ ~IsPrefix(<<"/", "admin", "/">>, w)
  BY Rules4
<1>3. IsPrefix(<<"/", "v1/">>, w)
  BY Rules4
<1>4. ASSUME NEW x \in Token
      PROVE  IsPrefix(<<"/", "v1/", x>>, w) <=> x = y
  BY V1Prefix DEF Is4
<1>5. IsPrefix(r.prefix, w)
  BY <1>4
<1>6. ASSUME NEW x \in Routes, IsPrefix(x.prefix, w)
      PROVE  x = r
  <2>1. {"users/", "business/", "files/", "auth/", "audit/"} \subseteq Token
    BY DEF Token
  <2>2. x.prefix[3] \in Token /\ x.prefix = <<"/", "v1/", x.prefix[3]>>
    BY <1>2, <1>6, <2>1, RouteOf
  <2>3. x.prefix[3] = y
    BY <1>4, <1>6, <2>2
  <2>4. x.prefix = r.prefix
    BY <2>2, <2>3
  <2>5. x.to = r.to
    BY <1>2, <1>5, <1>6, <2>3, <2>4, RouteOf
  <2> QED
    BY <2>4, <2>5, RouteOf
<1>7. Router(w) = to
  BY <1>5, <1>6, OneRoute DEF Is4
<1> QED
  BY <1>1, <1>2, <1>3, <1>7 DEF Mux, IsAPIPath, gatewayTrustSkipped

\* Two paths of four tokens are the same when their tokens are.
LEMMA Same4 ==
  ASSUME NEW v, NEW a, NEW b, NEW c, Is4(v, a, b, c),
         NEW w, NEW x, NEW y, NEW z, Is4(w, x, y, z)
  PROVE  v = w <=> a = x /\ b = y /\ c = z
<1>1. v = w => a = x /\ b = y /\ c = z
  BY DEF Is4
<1>2. ASSUME a = x, b = y, c = z
      PROVE  v = w
  <2>1. \A i \in 1..Len(v) : v[i] = w[i]
    BY <1>2 DEF Is4
  <2> QED
    BY <2>1, SeqEqual DEF Is4
<1> QED
  BY <1>1, <1>2

\* The anonymous paths and the public ones among those of four tokens.
LEMMA Anonymous4 ==
  ASSUME NEW w, NEW a, NEW b, NEW c, Is4(w, a, b, c)
  PROVE  /\ Allows(Defaults, w) <=>
              \/ a = "internal/" /\ b = "webhooks/" /\ c = "logto"
              \/ a = "v1/" /\ b = "business/" /\ c = "ping"
              \/ a = "admin"
              \/ a = "v1/" /\ b = "auth/"
         /\ w \in Public <=>
              \/ a = "admin" /\ b = "/" /\ c = "items"
              \/ a = "v1/" /\ b = "business/" /\ c = "ping"
              \/ a = "v1/" /\ b = "auth/" /\ c \in {"miniprogram/login", "jwks"}
              \/ a = "internal/" /\ b = "webhooks/" /\ c = "logto"
<1>1. w \notin {Healthz, SignInPath, CallbackPath, SignOutPath, Home, SignInDev}
  BY OwnPaths DEF Is2, Is3, Is4
<1>2. w = Webhook <=> a = "internal/" /\ b = "webhooks/" /\ c = "logto"
  BY InternalPaths, Same4
<1>3. w = AdminItems <=> a = "admin" /\ b = "/" /\ c = "items"
  BY OwnPaths, Same4
<1>4. {"ping", "miniprogram/login", "jwks"} \subseteq Token
  BY DEF Token
<1>5. w = Business("ping") <=> a = "v1/" /\ b = "business/" /\ c = "ping"
  BY <1>4, ApiPaths, Same4
<1>6. w = Auth("miniprogram/login") <=> a = "v1/" /\ b = "auth/" /\ c = "miniprogram/login"
  BY <1>4, ApiPaths, Same4
<1>7. w = Auth("jwks") <=> a = "v1/" /\ b = "auth/" /\ c = "jwks"
  BY <1>4, ApiPaths, Same4
<1>8. Allows(Defaults, w) <=>
              \/ a = "internal/" /\ b = "webhooks/" /\ c = "logto"
              \/ a = "v1/" /\ b = "business/" /\ c = "ping"
              \/ a = "admin"
              \/ a = "v1/" /\ b = "auth/"
  BY <1>1, <1>2, DefaultAllows, Rules4
<1> QED
  BY <1>1, <1>2, <1>3, <1>5, <1>6, <1>7, <1>8 DEF Public

\* What EndpointsGuarded needs of an endpoint: the anonymous rules are the public
\* paths, the mux leads to the endpoint unless it is internal (the webhook's apart),
\* GatewayTrust is left out only for what InternalAuth checks, nothing that is behind
\* a service's check is public, and the dev sign-in is while it is switched on.
Fits(e) ==
  /\ e.guard \in {"none", "dev", "user", "admin", "internal"}
  /\ Allows(Defaults, e.path) <=> e.path \in Public
  /\ (e.guard = "internal" => e.path = Webhook) <=> Mux(e.path) = e.at
  /\ e.at \in OwnHandler => e.guard \in {"none", "dev"}
  /\ e.guard = "dev" => e.at \in OwnHandler /\ (e.path \in Public <=> config.devLogin)
  /\ e.at \notin OwnHandler /\ gatewayTrustSkipped(e.path) => e.guard = "internal"
  /\ e.guard \in {"user", "admin"} => e.path \notin Public

\* The gateway's own endpoints, the services', and the internal ones.
LEMMA OwnFit ==
  /\ \A p \in {Healthz, SignInPath, CallbackPath, SignOutPath} :
        Fits([path |-> p, at |-> "gateway", guard |-> "none"])
  /\ Fits([path |-> SignInDev, at |-> "gateway", guard |-> "dev"])
  /\ Fits([path |-> AdminItems, at |-> "admin files", guard |-> "none"])
  /\ Fits([path |-> Home, at |-> "site", guard |-> "none"])
<1>1. {Healthz, SignInPath, CallbackPath, SignOutPath, AdminItems, Home} \subseteq Public
  BY DEF Public
<1>2. SignInDev \in Public <=> config.devLogin
  <2>1. SignInDev \notin {Healthz, SignInPath, CallbackPath, SignOutPath, Home, AdminItems, Webhook}
    BY OwnPaths, InternalPaths DEF Is2, Is3, Is4
  <2>2. {"ping", "miniprogram/login", "jwks"} \subseteq Token
    BY DEF Token
  <2>3. SignInDev \notin {Business("ping"), Auth("miniprogram/login"), Auth("jwks")}
    BY <2>2, OwnPaths, ApiPaths DEF Is3, Is4
  <2> QED
    BY <2>1, <2>3 DEF Public
<1> QED
  BY <1>1, <1>2, GatewayOwn DEF Fits, Treated, OwnHandler

\* An endpoint under /v1/ fits when it is behind a check exactly if it is neither
\* the ping nor auth-service's.
LEMMA V1Fits ==
  ASSUME NEW w, NEW y \in Token, NEW z \in Token, Is4(w, "v1/", y, z),
         NEW to, [prefix |-> <<"/", "v1/", y>>, to |-> to] \in Routes, to \notin OwnHandler,
         NEW g \in {"none", "user", "admin"},
         y = "auth/" => z \in {"miniprogram/login", "jwks"},
         g = "none" <=> y = "auth/" \/ (y = "business/" /\ z = "ping")
  PROVE  Fits([path |-> w, at |-> to, guard |-> g])
<1>1. Mux(w) = to /\ ~gatewayTrustSkipped(w)
  BY ServedUnderV1
<1>2. /\ Allows(Defaults, w) <=> y = "auth/" \/ (y = "business/" /\ z = "ping")
      /\ w \in Public <=> y = "auth/" \/ (y = "business/" /\ z = "ping")
  <2>1. /\ Allows(Defaults, w) <=> (y = "business/" /\ z = "ping") \/ y = "auth/"
        /\ w \in Public <=> \/ y = "business/" /\ z = "ping"
                            \/ y = "auth/" /\ z \in {"miniprogram/login", "jwks"}
    BY Anonymous4
  <2> QED
    BY <2>1
<1> QED
  BY <1>1, <1>2 DEF Fits

LEMMA ApiFit ==
  /\ Fits([path |-> User("me"), at |-> "user-service", guard |-> "user"])
  /\ Fits([path |-> User(""), at |-> "user-service", guard |-> "admin"])
  /\ Fits([path |-> Business("ping"), at |-> "business-service", guard |-> "none"])
  /\ Fits([path |-> Business("items"), at |-> "business-service", guard |-> "user"])
  /\ Fits([path |-> File(""), at |-> "file-service", guard |-> "user"])
  /\ Fits([path |-> File("id"), at |-> "file-service", guard |-> "user"])
  /\ Fits([path |-> Auth("miniprogram/login"), at |-> "auth-service", guard |-> "none"])
  /\ Fits([path |-> Auth("jwks"), at |-> "auth-service", guard |-> "none"])
  /\ Fits([path |-> AuditEvents, at |-> "audit-service", guard |-> "admin"])
<1> DEFINE Route(y, to) == [prefix |-> <<"/", "v1/", y>>, to |-> to] \in Routes
<1>1. {"me", "", "ping", "items", "id", "miniprogram/login", "jwks", "events",
       "users/", "business/", "files/", "auth/", "audit/"} \subseteq Token
  BY DEF Token
<1>2. /\ Route("users/", "user-service") /\ Route("business/", "business-service")
      /\ Route("files/", "file-service") /\ Route("auth/", "auth-service")
      /\ Route("audit/", "audit-service")
  BY DEF Routes
<1>3. {"user-service", "business-service", "file-service", "auth-service", "audit-service"}
         \cap OwnHandler = {}
  BY DEF OwnHandler
<1>4. ASSUME NEW w, NEW y \in Token, NEW z \in Token, Is4(w, "v1/", y, z),
             NEW to, Route(y, to), to \notin OwnHandler,
             NEW g \in {"none", "user", "admin"},
             y = "auth/" => z \in {"miniprogram/login", "jwks"},
             g = "none" <=> y = "auth/" \/ (y = "business/" /\ z = "ping")
      PROVE  Fits([path |-> w, at |-> to, guard |-> g])
  BY <1>4, V1Fits
<1> HIDE DEF Route
<1>5. /\ Is4(User("me"), "v1/", "users/", "me") /\ Is4(User(""), "v1/", "users/", "")
      /\ Is4(Business("ping"), "v1/", "business/", "ping")
      /\ Is4(Business("items"), "v1/", "business/", "items")
      /\ Is4(File(""), "v1/", "files/", "") /\ Is4(File("id"), "v1/", "files/", "id")
      /\ Is4(Auth("miniprogram/login"), "v1/", "auth/", "miniprogram/login")
      /\ Is4(Auth("jwks"), "v1/", "auth/", "jwks")
      /\ Is4(AuditEvents, "v1/", "audit/", "events")
  BY <1>1, ApiPaths
<1>6. Fits([path |-> User("me"), at |-> "user-service", guard |-> "user"])
  BY <1>1, <1>2, <1>3, <1>4, <1>5
<1>7. Fits([path |-> User(""), at |-> "user-service", guard |-> "admin"])
  BY <1>1, <1>2, <1>3, <1>4, <1>5
<1>8. Fits([path |-> Business("ping"), at |-> "business-service", guard |-> "none"])
  BY <1>1, <1>2, <1>3, <1>4, <1>5
<1>9. Fits([path |-> Business("items"), at |-> "business-service", guard |-> "user"])
  BY <1>1, <1>2, <1>3, <1>4, <1>5
<1>10. Fits([path |-> File(""), at |-> "file-service", guard |-> "user"])
  BY <1>1, <1>2, <1>3, <1>4, <1>5
<1>11. Fits([path |-> File("id"), at |-> "file-service", guard |-> "user"])
  BY <1>1, <1>2, <1>3, <1>4, <1>5
<1>12. Fits([path |-> Auth("miniprogram/login"), at |-> "auth-service", guard |-> "none"])
  BY <1>1, <1>2, <1>3, <1>4, <1>5
<1>13. Fits([path |-> Auth("jwks"), at |-> "auth-service", guard |-> "none"])
  BY <1>1, <1>2, <1>3, <1>4, <1>5
<1>14. Fits([path |-> AuditEvents, at |-> "audit-service", guard |-> "admin"])
  BY <1>1, <1>2, <1>3, <1>4, <1>5
<1> QED
  BY <1>6, <1>7, <1>8, <1>9, <1>10, <1>11, <1>12, <1>13, <1>14

LEMMA InternalFit ==
  /\ Fits([path |-> Webhook, at |-> "auth-service", guard |-> "internal"])
  /\ Fits([path |-> Internal(<<"identity/", "resolve">>), at |-> "auth-service", guard |-> "internal"])
  /\ Fits([path |-> Internal(<<"audit/", "events">>), at |-> "audit-service", guard |-> "internal"])
  /\ Fits([path |-> Internal(<<"job-effects">>), at |-> "worker", guard |-> "internal"])
<1> DEFINE Resolve == Internal(<<"identity/", "resolve">>)
           Ingest == Internal(<<"audit/", "events">>)
           Effects == Internal(<<"job-effects">>)
<1>1. /\ Is4(Webhook, "internal/", "webhooks/", "logto")
      /\ Is4(Resolve, "internal/", "identity/", "resolve")
      /\ Is4(Ingest, "internal/", "audit/", "events")
      /\ Is3(Effects, "internal/", "job-effects")
  BY InternalPaths
<1> HIDE DEF Resolve, Ingest, Effects
<1>2. ASSUME NEW w \in Seq(Token), IsPrefix(<<"/", "internal/">>, w), ~IsPrefix(<<"/", "v1/">>, w)
      PROVE  \A x \in Routes : IsPrefix(x.prefix, w) => x.prefix = Internal(<<"webhooks/">>)
  <2>1. {"users/", "business/", "files/", "auth/", "audit/"} \subseteq Token
    BY DEF Token
  <2>2. ASSUME NEW y \in Token
        PROVE  ~IsPrefix(<<"/", "v1/", y>>, w)
    BY <1>2, V1Prefix, RulePrefixes
  <2>3. ASSUME NEW x \in Routes, IsPrefix(x.prefix, w), x.prefix # Internal(<<"webhooks/">>)
        PROVE  FALSE
    BY <2>1, <2>2, <2>3, RouteOf
  <2> QED
    BY <2>3
<1>3. {Webhook, Resolve, Ingest, Effects} \subseteq Seq(Token)
  BY <1>1 DEF Is3, Is4
<1>4. \A w \in {Webhook, Resolve, Ingest, Effects} :
         IsPrefix(<<"/", "internal/">>, w) /\ ~IsPrefix(<<"/", "v1/">>, w) /\ ~IsPrefix(<<"/", "admin", "/">>, w)
  BY <1>1, Rules3, Rules4
<1>5. \A w \in {Webhook, Resolve, Ingest, Effects} :
         w \notin {Healthz, SignInPath, SignInDev, CallbackPath, SignOutPath, Home, AdminItems}
  BY <1>1, OwnPaths DEF Is2, Is3, Is4
<1>6. \A w \in {Webhook, Resolve, Ingest, Effects} :
         Mux(w) = Router(w) /\ gatewayTrustSkipped(w)
  BY <1>4, <1>5 DEF Mux, IsAPIPath, gatewayTrustSkipped
<1>7. Router(Webhook) = "auth-service"
  <2> DEFINE r == [prefix |-> Internal(<<"webhooks/">>), to |-> "auth-service"]
  <2>1. r \in Routes
    BY DEF Routes
  <2>2. IsPrefix(r.prefix, Webhook)
    BY <1>1, Rules4
  <2>3. \A x \in Routes : x.prefix = Internal(<<"webhooks/">>) => x = r
    <3>1. {"/", "v1/", "internal/", "webhooks/", "users/", "business/", "files/", "auth/", "audit/"} \subseteq Token
      BY DEF Token
    <3>2. Internal(<<"webhooks/">>) = <<"/", "internal/", "webhooks/">>
      BY <3>1, InternalIs
    <3> QED
      BY <3>2 DEF Routes
  <2>4. \A x \in Routes : IsPrefix(x.prefix, Webhook) => x = r
    BY <1>2, <1>3, <1>4, <2>3
  <2>5. Router(Webhook) = r.to
    BY <1>3, <2>1, <2>2, <2>4, OneRoute
  <2> QED
    BY <2>5
<1>8. \A w \in {Resolve, Ingest, Effects} : Router(w) = "nobody"
  <2>1. \A w \in {Resolve, Ingest, Effects} : ~IsPrefix(Internal(<<"webhooks/">>), w)
    BY <1>1, Rules3, Rules4
  <2>2. \A w \in {Resolve, Ingest, Effects} : {x \in Routes : IsPrefix(x.prefix, w)} = {}
    BY <1>2, <1>3, <1>4, <2>1
  <2> QED
    BY <2>2 DEF Router
<1>9. /\ Allows(Defaults, Webhook) /\ Webhook \in Public
      /\ \A w \in {Resolve, Ingest} : ~Allows(Defaults, w) /\ w \notin Public /\ w # Webhook
  BY <1>1, Anonymous4, Same4
<1>10. ~Allows(Defaults, Effects) /\ Effects \notin Public /\ Effects # Webhook
  <2>1. Effects # Webhook
    BY <1>1 DEF Is3, Is4
  <2>2. ~Allows(Defaults, Effects)
    <3>1. Effects # SignInDev
      BY <1>5
    <3> QED
      BY <1>1, <1>5, <2>1, <3>1, DefaultAllows, Rules3
  <2>3. {"ping", "miniprogram/login", "jwks"} \subseteq Token
    BY DEF Token
  <2>4. Effects \notin {Business("ping"), Auth("miniprogram/login"), Auth("jwks")}
    BY <1>1, <2>3, ApiPaths DEF Is3, Is4
  <2> QED
    BY <1>5, <2>1, <2>2, <2>4 DEF Public
<1>11. Fits([path |-> Webhook, at |-> "auth-service", guard |-> "internal"])
  BY <1>6, <1>7, <1>9 DEF Fits, OwnHandler
<1>12. Fits([path |-> Resolve, at |-> "auth-service", guard |-> "internal"])
  BY <1>6, <1>8, <1>9 DEF Fits, OwnHandler
<1>13. Fits([path |-> Ingest, at |-> "audit-service", guard |-> "internal"])
  BY <1>6, <1>8, <1>9 DEF Fits, OwnHandler
<1>14. Fits([path |-> Effects, at |-> "worker", guard |-> "internal"])
  BY <1>6, <1>8, <1>10 DEF Fits, OwnHandler
<1> QED
  BY <1>11, <1>12, <1>13, <1>14 DEF Resolve, Ingest, Effects

\* So every endpoint fits.
LEMMA EveryEndpointFits == \A e \in Endpoints : Fits(e)
  BY OwnFit, ApiFit, InternalFit DEF Endpoints

\* An endpoint that fits is reached by those it is meant for and nobody else.
LEMMA FitIsGuarded ==
  ASSUME config \in Configs, NEW e, Fits(e), NEW caller \in Callers
  PROVE  IF ~config.token
         THEN (e.guard = "internal" \/ (e.guard = "dev" /\ ~config.devLogin))
                => ~Reaches(Defaults, caller, e)
         ELSE IF caller = "direct"
              THEN e.at \notin OwnHandler => ~Reaches(Defaults, caller, e)
              ELSE Reaches(Defaults, caller, e) <=> MeantFor(e, caller)
<1>1. config.token \in BOOLEAN
  BY DEF Configs
<1>2. CASE ~config.token
  BY <1>2 DEF Reaches, Passes, DevSignIn, InternalAuth, Fits
<1>3. CASE config.token /\ caller = "direct"
  BY <1>3 DEF Reaches, Passes, GatewayTrust, InternalAuth, Trusted, Fits
<1>4. CASE config.token /\ caller # "direct"
  <2>1. /\ Trusted(caller) /\ GatewayTrust(caller, e.path) /\ InternalAuth(caller)
        /\ e.guard = "internal" => Passes(e.guard, caller)
        /\ e.guard = "none" => Passes(e.guard, caller)
        /\ e.guard = "dev" => (Passes(e.guard, caller) <=> config.devLogin)
        /\ e.guard = "user" => (Passes(e.guard, caller) <=> caller \in {"user", "admin"})
        /\ e.guard = "admin" => (Passes(e.guard, caller) <=> caller = "admin")
    BY <1>4 DEF Passes, DevSignIn, GatewayTrust, InternalAuth, Trusted, HasUser, HasAdmin, Authenticated
  <2>2. /\ e.guard \in {"none", "dev", "user", "admin", "internal"}
        /\ e.guard = "dev" => (e.path \in Public <=> config.devLogin)
        /\ (e.guard = "internal" => e.path = Webhook) <=> Mux(e.path) = e.at
        /\ Allows(Defaults, e.path) <=> e.path \in Public
        /\ e.guard \in {"user", "admin"} => e.path \notin Public
        /\ Webhook \in Public
    BY DEF Fits, Public
  <2>3. Reaches(Defaults, caller, e) <=>
           /\ Authenticate(Defaults, caller, e.path)
           /\ e.guard = "internal" => e.path = Webhook
           /\ Passes(e.guard, caller)
    BY <1>4, <2>1, <2>2 DEF Reaches
  <2>4. CASE caller = "badBearer"
    BY <2>3, <2>4, <1>4 DEF Authenticate, MeantFor
  <2>5. CASE caller = "anonymous"
    BY <2>1, <2>2, <2>3, <2>5, <1>4 DEF Authenticate, Authenticated, MeantFor
  <2>6. CASE caller = "user"
    BY <2>1, <2>2, <2>3, <2>6, <1>4 DEF Authenticate, Authenticated, MeantFor
  <2>7. CASE caller = "admin"
    BY <2>1, <2>2, <2>3, <2>7, <1>4 DEF Authenticate, Authenticated, MeantFor
  <2> QED
    BY <1>4, <2>4, <2>5, <2>6, <2>7 DEF Callers
<1> QED
  BY <1>1, <1>2, <1>3, <1>4

\* The path rules, the mux, the route table, the internal token and the services' own
\* checks agree in every configuration: every endpoint is reached through the gateway
\* by those it is meant for and by nobody else, and round the gateway by nobody; the
\* dev sign-in answers nobody while it is switched off.
THEOREM EndpointsAreGuarded == Spec => []EndpointsGuarded
<1>1. TypeOK => EndpointsGuarded
  BY EveryEndpointFits, FitIsGuarded DEF TypeOK, EndpointsGuarded, Defaults
<1> QED
  BY <1>1, TypeCorrect, PTL

================================================================================
