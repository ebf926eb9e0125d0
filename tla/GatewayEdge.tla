------------------------------- MODULE GatewayEdge -------------------------------
(***************************************************************************)
(* Requests at the gateway: the rate limiter is the outermost middleware   *)
(* of the chain; what it lets pass meets the rules of EdgeRules.           *)
(***************************************************************************)
EXTENDS RateLimit, EdgeRules

vars == <<limiterVars, config>>

TypeOK == LimiterTypeOK /\ config \in Configs

Init == LimiterInit /\ config \in Configs

\* The zone of a path and the client's address choose the quota.
QuotaOf(c, path) == <<IF isAuthPath(path) THEN "auth" ELSE "general", c>>

\* 429 or on to Authenticate.
Middleware(r, q) == \E ok \in BOOLEAN : Allow(r, q, ok)

Next ==
  /\ \/ \E r \in Replicas, q \in {QuotaOf(c, e.path) : c \in Clients, e \in Endpoints} :
           Middleware(r, q)
     \/ Tick
     \/ \E r \in Replicas : RestartReplica(r)
  /\ UNCHANGED config

Spec == Init /\ [][Next]_vars

==================================================================================
