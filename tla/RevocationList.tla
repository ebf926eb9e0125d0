------------------------------ MODULE RevocationList ------------------------------
(***************************************************************************)
(* The blocklist of JWT subjects, as auth-service and the gateway share it *)
(* (pkg/revocation): it only grows, one subject at a time, and a platform  *)
(* id is on it only after the Logto id of the same user.  LogtoWebhook     *)
(* implements it; GatewaySession takes its step for auth-service's.        *)
(***************************************************************************)
CONSTANT Ids    \* JWT subjects: pairs of a kind, "logto" or "platform", and a user

VARIABLES
  enabled,      \* there is a Redis to keep it in
  revoked       \* auth:revoked:sub:*

vars == <<enabled, revoked>>

Init == enabled \in BOOLEAN /\ revoked = {}

\* RevokeSubject, as applyRevocation calls it.
Revoke(x) ==
  /\ enabled
  /\ \/ x[1] = "logto"
     \/ x[1] = "platform" /\ <<"logto", x[2]>> \in revoked
  /\ revoked' = revoked \cup {x}
  /\ UNCHANGED enabled

Next == \E x \in Ids : Revoke(x)

Spec == Init /\ [][Next]_vars

================================================================================
