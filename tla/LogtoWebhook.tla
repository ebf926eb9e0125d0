------------------------------ MODULE LogtoWebhook ------------------------------
(***************************************************************************)
(* auth-service's handler of Logto webhooks: verify, record the delivery   *)
(* key, resolve the user, emit the audit event, revoke a deleted user.     *)
(*                                                                         *)
(* Logto may send a delivery again after an error, a time-out or a lost    *)
(* answer, so several calls of one delivery may run at once; each effect   *)
(* is a step.  Redis' expiry of a revocation (30 days) is not modelled.    *)
(***************************************************************************)
EXTENDS Naturals

CONSTANTS
  Calls,        \* requests to POST /internal/webhooks/logto
  Deliveries,   \* webhook bodies, each with its own payload
  Keys,         \* delivery keys: hookId:createdAt:event
  LogtoUsers,   \* Logto user ids
  None

VARIABLES
  payload,      \* payload[d]: the body of delivery d
  genuine,      \* the deliveries Logto signs
  db,           \* auth-service is connected to Postgres
  redis,        \* auth-service is connected to Redis
  of,           \* of[c]: the delivery call c carries
  pc,           \* pc[c]: where the handler of c is, or how it ended
  platformUserID,  \* platformUserID[c]: the user resolved, None for ""
  recorded,     \* webhook_deliveries
  audit,        \* audit[k]: the audit event whose id is the hash of key k
  revoked       \* revoked JWT subjects

config == <<payload, genuine, db, redis>>
vars == <<config, of, pc, platformUserID, recorded, audit, revoked>>

ASSUME WebhookAssumption ==
  None \notin Deliveries \cup LogtoUsers

\* PostSignIn stands for the events that are audited and nothing else, Other for
\* those auditTypeForEvent does not know.
Events == {"PostSignIn", "User.Deleted", "Other"}

Payload == [key : Keys, event : Events, user : LogtoUsers \cup {None}]

\* JWT subjects of a user: its Logto id and its platform id.
Subjects == {"logto", "platform"} \X LogtoUsers

AuditEvent == [delivery : Deliveries, actor : LogtoUsers \cup {None}]

ASSUME EventAssumption == None \notin AuditEvent

Applying == {"resolve", "emit", "revokeLogto", "revokePlatform"}
Working == {"tryRecord"} \cup Applying
Ended == {"rejected", "duplicate", "accepted", "error"}

TypeOK ==
  /\ payload \in [Deliveries -> Payload]
  /\ genuine \subseteq Deliveries
  /\ db \in BOOLEAN /\ redis \in BOOLEAN
  /\ of \in [Calls -> Deliveries \cup {None}]
  /\ pc \in [Calls -> {"idle"} \cup Working \cup Ended]
  /\ platformUserID \in [Calls -> LogtoUsers \cup {None}]
  /\ recorded \subseteq Keys
  /\ audit \in [Keys -> AuditEvent \cup {None}]
  /\ revoked \subseteq Subjects
  /\ \A c \in Calls : platformUserID[c] # None => platformUserID[c] = payload[of[c]].user

\* The key contains the event: deliveries with one key have one event.
Init ==
  /\ payload \in [Deliveries -> Payload]
  /\ \A d, e \in Deliveries :
        /\ payload[d].key = payload[e].key => payload[d].event = payload[e].event
        /\ payload[d] = payload[e] => d = e
  /\ genuine \in SUBSET Deliveries
  /\ db \in BOOLEAN /\ redis \in BOOLEAN
  /\ of = [c \in Calls |-> None]
  /\ pc = [c \in Calls |-> "idle"]
  /\ platformUserID = [c \in Calls |-> None]
  /\ recorded = {}
  /\ audit = [k \in Keys |-> None]
  /\ revoked = {}

--------------------------------------------------------------------------------

Body(c) == payload[of[c]]

Goto(c, l) == pc' = [pc EXCEPT ![c] = l]

\* The signature is that of Logto's key over the body.
VerifySignature(d) == d \in genuine

Receive_RecordsFirst(c, d) ==
  /\ pc[c] = "idle"
  /\ of' = [of EXCEPT ![c] = d]
  /\ recorded' = IF db THEN recorded \cup {payload[d].key} ELSE recorded
  /\ Goto(c, IF db /\ payload[d].key \in recorded THEN "duplicate"
             ELSE IF VerifySignature(d) THEN "resolve" ELSE "rejected")
  /\ UNCHANGED <<config, platformUserID, audit, revoked>>
Receive(c, d) ==
  /\ pc[c] = "idle"
  /\ of' = [of EXCEPT ![c] = d]
  /\ Goto(c, IF ~VerifySignature(d) THEN "rejected"
             ELSE IF db THEN "tryRecord" ELSE "resolve")
  /\ UNCHANGED <<config, platformUserID, recorded, audit, revoked>>

\* The body cannot be read or ParsePayload refuses it, or no key is configured.
Refuse(c) ==
  /\ pc[c] = "idle"
  /\ Goto(c, "rejected")
  /\ UNCHANGED <<config, of, platformUserID, recorded, audit, revoked>>

\* INSERT ... ON CONFLICT DO NOTHING: did it insert?
First_Always(k) == TRUE
First(k) == k \notin recorded

TryRecord(c) ==
  /\ pc[c] = "tryRecord"
  /\ recorded' = recorded \cup {Body(c).key}
  /\ Goto(c, IF First(Body(c).key) THEN "resolve" ELSE "duplicate")
  /\ UNCHANGED <<config, of, platformUserID, audit, revoked>>

\* ResolveLogtoUser (IdentityStore) gives the one platform user of a Logto user;
\* its failure is only logged.
Resolve(c) ==
  /\ pc[c] = "resolve"
  /\ \E u \in {None} \cup (IF db THEN {Body(c).user} ELSE {}) :
        platformUserID' = [platformUserID EXCEPT ![c] = u]
  /\ Goto(c, "emit")
  /\ UNCHANGED <<config, of, recorded, audit, revoked>>

\* audit-service keeps the first event with an id.
Store(k, e) == audit' = [audit EXCEPT ![k] = IF @ = None THEN e ELSE @]

AfterEmit(c) ==
  IF redis /\ Body(c).event = "User.Deleted" THEN "revokeLogto" ELSE "accepted"

Emit(c) ==
  /\ pc[c] = "emit"
  /\ IF Body(c).event = "Other"
     THEN UNCHANGED audit
     ELSE Store(Body(c).key, [delivery |-> of[c], actor |-> platformUserID[c]])
  /\ Goto(c, AfterEmit(c))
  /\ UNCHANGED <<config, of, platformUserID, recorded, revoked>>

Revoke(subjects) == revoked' = revoked \cup subjects

RevokeLogto(c) ==
  /\ pc[c] = "revokeLogto"
  /\ Revoke({<<"logto", u>> : u \in {Body(c).user} \ {None}})
  /\ Goto(c, "revokePlatform")
  /\ UNCHANGED <<config, of, platformUserID, recorded, audit>>

RevokePlatform(c) ==
  /\ pc[c] = "revokePlatform"
  /\ Revoke({<<"platform", u>> : u \in {platformUserID[c]} \ {None}})
  /\ Goto(c, "accepted")
  /\ UNCHANGED <<config, of, platformUserID, recorded, audit>>

\* An error of Postgres, audit-service or Redis answers 500; the process may also
\* die, and Logto sees no answer.
Fail_EmitIgnored(c) ==
  /\ pc[c] \in Working
  /\ Goto(c, IF pc[c] = "emit" THEN AfterEmit(c) ELSE "error")
  /\ UNCHANGED <<config, of, platformUserID, recorded, audit, revoked>>
Fail_Unrevokes(c) ==
  /\ pc[c] \in Working
  /\ Goto(c, "error")
  /\ revoked' = IF pc[c] = "revokePlatform" THEN revoked \ {<<"logto", Body(c).user>>} ELSE revoked
  /\ UNCHANGED <<config, of, platformUserID, recorded, audit>>
Fail(c) ==
  /\ pc[c] \in Working
  /\ Goto(c, "error")
  /\ UNCHANGED <<config, of, platformUserID, recorded, audit, revoked>>

\* The effect of the failed step took place all the same: the answer was lost.
LostAnswer(c) ==
  /\ \/ /\ pc[c] = "tryRecord"
        /\ recorded' = recorded \cup {Body(c).key}
        /\ UNCHANGED <<audit, revoked>>
     \/ /\ pc[c] = "emit" /\ Body(c).event # "Other"
        /\ Store(Body(c).key, [delivery |-> of[c], actor |-> platformUserID[c]])
        /\ UNCHANGED <<recorded, revoked>>
     \/ /\ pc[c] = "revokePlatform"
        /\ Revoke({<<"platform", u>> : u \in {platformUserID[c]} \ {None}})
        /\ UNCHANGED <<recorded, audit>>
  /\ Goto(c, "error")
  /\ UNCHANGED <<config, of, platformUserID>>

Next ==
  \/ \E c \in Calls, d \in Deliveries : Receive(c, d)
  \/ \E c \in Calls :
        \/ Refuse(c) \/ TryRecord(c) \/ Resolve(c) \/ Emit(c)
        \/ RevokeLogto(c) \/ RevokePlatform(c) \/ Fail(c) \/ LostAnswer(c)

Spec == Init /\ [][Next]_vars

Revocations == INSTANCE RevocationList WITH Ids <- Subjects, enabled <- redis

--------------------------------------------------------------------------------
(***************************************************************************)
(* Properties.                                                             *)
(***************************************************************************)

\* The delivery log admits one call per key: among calls of one key, retries and
\* concurrent copies included, one at most goes on to the effects.
OneCallPerKey ==
  db => \A c, d \in Calls :
           (/\ pc[c] \in Applying \cup {"accepted"}
            /\ pc[d] \in Applying \cup {"accepted"}
            /\ Body(c).key = Body(d).key) => c = d

\* "accepted" means done: the audit event of this very delivery is stored and a
\* deleted user is revoked under the Logto id and the platform id that was resolved.
\* And only what Logto signed has effects: an audit event is that of a genuine
\* delivery, and a subject is revoked only because Logto deleted its user.
AcceptedIsApplied ==
  /\ \A c \in Calls : pc[c] = "accepted" =>
        /\ (db /\ Body(c).event # "Other") =>
              audit[Body(c).key] = [delivery |-> of[c], actor |-> platformUserID[c]]
        /\ (redis /\ Body(c).event = "User.Deleted" /\ Body(c).user # None) =>
              /\ <<"logto", Body(c).user>> \in revoked
              /\ platformUserID[c] # None => <<"platform", Body(c).user>> \in revoked
  /\ \A k \in Keys : audit[k] # None =>
        audit[k].delivery \in genuine /\ payload[audit[k].delivery].key = k
  /\ \A s \in revoked :
        \E d \in genuine : payload[d].event = "User.Deleted" /\ payload[d].user = s[2]

\* A delivery is turned away as a duplicate only on account of another that Logto
\* signed, under the same key, whose call is at work, was accepted or ended in
\* an error: neither a forged request nor a refused one can shadow a delivery, and when
\* the one that was let in died on the way, Logto was not told that it succeeded.
DuplicateOfGenuine ==
  \A c \in Calls : pc[c] = "duplicate" =>
     \E d \in Calls :
        /\ pc[d] \in Applying \cup {"accepted", "error"}
        /\ of[d] \in genuine /\ Body(d).key = Body(c).key

\* Calls that overlap, fail between their two revocations or lose an answer leave the
\* blocklist as the gateway takes it to be: a platform id is revoked only after the
\* Logto id of its user, and nothing is ever taken off.
ImplementsRevocations == Revocations!Spec

\* deliveries.go: TryRecord "Returns false if already processed": a call answered
\* "duplicate" has another call of its key that is at work or was accepted.
DuplicateWasProcessed ==
  \A c \in Calls : pc[c] = "duplicate" =>
     \E d \in Calls :
        /\ pc[d] \in Applying \cup {"accepted"}
        /\ Body(d).key = Body(c).key

================================================================================
