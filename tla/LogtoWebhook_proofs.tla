-------------------------- MODULE LogtoWebhook_proofs --------------------------
(***************************************************************************)
(* Proofs about LogtoWebhook, for every set of calls, deliveries, keys and *)
(* users, with and without Postgres and Redis.                             *)
(*                                                                         *)
(* The delivery log is what the argument turns on: with Postgres a call is *)
(* past it only if its key is recorded (Logged), so a second call of the   *)
(* key is turned away, and an audit event under a key means that no call   *)
(* of that key has yet to emit (NotYetEmitted).  CallInv collects, for     *)
(* each place of the handler, the effects that are already there.          *)
(***************************************************************************)
EXTENDS LogtoWebhook, TLAPS

Admitted == Applying \cup {"accepted"}
PcValues == {"idle"} \cup Working \cup Ended

\* The effects a call has had where it is.
CallInv(c) ==
  /\ pc[c] = "idle" => platformUserID[c] = None
  /\ pc[c] \in Working \cup {"accepted"} => of[c] \in genuine
  /\ pc[c] \in {"revokeLogto", "revokePlatform"} => redis /\ Body(c).event = "User.Deleted"
  /\ (pc[c] \in {"revokeLogto", "revokePlatform", "accepted"} /\ db /\ Body(c).event # "Other") =>
        audit[Body(c).key] = [delivery |-> of[c], actor |-> platformUserID[c]]
  /\ (pc[c] = "revokePlatform" /\ Body(c).user # None) => <<"logto", Body(c).user>> \in revoked
  /\ (pc[c] = "accepted" /\ redis /\ Body(c).event = "User.Deleted" /\ Body(c).user # None) =>
        /\ <<"logto", Body(c).user>> \in revoked
        /\ platformUserID[c] # None => <<"platform", Body(c).user>> \in revoked

\* With Postgres: a call past the log has its key there.
Logged(c) == (db /\ pc[c] \in Admitted) => Body(c).key \in recorded

\* With Postgres: a call that is yet to emit finds no event under its key.
NotYetEmitted(c) == (db /\ pc[c] \in {"resolve", "emit"}) => audit[Body(c).key] = None

AuditLogged == db => \A k \in Keys : audit[k] # None => k \in recorded

\* Only what Logto signed has effects.
AuditGenuine ==
  \A k \in Keys : audit[k] # None =>
     audit[k].delivery \in genuine /\ payload[audit[k].delivery].key = k

RevokedGenuine ==
  \A s \in revoked :
     \E d \in genuine : payload[d].event = "User.Deleted" /\ payload[d].user = s[2]

Inv ==
  /\ TypeOK
  /\ \A c \in Calls : CallInv(c) /\ Logged(c) /\ NotYetEmitted(c)
  /\ AuditLogged /\ AuditGenuine /\ RevokedGenuine
  /\ OneCallPerKey

--------------------------------------------------------------------------------

\* What one step of the handler of c may do to the rest: nothing to other calls,
\* and the three stores only grow.
Frame(c) ==
  /\ UNCHANGED config
  /\ \A d \in Calls : d # c =>
        pc'[d] = pc[d] /\ of'[d] = of[d] /\ platformUserID'[d] = platformUserID[d]
  /\ recorded \subseteq recorded'
  /\ revoked \subseteq revoked'
  /\ \A k \in Keys : audit'[k] # audit[k] =>
        /\ audit[k] = None
        /\ pc[c] = "emit" /\ k = Body(c).key
        /\ audit'[k] = [delivery |-> of[c], actor |-> platformUserID[c]]

\* A call at work carries a genuine delivery.
LEMMA WorkingBody ==
  ASSUME Inv, NEW c \in Calls, pc[c] \in Working \cup {"accepted"}
  PROVE  /\ of[c] \in Deliveries /\ of[c] \in genuine
         /\ Body(c) \in Payload /\ Body(c).key \in Keys
         /\ Body(c).user \in LogtoUsers \cup {None}
  BY DEF Inv, CallInv, TypeOK, Body, Payload

\* Other calls keep what they have.
LEMMA OthersKeep ==
  ASSUME Inv, NEW c \in Calls, Frame(c), NEW d \in Calls, d # c
  PROVE  CallInv(d)' /\ Logged(d)' /\ NotYetEmitted(d)'
  <1>1. CallInv(d) /\ Logged(d) /\ NotYetEmitted(d)
    BY DEF Inv
  <1>2. /\ pc'[d] = pc[d] /\ of'[d] = of[d] /\ platformUserID'[d] = platformUserID[d]
        /\ Body(d)' = Body(d) /\ db' = db /\ redis' = redis /\ genuine' = genuine
    BY DEF Frame, config, Body
  <1>3. pc[d] \in Working \cup {"accepted"} => Body(d).key \in Keys /\ of[d] \in Deliveries
    BY WorkingBody
  <1>4. CallInv(d)'
    <2>1. (pc[d] \in {"revokeLogto", "revokePlatform", "accepted"} /\ db /\ Body(d).event # "Other") =>
             audit'[Body(d).key] = [delivery |-> of[d], actor |-> platformUserID[d]]
      <3> SUFFICES ASSUME pc[d] \in {"revokeLogto", "revokePlatform", "accepted"}, db,
                          Body(d).event # "Other"
                   PROVE  audit'[Body(d).key] = [delivery |-> of[d], actor |-> platformUserID[d]]
        OBVIOUS
      <3>1. Body(d).key \in Keys /\ of[d] \in Deliveries
        BY <1>3 DEF Working, Applying
      <3>2. [delivery |-> of[d], actor |-> platformUserID[d]] \in AuditEvent
        BY <3>1 DEF Inv, TypeOK, AuditEvent
      <3>3. audit[Body(d).key] = [delivery |-> of[d], actor |-> platformUserID[d]]
        BY <1>1 DEF CallInv
      <3>4. QED
        BY <3>1, <3>2, <3>3, EventAssumption DEF Frame
    <2>2. revoked \subseteq revoked'
      BY DEF Frame
    <2>3. QED
      BY <1>1, <1>2, <2>1, <2>2 DEF CallInv
  <1>5. Logged(d)'
    BY <1>1, <1>2 DEF Logged, Frame
  <1>6. NotYetEmitted(d)'
    <2> SUFFICES ASSUME db, pc[d] \in {"resolve", "emit"} PROVE audit'[Body(d).key] = None
      BY <1>2 DEF NotYetEmitted
    <2>1. audit[Body(d).key] = None /\ Body(d).key \in Keys
      BY <1>1, <1>3 DEF NotYetEmitted, Working, Applying
    <2>2. ASSUME pc[c] = "emit", Body(d).key = Body(c).key PROVE FALSE
      BY <2>2 DEF Inv, OneCallPerKey, Applying
    <2>3. QED
      BY <2>1, <2>2 DEF Frame
  <1>7. QED
    BY <1>4, <1>5, <1>6

\* No second call of a key is admitted: a step admits c only with a new key.
LEMMA AdmittedOnce ==
  ASSUME Inv, NEW c \in Calls, Frame(c),
         (db /\ pc'[c] \in Admitted) =>
            of'[c] = of[c] /\ (pc[c] \in Admitted \/ Body(c).key \notin recorded)
  PROVE  OneCallPerKey'
  <1>1. \A d \in Calls : d # c => pc'[d] = pc[d] /\ Body(d)' = Body(d)
    BY DEF Frame, config, Body
  <1>2. db' = db /\ (of'[c] = of[c] => Body(c)' = Body(c))
    BY DEF Frame, config, Body
  <1>3. \A d \in Calls : db /\ pc[d] \in Admitted => Body(d).key \in recorded
    BY DEF Inv, Logged
  <1>4. db => \A d, e \in Calls :
          (pc[d] \in Admitted /\ pc[e] \in Admitted /\ Body(d).key = Body(e).key) => d = e
    BY DEF Inv, OneCallPerKey, Admitted
  <1>5. ASSUME db, NEW d \in Calls, NEW e \in Calls,
               pc'[d] \in Admitted, pc'[e] \in Admitted, Body(d)'.key = Body(e)'.key
        PROVE  d = e
    BY <1>1, <1>2, <1>3, <1>4, <1>5
  <1>6. QED
    BY <1>2, <1>5 DEF OneCallPerKey, Admitted

\* The stores keep their part when they only grow by what a genuine delivery says.
LEMMA StoresKeep ==
  ASSUME Inv, NEW c \in Calls, Frame(c),
         \A s \in revoked' \ revoked :
            \E d \in genuine : payload[d].event = "User.Deleted" /\ payload[d].user = s[2]
  PROVE  AuditLogged' /\ AuditGenuine' /\ RevokedGenuine'
  <1>1. payload' = payload /\ genuine' = genuine /\ db' = db
    BY DEF Frame, config
  <1>2. ASSUME NEW k \in Keys, audit'[k] # audit[k]
        PROVE  /\ db => k \in recorded'
               /\ audit'[k].delivery \in genuine /\ payload[audit'[k].delivery].key = k
    <2>1. /\ pc[c] = "emit" /\ k = Body(c).key
          /\ audit'[k] = [delivery |-> of[c], actor |-> platformUserID[c]]
      BY <1>2 DEF Frame
    <2>2. of[c] \in genuine
      BY <2>1, WorkingBody DEF Working, Applying
    <2>3. db => Body(c).key \in recorded
      BY <2>1 DEF Inv, Logged, Admitted, Applying
    <2>4. QED
      BY <2>1, <2>2, <2>3 DEF Frame, Body
  <1>3. AuditLogged'
    BY <1>1, <1>2 DEF Inv, AuditLogged, Frame
  <1>4. AuditGenuine'
    BY <1>1, <1>2 DEF Inv, AuditGenuine
  <1>5. RevokedGenuine'
    BY <1>1 DEF Inv, RevokedGenuine
  <1>6. QED
    BY <1>3, <1>4, <1>5

\* A step of c keeps the invariant if it keeps the types and c's own part.
LEMMA StepKeeps ==
  ASSUME Inv, NEW c \in Calls, Frame(c), TypeOK',
         CallInv(c)', Logged(c)', NotYetEmitted(c)',
         (db /\ pc'[c] \in Admitted) =>
            of'[c] = of[c] /\ (pc[c] \in Admitted \/ Body(c).key \notin recorded),
         \A s \in revoked' \ revoked :
            \E d \in genuine : payload[d].event = "User.Deleted" /\ payload[d].user = s[2]
  PROVE  Inv'
  <1>1. \A d \in Calls : CallInv(d)' /\ Logged(d)' /\ NotYetEmitted(d)'
    BY OthersKeep
  <1>2. OneCallPerKey'
    BY AdmittedOnce
  <1>3. AuditLogged' /\ AuditGenuine' /\ RevokedGenuine'
    BY StoresKeep
  <1>4. QED
    BY <1>1, <1>2, <1>3 DEF Inv

--------------------------------------------------------------------------------
(***************************************************************************)
(* One lemma per step of the handler.                                      *)
(***************************************************************************)

\* A delivery is verified and carried, or refused.
LEMMA ReceiveKeeps ==
  ASSUME Inv, NEW c \in Calls, (\E d \in Deliveries : Receive(c, d)) \/ Refuse(c)
  PROVE  Inv'
  <1>1. /\ pc[c] = "idle" /\ platformUserID[c] = None
        /\ UNCHANGED <<config, platformUserID, recorded, audit, revoked>>
    BY DEF Receive, Refuse, Inv, CallInv
  <1>2. /\ pc' \in [Calls -> PcValues] /\ of' \in [Calls -> Deliveries \cup {None}]
        /\ \A d \in Calls : d # c => pc'[d] = pc[d] /\ of'[d] = of[d]
        /\ \/ pc'[c] = "rejected"
           \/ pc'[c] = "tryRecord" /\ db /\ of'[c] \in genuine
           \/ pc'[c] = "resolve" /\ ~db /\ of'[c] \in genuine
    BY DEF Receive, Refuse, Goto, VerifySignature, Inv, TypeOK, PcValues, Working, Applying, Ended
  <1>3. payload' = payload /\ genuine' = genuine /\ db' = db /\ redis' = redis
    BY <1>1 DEF config
  <1>4. TypeOK'
    BY <1>1, <1>2, <1>3 DEF Inv, TypeOK, PcValues
  <1>5. Frame(c)
    BY <1>1, <1>2 DEF Frame
  <1>6. CallInv(c)' /\ Logged(c)' /\ NotYetEmitted(c)'
    BY <1>2, <1>3 DEF CallInv, Logged, NotYetEmitted, Admitted, Applying, Working
  <1>7. QED
    BY <1>1, <1>2, <1>4, <1>5, <1>6, StepKeeps DEF Admitted, Applying

\* The key goes into the delivery log, and c on only if it was not there.
LEMMA TryRecordKeeps ==
  ASSUME Inv, NEW c \in Calls, TryRecord(c)
  PROVE  Inv'
  <1>1. /\ pc[c] = "tryRecord" /\ recorded' = recorded \cup {Body(c).key}
        /\ UNCHANGED <<config, of, platformUserID, audit, revoked>>
    BY DEF TryRecord
  <1>2. of[c] \in genuine /\ Body(c).key \in Keys
    BY <1>1, WorkingBody DEF Working
  <1>3. /\ pc' \in [Calls -> PcValues]
        /\ \A d \in Calls : d # c => pc'[d] = pc[d]
        /\ \/ pc'[c] = "resolve" /\ Body(c).key \notin recorded
           \/ pc'[c] = "duplicate"
    BY DEF TryRecord, First, Goto, Inv, TypeOK, PcValues, Working, Applying, Ended
  <1>4. Body(c)' = Body(c) /\ genuine' = genuine /\ db' = db
    BY <1>1 DEF Body, config
  <1>5. TypeOK'
    BY <1>1, <1>2, <1>3 DEF Inv, TypeOK, PcValues, config
  <1>6. Frame(c)
    BY <1>1, <1>3 DEF Frame
  <1>7. (db /\ Body(c).key \notin recorded) => audit[Body(c).key] = None
    BY <1>2 DEF Inv, AuditLogged
  <1>8. CallInv(c)' /\ Logged(c)' /\ NotYetEmitted(c)'
    BY <1>1, <1>2, <1>3, <1>4, <1>7 DEF CallInv, Logged, NotYetEmitted
  <1>9. QED
    BY <1>1, <1>3, <1>5, <1>6, <1>8, StepKeeps DEF Admitted, Applying

\* The user is resolved, or its resolution fails and the handler goes on.
LEMMA ResolveKeeps ==
  ASSUME Inv, NEW c \in Calls, Resolve(c)
  PROVE  Inv'
  <1>1. pc[c] = "resolve" /\ UNCHANGED <<config, of, recorded, audit, revoked>>
    BY DEF Resolve
  <1>2. of[c] \in genuine /\ Body(c).user \in LogtoUsers \cup {None}
    BY <1>1, WorkingBody DEF Working, Applying
  <1>3. /\ pc' = [pc EXCEPT ![c] = "emit"]
        /\ platformUserID' \in [Calls -> LogtoUsers \cup {None}]
        /\ platformUserID'[c] \in {Body(c).user, None}
        /\ \A d \in Calls : d # c => platformUserID'[d] = platformUserID[d]
    BY <1>2 DEF Resolve, Goto, Inv, TypeOK
  <1>4. /\ pc' \in [Calls -> PcValues] /\ pc'[c] = "emit"
        /\ \A d \in Calls : d # c => pc'[d] = pc[d]
    BY <1>3 DEF Inv, TypeOK, PcValues, Working, Applying
  <1>5. Body(c)' = Body(c) /\ genuine' = genuine /\ db' = db
    BY <1>1 DEF Body, config
  <1>6. TypeOK'
    <2>1. \A d \in Calls : platformUserID'[d] # None => platformUserID'[d] = payload'[of'[d]].user
      BY <1>1, <1>3 DEF Inv, TypeOK, Body, config
    <2>2. QED
      BY <1>1, <1>3, <1>4, <2>1 DEF Inv, TypeOK, PcValues, config
  <1>7. Frame(c)
    BY <1>1, <1>3, <1>4 DEF Frame
  <1>8. CallInv(c)' /\ Logged(c)' /\ NotYetEmitted(c)'
    BY <1>1, <1>2, <1>4, <1>5
       DEF Inv, CallInv, Logged, NotYetEmitted, Admitted, Applying
  <1>9. QED
    BY <1>1, <1>4, <1>6, <1>7, <1>8, StepKeeps DEF Admitted, Applying

\* The audit event is sent; audit-service keeps the first with its id.
LEMMA EmitKeeps ==
  ASSUME Inv, NEW c \in Calls, Emit(c)
  PROVE  Inv'
  <1> DEFINE e == [delivery |-> of[c], actor |-> platformUserID[c]]
  <1>1. pc[c] = "emit" /\ UNCHANGED <<config, of, platformUserID, recorded, revoked>>
    BY DEF Emit
  <1>2. of[c] \in genuine /\ of[c] \in Deliveries /\ Body(c).key \in Keys
    BY <1>1, WorkingBody DEF Working, Applying
  <1>3. e \in AuditEvent
    BY <1>2 DEF AuditEvent, Inv, TypeOK
  <1>4. /\ audit' \in [Keys -> AuditEvent \cup {None}]
        /\ \A k \in Keys : audit'[k] # audit[k] => audit[k] = None /\ k = Body(c).key /\ audit'[k] = e
        /\ (db /\ Body(c).event # "Other") => audit'[Body(c).key] = e
    <2>1. db => audit[Body(c).key] = None
      BY <1>1 DEF Inv, NotYetEmitted
    <2>2. CASE Body(c).event = "Other"
      BY <2>2 DEF Emit, Inv, TypeOK
    <2>3. CASE Body(c).event # "Other"
      <3>1. audit' = [audit EXCEPT ![Body(c).key] = IF @ = None THEN e ELSE @]
        BY <2>3 DEF Emit, Store
      <3>2. QED
        BY <1>2, <1>3, <2>1, <3>1 DEF Inv, TypeOK
    <2>4. QED
      BY <2>2, <2>3
  <1>5. /\ pc' \in [Calls -> PcValues]
        /\ \A d \in Calls : d # c => pc'[d] = pc[d]
        /\ \/ pc'[c] = "revokeLogto" /\ redis /\ Body(c).event = "User.Deleted"
           \/ pc'[c] = "accepted" /\ ~(redis /\ Body(c).event = "User.Deleted")
    BY DEF Emit, AfterEmit, Goto, Inv, TypeOK, PcValues, Working, Applying, Ended
  <1>6. Body(c)' = Body(c) /\ genuine' = genuine /\ db' = db /\ redis' = redis
    BY <1>1 DEF Body, config
  <1>7. TypeOK'
    BY <1>1, <1>4, <1>5 DEF Inv, TypeOK, PcValues, config
  <1>8. Frame(c)
    BY <1>1, <1>4, <1>5 DEF Frame
  <1>9. CallInv(c)'
    BY <1>1, <1>2, <1>4, <1>5, <1>6 DEF CallInv
  <1>10. Logged(c)' /\ NotYetEmitted(c)'
    BY <1>1, <1>5, <1>6 DEF Inv, Logged, NotYetEmitted, Admitted, Applying
  <1>11. QED
    BY <1>1, <1>5, <1>7, <1>8, <1>9, <1>10, StepKeeps DEF Admitted, Applying

\* A deleted user's tokens are revoked, first under the Logto id.
LEMMA RevokeKeeps ==
  ASSUME Inv, NEW c \in Calls, RevokeLogto(c) \/ RevokePlatform(c)
  PROVE  Inv'
  <1> DEFINE new == revoked' \ revoked
  <1>1. UNCHANGED <<config, of, platformUserID, recorded, audit>>
    BY DEF RevokeLogto, RevokePlatform
  <1>2. /\ pc[c] \in {"revokeLogto", "revokePlatform"} /\ Body(c).event = "User.Deleted"
        /\ of[c] \in genuine /\ Body(c).user \in LogtoUsers \cup {None}
    BY WorkingBody DEF RevokeLogto, RevokePlatform, Inv, CallInv, Working, Applying
  <1>3. platformUserID[c] # None => platformUserID[c] = Body(c).user /\ Body(c).user \in LogtoUsers
    BY <1>2 DEF Inv, TypeOK, Body
  <1>4. /\ revoked \subseteq revoked'
        /\ \A s \in new : Body(c).user \in LogtoUsers /\ s[2] = Body(c).user
                          /\ s \in {"logto", "platform"} \X LogtoUsers
    BY <1>2, <1>3 DEF RevokeLogto, RevokePlatform, Revoke
  <1>5. /\ pc' \in [Calls -> PcValues]
        /\ \A d \in Calls : d # c => pc'[d] = pc[d]
        /\ \/ pc'[c] = "revokePlatform" /\ pc[c] = "revokeLogto"
              /\ (Body(c).user # None => <<"logto", Body(c).user>> \in revoked')
           \/ pc'[c] = "accepted" /\ pc[c] = "revokePlatform"
              /\ (platformUserID[c] # None => <<"platform", Body(c).user>> \in revoked')
    BY <1>3 DEF RevokeLogto, RevokePlatform, Revoke, Goto, Inv, TypeOK, PcValues, Working, Applying,
       Ended
  <1>6. Body(c)' = Body(c) /\ genuine' = genuine /\ db' = db /\ redis' = redis /\ payload' = payload
    BY <1>1 DEF Body, config
  <1>7. TypeOK'
    <2>1. revoked' \subseteq Subjects
      BY <1>4 DEF Inv, TypeOK, Subjects
    <2>2. QED
      BY <1>1, <1>5, <2>1 DEF Inv, TypeOK, PcValues, config
  <1>8. Frame(c)
    BY <1>1, <1>4, <1>5 DEF Frame
  <1>9. CallInv(c)'
    <2>1. CallInv(c)
      BY DEF Inv
    <2>2. QED
      BY <1>1, <1>2, <1>4, <1>5, <1>6, <2>1 DEF CallInv
  <1>10. Logged(c)' /\ NotYetEmitted(c)'
    BY <1>1, <1>5, <1>6 DEF Inv, Logged, NotYetEmitted, Admitted, Applying
  <1>11. \A s \in new : \E d \in genuine : payload[d].event = "User.Deleted" /\ payload[d].user = s[2]
    BY <1>2, <1>4 DEF Body
  <1>12. QED
    BY <1>1, <1>5, <1>7, <1>8, <1>9, <1>10, <1>11, StepKeeps DEF Admitted, Applying

\* The handler fails, before or after the effect of the step it is at.
LEMMA FailKeeps ==
  ASSUME Inv, NEW c \in Calls, Fail(c) \/ LostAnswer(c)
  PROVE  Inv'
  <1> DEFINE e == [delivery |-> of[c], actor |-> platformUserID[c]]
             new == revoked' \ revoked
  <1>1. pc[c] \in Working /\ UNCHANGED <<config, of, platformUserID>>
    BY DEF Fail, LostAnswer, Working, Applying
  <1>2. /\ of[c] \in genuine /\ of[c] \in Deliveries /\ Body(c).key \in Keys
        /\ Body(c).user \in LogtoUsers \cup {None}
    BY <1>1, WorkingBody
  <1>3. /\ pc' \in [Calls -> PcValues] /\ pc'[c] = "error"
        /\ \A d \in Calls : d # c => pc'[d] = pc[d]
    BY DEF Fail, LostAnswer, Goto, Inv, TypeOK, PcValues, Ended
  <1>4. recorded \subseteq recorded' /\ recorded' \subseteq Keys
    BY <1>2 DEF Fail, LostAnswer, Inv, TypeOK
  <1>5. e \in AuditEvent
    BY <1>2 DEF AuditEvent, Inv, TypeOK
  <1>6. /\ audit' \in [Keys -> AuditEvent \cup {None}]
        /\ \A k \in Keys : audit'[k] # audit[k] =>
              audit[k] = None /\ pc[c] = "emit" /\ k = Body(c).key /\ audit'[k] = e
    <2>1. UNCHANGED audit \/ (pc[c] = "emit"
             /\ audit' = [audit EXCEPT ![Body(c).key] = IF @ = None THEN e ELSE @])
      BY DEF Fail, LostAnswer, Store
    <2>2. QED
      BY <1>2, <1>5, <2>1 DEF Inv, TypeOK
  <1>7. platformUserID[c] # None => platformUserID[c] = Body(c).user
    BY DEF Inv, TypeOK, Body
  <1>8. /\ revoked \subseteq revoked' /\ new \subseteq Subjects
        /\ \A s \in new : Body(c).event = "User.Deleted" /\ s[2] = Body(c).user
    <2>1. CASE UNCHANGED revoked
      BY <2>1
    <2>2. CASE pc[c] = "revokePlatform"
               /\ revoked' = revoked \cup {<<"platform", u>> : u \in {platformUserID[c]} \ {None}}
      <3>1. Body(c).event = "User.Deleted"
        BY <2>2 DEF Inv, CallInv
      <3>2. QED
        BY <1>2, <1>7, <2>2, <3>1 DEF Subjects
    <2>3. QED
      BY <2>1, <2>2 DEF Fail, LostAnswer, Revoke
  <1>9. TypeOK'
    <2>1. revoked' \subseteq Subjects
      BY <1>8 DEF Inv, TypeOK
    <2>2. QED
      BY <1>1, <1>3, <1>4, <1>6, <2>1 DEF Inv, TypeOK, PcValues, config
  <1>10. Frame(c)
    BY <1>1, <1>3, <1>4, <1>6, <1>8 DEF Frame
  <1>11. CallInv(c)' /\ Logged(c)' /\ NotYetEmitted(c)'
    BY <1>3 DEF CallInv, Logged, NotYetEmitted, Admitted, Applying, Working
  <1>12. \A s \in new : \E d \in genuine : payload[d].event = "User.Deleted" /\ payload[d].user = s[2]
    BY <1>2, <1>8 DEF Body
  <1>13. QED
    BY <1>3, <1>9, <1>10, <1>11, <1>12, StepKeeps DEF Admitted, Applying

--------------------------------------------------------------------------------
(***************************************************************************)
(* The theorems.                                                           *)
(***************************************************************************)

\* The inductive invariant holds always.
LEMMA Invariance == Spec => []Inv
<1>1. Init => Inv
  <2> SUFFICES ASSUME Init PROVE Inv
    OBVIOUS
  <2>1. TypeOK
    BY DEF Init, TypeOK
  <2>2. \A c \in Calls : CallInv(c) /\ Logged(c) /\ NotYetEmitted(c)
    BY DEF Init, CallInv, Logged, NotYetEmitted, Admitted, Working, Applying
  <2>3. AuditLogged /\ AuditGenuine /\ RevokedGenuine /\ OneCallPerKey
    BY DEF Init, AuditLogged, AuditGenuine, RevokedGenuine, OneCallPerKey, Applying
  <2>4. QED
    BY <2>1, <2>2, <2>3 DEF Inv
<1>2. Inv /\ [Next]_vars => Inv'
  <2> SUFFICES ASSUME Inv, [Next]_vars PROVE Inv'
    OBVIOUS
  <2>1. CASE Next
    BY <2>1, ReceiveKeeps, TryRecordKeeps, ResolveKeeps, EmitKeeps, RevokeKeeps, FailKeeps DEF Next
  <2>2. CASE UNCHANGED vars
    BY <2>2 DEF vars, config, Inv, TypeOK, CallInv, Logged, NotYetEmitted, AuditLogged,
       AuditGenuine, RevokedGenuine, OneCallPerKey, Body
  <2>3. QED
    BY <2>1, <2>2
<1>3. QED
  BY <1>1, <1>2, PTL DEF Spec

\* The variables keep their types; in particular a platform user is only ever that
\* of the delivery's own Logto user.
THEOREM TypeCorrect == Spec => []TypeOK
<1>1. Inv => TypeOK
  BY DEF Inv
<1>2. QED
  BY <1>1, Invariance, PTL

\* With Postgres at most one call of a delivery key ever goes on to the effects.
THEOREM OneCall == Spec => []OneCallPerKey
<1>1. Inv => OneCallPerKey
  BY DEF Inv
<1>2. QED
  BY <1>1, Invariance, PTL

\* An accepted delivery has all its effects, and only signed deliveries have any.
THEOREM AcceptedApplied == Spec => []AcceptedIsApplied
<1>1. Inv => AcceptedIsApplied
  <2> SUFFICES ASSUME Inv PROVE AcceptedIsApplied
    OBVIOUS
  <2>1. \A c \in Calls : CallInv(c)
    BY DEF Inv
  <2>2. AuditGenuine /\ RevokedGenuine
    BY DEF Inv
  <2>3. QED
    BY <2>1, <2>2 DEF AcceptedIsApplied, CallInv, AuditGenuine, RevokedGenuine
<1>2. QED
  BY <1>1, Invariance, PTL

--------------------------------------------------------------------------------
(***************************************************************************)
(* The delivery log and the calls that were let in.                        *)
(***************************************************************************)

\* The call was let past the log, however it ended.
LetIn(c) == pc[c] \in Applying \cup {"accepted", "error"} /\ of[c] \in genuine

\* Each key of the log was put there by a genuine delivery that was let in, and a call
\* is turned away only with a key of the log.
LogInv ==
  /\ \A k \in recorded : \E d \in Calls : LetIn(d) /\ Body(d).key = k
  /\ \A c \in Calls : pc[c] = "duplicate" => Body(c).key \in recorded

\* One call's step keeps it, if that call stays let in and records no key but its own.
LEMMA LogStep ==
  ASSUME LogInv, NEW c \in Calls, Frame(c),
         LetIn(c) => LetIn(c)' /\ of'[c] = of[c],
         recorded' # recorded =>
            recorded' = recorded \cup {Body(c)'.key} /\ (Body(c)'.key \in recorded \/ LetIn(c)'),
         pc'[c] = "duplicate" => Body(c)'.key \in recorded'
  PROVE  LogInv'
  <1>1. \A d \in Calls : d # c => /\ LetIn(d)' = LetIn(d) /\ Body(d)' = Body(d)
                                  /\ pc'[d] = pc[d]
    BY DEF Frame, config, LetIn, Body
  <1>2. LetIn(c) => Body(c)' = Body(c)
    BY DEF Frame, config, Body
  <1>3. \A k \in recorded : \E d \in Calls : LetIn(d)' /\ Body(d)'.key = k
    <2> SUFFICES ASSUME NEW k \in recorded PROVE \E d \in Calls : LetIn(d)' /\ Body(d)'.key = k
      OBVIOUS
    <2>1. PICK d \in Calls : LetIn(d) /\ Body(d).key = k
      BY DEF LogInv
    <2>2. LetIn(d)' /\ Body(d)'.key = k
      BY <1>1, <1>2, <2>1
    <2>3. QED
      BY <2>2
  <1>4. \A k \in recorded' : \E d \in Calls : LetIn(d)' /\ Body(d)'.key = k
    BY <1>3
  <1>5. \A d \in Calls : pc'[d] = "duplicate" => Body(d)'.key \in recorded'
    BY <1>1 DEF LogInv, Frame
  <1>6. QED
    BY <1>4, <1>5 DEF LogInv

\* Every step of every handler keeps it.
LEMMA LogKept == Inv /\ LogInv /\ [Next]_vars => LogInv'
<1> SUFFICES ASSUME Inv, LogInv, [Next]_vars PROVE LogInv'
  OBVIOUS
<1>1. CASE UNCHANGED vars
  BY <1>1 DEF vars, config, LogInv, LetIn, Body
<1>2. ASSUME NEW c \in Calls, (\E d \in Deliveries : Receive(c, d)) \/ Refuse(c) PROVE LogInv'
  <2>1. /\ pc[c] = "idle" /\ UNCHANGED <<config, platformUserID, recorded, audit, revoked>>
        /\ pc'[c] \in {"rejected", "tryRecord", "resolve"}
        /\ \A d \in Calls : d # c => pc'[d] = pc[d] /\ of'[d] = of[d]
    BY <1>2 DEF Receive, Refuse, Goto, Inv, TypeOK
  <2>2. Frame(c)
    BY <2>1 DEF Frame
  <2>3. QED
    BY <2>1, <2>2, LogStep DEF LetIn, Applying
<1>3. ASSUME NEW c \in Calls,
             \/ TryRecord(c) \/ Resolve(c) \/ Emit(c) \/ RevokeLogto(c) \/ RevokePlatform(c)
             \/ Fail(c) \/ LostAnswer(c)
      PROVE  LogInv'
  <2>1. pc[c] \in Working /\ of' = of /\ UNCHANGED config
    BY <1>3 DEF TryRecord, Resolve, Emit, RevokeLogto, RevokePlatform, Fail, LostAnswer,
       Working, Applying
  <2>2. of[c] \in genuine /\ Body(c)' = Body(c) /\ genuine' = genuine
    BY <2>1, WorkingBody DEF Body, config
  <2>3. /\ \A d \in Calls : d # c =>
              pc'[d] = pc[d] /\ platformUserID'[d] = platformUserID[d]
        /\ pc'[c] \in Applying \cup {"accepted", "error", "duplicate"}
        /\ pc'[c] = "duplicate" => pc[c] = "tryRecord" /\ Body(c).key \in recorded
        /\ recorded' # recorded => pc[c] = "tryRecord" /\ recorded' = recorded \cup {Body(c).key}
        /\ recorded \subseteq recorded' /\ revoked \subseteq revoked'
    <3>1. CASE TryRecord(c)
      BY <3>1 DEF TryRecord, First, Goto, Inv, TypeOK, Applying
    <3>2. CASE Resolve(c)
      BY <3>2 DEF Resolve, Goto, Inv, TypeOK, Applying
    <3>3. CASE Emit(c)
      BY <3>3 DEF Emit, AfterEmit, Goto, Inv, TypeOK, Applying
    <3>4. CASE RevokeLogto(c) \/ RevokePlatform(c)
      BY <3>4 DEF RevokeLogto, RevokePlatform, Revoke, Goto, Inv, TypeOK, Applying
    <3>5. CASE Fail(c) \/ LostAnswer(c)
      BY <3>5 DEF Fail, LostAnswer, Revoke, Goto, Inv, TypeOK, Applying
    <3>6. QED
      BY <1>3, <3>1, <3>2, <3>3, <3>4, <3>5
  <2>4. \A k \in Keys : audit'[k] # audit[k] =>
           /\ audit[k] = None /\ pc[c] = "emit" /\ k = Body(c).key
           /\ audit'[k] = [delivery |-> of[c], actor |-> platformUserID[c]]
    <3>1. \/ UNCHANGED audit
          \/ pc[c] = "emit" /\ Store(Body(c).key, [delivery |-> of[c], actor |-> platformUserID[c]])
      BY <1>3 DEF TryRecord, Resolve, Emit, RevokeLogto, RevokePlatform, Fail, LostAnswer
    <3>2. QED
      BY <3>1 DEF Store, Inv, TypeOK
  <2>5. Frame(c)
    BY <2>1, <2>3, <2>4 DEF Frame
  <2>6. LetIn(c) => LetIn(c)' /\ of'[c] = of[c]
    BY <2>1, <2>2, <2>3 DEF LetIn, Applying
  <2>7. recorded' # recorded =>
           recorded' = recorded \cup {Body(c)'.key} /\ (Body(c)'.key \in recorded \/ LetIn(c)')
    BY <2>1, <2>2, <2>3 DEF LetIn
  <2>8. QED
    BY <2>2, <2>3, <2>5, <2>6, <2>7, LogStep
<1>4. QED
  BY <1>1, <1>2, <1>3 DEF Next

\* A call is turned away only on account of a delivery that Logto signed, under the
\* same key, and that was let in; for any number of calls, forged ones included.
THEOREM DuplicatesAreGenuine == Spec => []DuplicateOfGenuine
<1>1. Init => LogInv
  BY DEF Init, LogInv
<1>2. LogInv => DuplicateOfGenuine
  BY DEF LogInv, LetIn, DuplicateOfGenuine
<1>3. QED
  BY <1>1, <1>2, LogKept, Invariance, PTL DEF Spec

--------------------------------------------------------------------------------
(***************************************************************************)
(* The blocklist the gateway reads.                                        *)
(***************************************************************************)

\* A step of the handler revokes the Logto id, revokes the platform id of a user whose
\* Logto id is revoked already, or revokes nothing.
LEMMA RevokesInOrder ==
  ASSUME Inv, [Next]_vars
  PROVE  [Revocations!Next]_(Revocations!vars)
<1>1. redis' = redis
  BY DEF Next, vars, config, Receive, Refuse, TryRecord, Resolve, Emit, RevokeLogto, RevokePlatform,
     Fail, LostAnswer
<1>2. CASE revoked' = revoked
  BY <1>1, <1>2 DEF Revocations!vars
<1>3. ASSUME NEW c \in Calls, pc[c] = "revokeLogto",
             Revoke({<<"logto", u>> : u \in {Body(c).user} \ {None}})
      PROVE  [Revocations!Next]_(Revocations!vars)
  <2>1. redis /\ Body(c).user \in LogtoUsers \cup {None}
    BY <1>3, WorkingBody DEF Inv, CallInv, Working, Applying
  <2>2. CASE Body(c).user = None
    BY <1>1, <1>3, <2>2 DEF Revoke, Revocations!vars
  <2>3. CASE Body(c).user \in LogtoUsers
    <3>1. <<"logto", Body(c).user>> \in Subjects
      BY <2>3 DEF Subjects
    <3>2. revoked' = revoked \cup {<<"logto", Body(c).user>>}
      BY <1>3, <2>3, WebhookAssumption DEF Revoke
    <3>3. Revocations!Revoke(<<"logto", Body(c).user>>)
      BY <1>1, <2>1, <3>2 DEF Revocations!Revoke
    <3>4. QED
      BY <3>1, <3>3 DEF Revocations!Next
  <2>4. QED
    BY <2>1, <2>2, <2>3
<1>4. ASSUME NEW c \in Calls, pc[c] = "revokePlatform",
             Revoke({<<"platform", u>> : u \in {platformUserID[c]} \ {None}})
      PROVE  [Revocations!Next]_(Revocations!vars)
  <2>1. redis /\ platformUserID[c] \in LogtoUsers \cup {None}
    BY <1>4 DEF Inv, CallInv, TypeOK
  <2>2. CASE platformUserID[c] = None
    BY <1>1, <1>4, <2>2 DEF Revoke, Revocations!vars
  <2>3. CASE platformUserID[c] # None
    <3>1. platformUserID[c] = Body(c).user
      BY <2>3 DEF Inv, TypeOK, Body
    <3>2. <<"logto", platformUserID[c]>> \in revoked
      BY <1>4, <2>3, <3>1 DEF Inv, CallInv
    <3>3. <<"platform", platformUserID[c]>> \in Subjects
      BY <2>1, <2>3 DEF Subjects
    <3>4. revoked' = revoked \cup {<<"platform", platformUserID[c]>>}
      BY <1>4, <2>3 DEF Revoke
    <3>5. Revocations!Revoke(<<"platform", platformUserID[c]>>)
      BY <1>1, <2>1, <3>2, <3>4 DEF Revocations!Revoke
    <3>6. QED
      BY <3>3, <3>5 DEF Revocations!Next
  <2>4. QED
    BY <2>2, <2>3
<1>5. \/ revoked' = revoked
      \/ \E c \in Calls : pc[c] = "revokeLogto" /\ Revoke({<<"logto", u>> : u \in {Body(c).user} \ {None}})
      \/ \E c \in Calls : /\ pc[c] = "revokePlatform"
                          /\ Revoke({<<"platform", u>> : u \in {platformUserID[c]} \ {None}})
  BY DEF Next, vars, Receive, Refuse, TryRecord, Resolve, Emit, RevokeLogto, RevokePlatform,
     Fail, LostAnswer
<1>6. QED
  BY <1>2, <1>3, <1>4, <1>5

\* The webhook handler implements the blocklist whose step the gateway's model takes as
\* auth-service's, for any number of deliveries, retries and failures.
THEOREM RevocationsImplemented == Spec => ImplementsRevocations
<1>1. Init => Revocations!Init
  BY DEF Init, Revocations!Init
<1>2. QED
  BY <1>1, RevokesInOrder, Invariance, PTL DEF Spec, ImplementsRevocations, Revocations!Spec

================================================================================
