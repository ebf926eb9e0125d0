-------------------------- MODULE GatewaySession_proofs --------------------------
(***************************************************************************)
(* Proofs about the gateway's sessions, for any number of requests, codes  *)
(* and session ids.                                                        *)
(*                                                                         *)
(* The argument: what a request carries is fixed when it arrives, because  *)
(* a code keeps its person and a session its code; what the gateway        *)
(* compares it with (revocations, deleted sessions, spent codes) only      *)
(* grows.  So what a request knew at one step still holds at the next, and *)
(* each step has only its own request to care for.                         *)
(***************************************************************************)
EXTENDS GatewaySession, TLAPS

CallbackPc == {"get", "del", "exchange", "create"}
SignOutPc == {"delete", "revoke"}
CheckPc == {"checkSession", "checkSubject"}
ApiPc == {"session", "resolve"} \cup CheckPc
Over == {"failed", "denied", "served"}

\* Session s has been created, perhaps to end since.
Created(s) == s \in Sids /\ tokenOf[s] # None

\* r is an API request whose token, if it has one, can be told.
Arrived(r) == r \in ApiRequest /\ (r.via = "cookie" => Created(r.sid))

\* The ids of the person behind r.
IdsOf(r) == {"logto", "platform", "other"} \X {TokenIn(r).person}

\* Every cookie is that of a session Create made.
CookiesMade == \A q \in Requests : sid[q] # None => Created(sid[q])

\* A session that ended with a sign-out was there and is not coming back.
EndedGone == \A s \in ended : Created(s) /\ s \notin sessions

\* A callback works on a code Logto issued; one that is about to create a session
\* has spent its code, and no session has come of it.
CallbackInv(q) ==
  /\ pc[q] \in CallbackPc => req[q].code \in Codes /\ code[req[q].code] # None
  /\ pc[q] = "create" => req[q].code \in spent /\ \A s \in Sids : tokenOf[s] # req[q].code

\* Only one of the callbacks with a code creates the session.
CreateAlone ==
  \A q, p \in Requests :
     pc[q] = "create" /\ pc[p] = "create" /\ req[q].code = req[p].code => q = p

SignOutInv(q) == pc[q] \in SignOutPc => Created(req[q].sid)

\* An API request by the time it is authenticated, and when it is served.
ApiInv(q) ==
  /\ pc[q] \in ApiPc => Arrived(req[q]) /\ req[q].via \in {"cookie", "bearer"}
  /\ pc[q] \in {"session", "checkSession"} => req[q].via = "cookie"
  /\ pc[q] = "session" => user[q] = None
  /\ pc[q] \in CheckPc => user[q] \in IdsOf(req[q])
  /\ pc[q] = "served" =>
       /\ Arrived(req[q])
       /\ \/ user[q] = None /\ req[q].path.anon
          \/ req[q].via # "none" /\ user[q] \in IdsOf(req[q])

\* A request with the cookie of an ended session has not got past the session.
EndedInv(q) ==
  before[q].ended =>
     /\ pc[q] \in {"session"} \cup Over
     /\ req[q].via = "cookie" /\ req[q].sid \in ended
     /\ pc[q] = "served" => user[q] = None

\* What was revoked when the request arrived still is, and it is found or a lookup
\* has failed.
RevokedInv(q) ==
  before[q].revoked =>
     /\ pc[q] \in ApiPc \cup Over
     /\ Arrived(req[q]) /\ req[q].via # "none"
     /\ \/ Subject(TokenIn(req[q])) \in revokedSubs
        \/ req[q].via = "cookie" /\ req[q].sid \in revokedSids
     /\ pc[q] = "checkSubject" => blind[q] \/ Subject(TokenIn(req[q])) \in revokedSubs
     /\ redis /\ pc[q] = "served" /\ user[q] # None /\ req[q].path.sensitive => blind[q]

RequestInv(q) ==
  CallbackInv(q) /\ SignOutInv(q) /\ ApiInv(q) /\ EndedInv(q) /\ RevokedInv(q)

\* The inductive invariant.
Inv ==
  /\ TypeOK
  /\ CookiesMade
  /\ EndedGone
  /\ OneSessionPerLogin
  /\ CreateAlone
  /\ \A q \in Requests : RequestInv(q)

--------------------------------------------------------------------------------
(***************************************************************************)
(* What only grows.                                                        *)
(***************************************************************************)

\* A step leaves codes and sessions what they are, and what is revoked, ended or
\* spent stays so.
Grow ==
  /\ redis' = redis
  /\ \A c \in Codes : code[c] # None => code'[c] = code[c]
  /\ \A s \in Sids : tokenOf[s] # None => tokenOf'[s] = tokenOf[s]
  /\ spent \subseteq spent' /\ ended \subseteq ended'
  /\ revokedSids \subseteq revokedSids' /\ revokedSubs \subseteq revokedSubs'

\* What belongs to request q is left alone.
Untouched(q) ==
  /\ pc'[q] = pc[q] /\ req'[q] = req[q] /\ user'[q] = user[q]
  /\ blind'[q] = blind[q] /\ before'[q] = before[q]

Only(q) == \A p \in Requests : p # q => Untouched(p)

\* A step is one of the actions, of some request.
LEMMA NextCases ==
  ASSUME [Next]_vars
  PROVE  \/ \E st \in States : SignIn(st)
         \/ \E c \in Codes, st \in States, p \in Persons : Authorize(c, st, p)
         \/ Expire
         \/ \E x \in Ids : RevokeSubject(x)
         \/ \E q \in Requests, c \in Codes : Callback(q, c)
         \/ \E q \in Requests : ConsumeGet(q) \/ ConsumeDel(q) \/ Exchange(q)
         \/ \E q \in Requests, s \in Sids : Create(q, s)
         \/ \E q \in Requests, s \in Sids : SignOut(q, s)
         \/ \E q \in Requests : Delete(q) \/ RevokeSession(q)
         \/ \E q \in Requests, r \in ApiRequest : Arrive(q, r)
         \/ \E q \in Requests : GetSession(q) \/ Resolve(q) \/ CheckSession(q) \/ CheckSubject(q)
         \/ \E q \in Requests : Fail(q)
         \/ UNCHANGED vars
  BY Zenon DEF Next, Requests

\* The fields of an API request.
LEMMA ApiFields ==
  ASSUME NEW r \in ApiRequest
  PROVE  /\ r \in Request
         /\ r.via \in {"cookie", "bearer", "none"}
         /\ r.path.anon \in BOOLEAN /\ r.path.sensitive \in BOOLEAN
         /\ r.via = "cookie" => r.sid \in Sids
         /\ r.via = "bearer" => r.token \in Tokens
  BY DEF ApiRequest, Request, Paths

\* Of a session that was created, the person who logged in is known.
LEMMA CreatedHasToken ==
  ASSUME TypeOK, NEW s, Created(s)
  PROVE  tokenOf[s] \in Codes /\ tokenOf[s] \in spent /\ code[tokenOf[s]] # None
  BY DEF TypeOK, Created

LEMMA TokenFixed ==
  ASSUME TypeOK, Grow, NEW r, Arrived(r)
  PROVE  Arrived(r)' /\ (r.via # "none" => TokenIn(r)' = TokenIn(r))
  <1>1. ASSUME r.via = "cookie"
        PROVE  /\ Created(r.sid)'
               /\ tokenOf'[r.sid] = tokenOf[r.sid]
               /\ code'[tokenOf[r.sid]] = code[tokenOf[r.sid]]
    BY <1>1, CreatedHasToken, GatewayAssumption DEF Arrived, Created, Grow
  <1>2. QED
    BY <1>1, ApiFields DEF Arrived, TokenIn

\* No step takes a code's person, a session's code or a revocation back.
LEMMA Grows == TypeOK /\ [Next]_vars => Grow
<1> SUFFICES ASSUME TypeOK, [Next]_vars PROVE Grow
  OBVIOUS
<1> USE DEF Grow
<1>1. CASE \E st \in States : SignIn(st)
  BY <1>1 DEF SignIn, logto, store, history
<1>2. CASE \E c \in Codes, st \in States, p \in Persons : Authorize(c, st, p)
  BY <1>2 DEF Authorize, store, history, TypeOK
<1>3. CASE Expire
  BY <1>3 DEF Expire, history
<1>4. CASE \E x \in Ids : RevokeSubject(x)
  BY <1>4 DEF RevokeSubject, Revocations!Revoke, logto, history
<1>5. CASE \E q \in Requests, c \in Codes : Callback(q, c)
  BY <1>5 DEF Callback, logto, store, history
<1>6. CASE \E q \in Requests : ConsumeGet(q) \/ ConsumeDel(q) \/ Exchange(q)
  BY <1>6 DEF ConsumeGet, ConsumeDel, Exchange, logto, store, history
<1>7. CASE \E q \in Requests, s \in Sids : Create(q, s)
  BY <1>7 DEF Create, logto, history, TypeOK
<1>8. CASE \E q \in Requests, s \in Sids : SignOut(q, s)
  BY <1>8 DEF SignOut, logto, store, history
<1>9. CASE \E q \in Requests : Delete(q) \/ RevokeSession(q)
  BY <1>9 DEF Delete, RevokeSession, logto, history
<1>10. CASE \E q \in Requests, r \in ApiRequest : Arrive(q, r)
  BY <1>10 DEF Arrive, logto, store
<1>11. CASE \E q \in Requests : GetSession(q) \/ Resolve(q) \/ CheckSession(q) \/ CheckSubject(q)
  BY <1>11 DEF GetSession, Resolve, CheckSession, CheckSubject, Lookup, logto, store, history
<1>12. CASE \E q \in Requests : Fail(q)
  BY <1>12 DEF Fail, logto, store, history
<1>13. CASE UNCHANGED vars
  BY <1>13 DEF vars, logto, store, history
<1> QED
  BY <1>1, <1>2, <1>3, <1>4, <1>5, <1>6, <1>7, <1>8, <1>9, <1>10, <1>11, <1>12, <1>13, NextCases

\* A request that a step leaves alone is as well off as before, unless the step
\* created a session with its code.
LEMMA OthersKeep ==
  ASSUME TypeOK, Grow, NEW q \in Requests, RequestInv(q), Untouched(q),
         pc[q] = "create" => \A s \in Sids : tokenOf'[s] # req[q].code
  PROVE  RequestInv(q)'
<1>1. PICK r : r = req[q]
  OBVIOUS
<1>2. req'[q] = r
  BY <1>1 DEF Untouched
<1>3. Arrived(r) => Arrived(r)' /\ (r.via # "none" => TokenIn(r)' = TokenIn(r))
  BY TokenFixed
<1>4. \A s : Created(s) => Created(s)'
  BY CreatedHasToken, GatewayAssumption DEF Created, Grow
<1>5. CallbackInv(q)'
  BY DEF RequestInv, CallbackInv, Untouched, Grow
<1>6. SignOutInv(q)'
  BY <1>4 DEF RequestInv, SignOutInv, Untouched
<1>7. ApiInv(q)'
  BY <1>1, <1>2, <1>3 DEF RequestInv, ApiInv, Untouched, IdsOf, ApiPc
<1>8. EndedInv(q)'
  BY DEF RequestInv, EndedInv, Untouched, Grow
<1>9. RevokedInv(q)'
  BY <1>1, <1>2, <1>3 DEF RequestInv, RevokedInv, Untouched, Grow, Subject
<1> QED
  BY <1>5, <1>6, <1>7, <1>8, <1>9 DEF RequestInv

--------------------------------------------------------------------------------
(***************************************************************************)
(* Type correctness.                                                       *)
(***************************************************************************)

LEMMA GotoTyped ==
  ASSUME TypeOK, NEW q \in Requests, NEW l, Goto(q, l),
         l \in Working \cup {"failed", "signedIn", "signedOut", "denied", "served"}
  PROVE  /\ pc' \in [Requests ->
               Working \cup {"idle", "failed", "signedIn", "signedOut", "denied", "served"}]
         /\ pc'[q] = l
         /\ \A p \in Requests : p # q => pc'[p] = pc[p]
  BY DEF TypeOK, Goto

\* A token that is verified is somebody's, and what mapPlatformUserID answers for
\* it, looked up or not, is one of that person's ids.
LEMMA TokenTyped ==
  ASSUME TypeOK, NEW r, Arrived(r), r.via \in {"cookie", "bearer"}
  PROVE  TokenIn(r) \in Tokens
<1>1. CASE r.via = "bearer"
  BY <1>1, ApiFields DEF Arrived, TokenIn
<1>2. CASE r.via = "cookie"
  <2>1. Created(r.sid)
    BY <1>2 DEF Arrived
  <2>2. code[tokenOf[r.sid]].person \in Persons
    BY <2>1, CreatedHasToken DEF TypeOK
  <2>3. QED
    BY <1>2, <2>2 DEF TokenIn, Tokens
<1> QED
  BY <1>1, <1>2

LEMMA MappedToOwnId ==
  ASSUME NEW t \in Tokens, NEW u \in mapPlatformUserID(t)
  PROVE  u \in {"logto", "platform", "other"} \X {t.person} /\ u \in Ids
<1>1. t.person \in Persons
  BY DEF Tokens
<1>2. \E k \in {"logto", "platform", "other"} : u = <<k, t.person>>
  BY DEF mapPlatformUserID, UserID, Subject, ResolveLogto
<1> QED
  BY <1>1, <1>2 DEF Ids

\* Every step keeps the types.
LEMMA TypeStep == Inv /\ [Next]_vars => TypeOK'
<1> SUFFICES ASSUME Inv, [Next]_vars PROVE TypeOK'
  OBVIOUS
<1> TypeOK
  BY DEF Inv
<1>1. CASE \E st \in States : SignIn(st)
  BY <1>1 DEF SignIn, logto, store, history, TypeOK
<1>2. CASE \E c \in Codes, st \in States, p \in Persons : Authorize(c, st, p)
  <2>1. PICK c \in Codes, st \in States, p \in Persons : Authorize(c, st, p)
    BY <1>2
  <2>2. [state |-> st, person |-> p] \in [state : started, person : Persons]
    BY <2>1 DEF Authorize
  <2>3. code' \in [Codes -> [state : started, person : Persons] \cup {None}]
    BY <2>1, <2>2 DEF Authorize, TypeOK
  <2>4. spent \subseteq {x \in Codes : code'[x] # None}
    BY <2>1 DEF Authorize, TypeOK
  <2>5. QED
    BY <2>1, <2>3, <2>4 DEF Authorize, login, store, history, TypeOK
<1>3. CASE Expire
  BY <1>3 DEF Expire, history, TypeOK
<1>4. CASE \E x \in Ids : RevokeSubject(x)
  BY <1>4 DEF RevokeSubject, Revocations!Revoke, login, logto, history, TypeOK
<1>5. CASE \E q \in Requests, c \in Codes : Callback(q, c)
  <2>1. PICK q \in Requests, c \in Codes : Callback(q, c)
    BY <1>5
  <2>2. [via |-> "callback", code |-> c] \in Request
    BY DEF Request
  <2>3. req' \in [Requests -> Request \cup {None}]
    BY <2>1, <2>2 DEF Callback, TypeOK
  <2>4. QED
    BY <2>1, <2>3, GotoTyped DEF Callback, login, logto, store, history, TypeOK, Working
<1>6. CASE \E q \in Requests : ConsumeGet(q) \/ ConsumeDel(q) \/ Exchange(q)
  <2>1. PICK q \in Requests : ConsumeGet(q) \/ ConsumeDel(q) \/ Exchange(q)
    BY <1>6
  <2>2. CASE ConsumeGet(q)
    BY <2>2, GotoTyped DEF ConsumeGet, login, logto, store, history, TypeOK, Working
  <2>3. CASE ConsumeDel(q)
    BY <2>3, GotoTyped DEF ConsumeDel, logto, store, history, TypeOK, Working
  <2>4. CASE Exchange(q)
    <3>1. req[q].code \in Codes /\ code[req[q].code] # None
      BY <2>4 DEF Exchange, Inv, RequestInv, CallbackInv, CallbackPc
    <3>2. tokenOf \in [Sids -> spent' \cup {None}]
      BY <2>4 DEF Exchange, TypeOK
    <3>3. QED
      BY <2>4, <3>1, <3>2, GotoTyped DEF Exchange, login, store, history, TypeOK, Working
  <2>5. QED
    BY <2>1, <2>2, <2>3, <2>4
<1>7. CASE \E q \in Requests, s \in Sids : Create(q, s)
  <2>1. PICK q \in Requests, s \in Sids : Create(q, s)
    BY <1>7
  <2>2. req[q].code \in spent /\ req[q].code # None
    BY <2>1, GatewayAssumption DEF Create, Inv, RequestInv, CallbackInv, TypeOK
  <2>3. tokenOf' \in [Sids -> spent \cup {None}] /\ tokenOf'[s] # None
    BY <2>1, <2>2 DEF Create, TypeOK
  <2>4. sessions' \subseteq {x \in Sids : tokenOf'[x] # None}
    BY <2>1, <2>3 DEF Create, TypeOK
  <2>5. QED
    BY <2>1, <2>3, <2>4, GotoTyped DEF Create, login, logto, history, TypeOK, Working
<1>8. CASE \E q \in Requests, s \in Sids : SignOut(q, s)
  <2>1. PICK q \in Requests, s \in Sids : SignOut(q, s)
    BY <1>8
  <2>2. [via |-> "signOut", sid |-> s] \in Request
    BY DEF Request
  <2>3. req' \in [Requests -> Request \cup {None}]
    BY <2>1, <2>2 DEF SignOut, TypeOK
  <2>4. QED
    BY <2>1, <2>3, GotoTyped DEF SignOut, login, logto, store, history, TypeOK, Working
<1>9. CASE \E q \in Requests : Delete(q) \/ RevokeSession(q)
  <2>1. PICK q \in Requests : Delete(q) \/ RevokeSession(q)
    BY <1>9
  <2>2. req[q].sid \in Sids
    BY <2>1 DEF Delete, RevokeSession, Inv, RequestInv, SignOutInv, SignOutPc, Created
  <2>3. QED
    BY <2>1, <2>2, GotoTyped
    DEF Delete, RevokeSession, login, logto, history, TypeOK, Working
<1>10. CASE \E q \in Requests, r \in ApiRequest : Arrive(q, r)
  <2>1. PICK q \in Requests, r \in ApiRequest : Arrive(q, r)
    BY <1>10
  <2>2. \E l \in {"resolve", "denied", "session", "served"} : Goto(q, l)
    BY <2>1 DEF Arrive, Unauthenticated
  <2>3. pc' \in [Requests ->
              Working \cup {"idle", "failed", "signedIn", "signedOut", "denied", "served"}]
    BY <2>2, GotoTyped DEF Working
  <2>4. req' \in [Requests -> Request \cup {None}] /\ user' \in [Requests -> Ids \cup {None}]
    BY <2>1, ApiFields DEF Arrive, StripUntrusted, TypeOK
  <2>5. before' \in [Requests -> [ended : BOOLEAN, revoked : BOOLEAN]]
    BY <2>1 DEF Arrive, TypeOK
  <2>6. QED
    BY <2>1, <2>3, <2>4, <2>5 DEF Arrive, login, logto, store, TypeOK
<1>11. CASE \E q \in Requests : GetSession(q) \/ Resolve(q) \/ CheckSession(q) \/ CheckSubject(q)
  <2>1. PICK q \in Requests : GetSession(q) \/ Resolve(q) \/ CheckSession(q) \/ CheckSubject(q)
    BY <1>11
  <2>2. CASE GetSession(q)
    <3>1. \E l \in {"resolve", "denied", "served"} : Goto(q, l)
      BY <2>2 DEF GetSession, Unauthenticated
    <3>2. QED
      BY <2>2, <3>1, GotoTyped DEF GetSession, login, logto, history, TypeOK, Working
  <2>3. CASE Resolve(q)
    <3>1. TokenIn(req[q]) \in Tokens
      BY <2>3, TokenTyped DEF Resolve, Inv, RequestInv, ApiInv, ApiPc
    <3>2. user' \in [Requests -> Ids \cup {None}]
      BY <2>3, <3>1, MappedToOwnId DEF Resolve, TypeOK
    <3>3. \E l \in {"served", "checkSession", "checkSubject"} : Goto(q, l)
      BY <2>3 DEF Resolve
    <3>4. QED
      BY <2>3, <3>2, <3>3, GotoTyped DEF Resolve, login, logto, store, history, TypeOK, Working
  <2>4. CASE CheckSession(q) \/ CheckSubject(q)
    <3>1. \E l \in {"denied", "served", "checkSubject"} : Goto(q, l)
      BY <2>4 DEF CheckSession, CheckSubject, Lookup
    <3>2. QED
      BY <2>4, <3>1, GotoTyped
      DEF CheckSession, CheckSubject, Lookup, login, logto, store, TypeOK, Working
  <2>5. QED
    BY <2>1, <2>2, <2>3, <2>4
<1>12. CASE \E q \in Requests : Fail(q)
  BY <1>12, GotoTyped DEF Fail, login, logto, store, history, TypeOK
<1>13. CASE UNCHANGED vars
  BY <1>13 DEF vars, login, logto, store, history, TypeOK
<1> QED
  BY <1>1, <1>2, <1>3, <1>4, <1>5, <1>6, <1>7, <1>8, <1>9, <1>10, <1>11, <1>12, <1>13, NextCases

--------------------------------------------------------------------------------
(***************************************************************************)
(* Each step and its own request.                                          *)
(***************************************************************************)

\* A callback or a sign-out is no API request and has nothing to be checked.
LEMMA NoApiRequest ==
  ASSUME NEW q \in Requests, RequestInv(q), pc[q] \notin ApiPc \cup Over,
         before'[q] = before[q], pc'[q] \notin ApiPc \cup {"served"}
  PROVE  ApiInv(q)' /\ EndedInv(q)' /\ RevokedInv(q)'
  BY DEF RequestInv, ApiInv, EndedInv, RevokedInv, ApiPc, CheckPc, Over

LEMMA CallbackStep ==
  ASSUME Inv, Grow, NEW q \in Requests, NEW c \in Codes, Callback(q, c)
  PROVE  RequestInv(q)' /\ Only(q)
<1>1. pc'[q] = "get" /\ req'[q] = [via |-> "callback", code |-> c] /\ before'[q] = before[q]
  BY DEF Callback, Goto, history, Inv, TypeOK
<1>2. CallbackInv(q)' /\ SignOutInv(q)'
  BY <1>1 DEF CallbackInv, SignOutInv, CallbackPc, SignOutPc, Callback, logto
<1>3. ApiInv(q)' /\ EndedInv(q)' /\ RevokedInv(q)'
  BY <1>1, NoApiRequest DEF Inv, Callback, ApiPc, CheckPc, Over
<1>4. Only(q)
  BY DEF Callback, Goto, history, Inv, TypeOK, Only, Untouched
<1> QED
  BY <1>2, <1>3, <1>4 DEF RequestInv

LEMMA ExchangeStep ==
  ASSUME Inv, Grow, NEW q \in Requests, ConsumeGet(q) \/ ConsumeDel(q) \/ Exchange(q)
  PROVE  RequestInv(q)' /\ Only(q)
<1>1. /\ pc'[q] \in {"del", "exchange", "create", "failed"} /\ pc[q] \in CallbackPc
      /\ req'[q] = req[q] /\ before'[q] = before[q]
      /\ code' = code /\ tokenOf' = tokenOf
  BY DEF ConsumeGet, ConsumeDel, Exchange, Goto, history, store, logto, Inv, TypeOK, CallbackPc
<1>2. req[q].code \in Codes /\ code[req[q].code] # None
  BY <1>1 DEF Inv, RequestInv, CallbackInv
<1>3. ASSUME pc'[q] = "create"
      PROVE  req[q].code \in spent' /\ \A s \in Sids : tokenOf[s] # req[q].code
  <2>1. Exchange(q) /\ req[q].code \notin spent
    BY <1>1, <1>3 DEF ConsumeGet, ConsumeDel, Exchange, Goto, Inv, TypeOK
  <2>2. QED
    BY <1>2, <2>1, GatewayAssumption DEF Exchange, Inv, TypeOK
<1>4. CallbackInv(q)' /\ SignOutInv(q)'
  BY <1>1, <1>2, <1>3 DEF CallbackInv, SignOutInv, SignOutPc
<1>5. ApiInv(q)' /\ EndedInv(q)' /\ RevokedInv(q)'
  BY <1>1, NoApiRequest DEF Inv, ApiPc, CheckPc, Over, CallbackPc
<1>6. Only(q)
  BY DEF ConsumeGet, ConsumeDel, Exchange, Goto, history, Inv, TypeOK, Only, Untouched
<1> QED
  BY <1>4, <1>5, <1>6 DEF RequestInv

LEMMA CreateStep ==
  ASSUME Inv, Grow, NEW q \in Requests, NEW s \in Sids, Create(q, s)
  PROVE  RequestInv(q)' /\ Only(q)
<1>1. /\ pc'[q] \in {"signedIn", "failed"} /\ pc[q] = "create"
      /\ before'[q] = before[q]
  BY DEF Create, Goto, history, Inv, TypeOK
<1>2. CallbackInv(q)' /\ SignOutInv(q)'
  BY <1>1 DEF CallbackInv, SignOutInv, CallbackPc, SignOutPc
<1>3. ApiInv(q)' /\ EndedInv(q)' /\ RevokedInv(q)'
  BY <1>1, NoApiRequest DEF Inv, ApiPc, CheckPc, Over
<1>4. Only(q)
  BY DEF Create, Goto, history, Inv, TypeOK, Only, Untouched
<1> QED
  BY <1>2, <1>3, <1>4 DEF RequestInv

LEMMA SignOutStep ==
  ASSUME Inv, Grow, NEW q \in Requests, NEW s \in Sids, SignOut(q, s)
  PROVE  RequestInv(q)' /\ Only(q)
<1>1. pc'[q] = "delete" /\ req'[q] = [via |-> "signOut", sid |-> s] /\ before'[q] = before[q]
  BY DEF SignOut, Goto, history, Inv, TypeOK
<1>2. Created(s)
  BY DEF SignOut, Cookies, Inv, CookiesMade
<1>3. CallbackInv(q)' /\ SignOutInv(q)'
  BY <1>1, <1>2 DEF CallbackInv, SignOutInv, CallbackPc, SignOutPc, SignOut, store, Created
<1>4. ApiInv(q)' /\ EndedInv(q)' /\ RevokedInv(q)'
  BY <1>1, NoApiRequest DEF Inv, SignOut, ApiPc, CheckPc, Over
<1>5. Only(q)
  BY DEF SignOut, Goto, history, Inv, TypeOK, Only, Untouched
<1> QED
  BY <1>3, <1>4, <1>5 DEF RequestInv

LEMMA DeleteStep ==
  ASSUME Inv, Grow, NEW q \in Requests, Delete(q) \/ RevokeSession(q)
  PROVE  RequestInv(q)' /\ Only(q)
<1>1. /\ pc'[q] \in {"revoke", "signedOut"} /\ pc[q] \in SignOutPc
      /\ req'[q] = req[q] /\ before'[q] = before[q] /\ tokenOf' = tokenOf
  BY DEF Delete, RevokeSession, Goto, history, Inv, TypeOK, SignOutPc
<1>2. CallbackInv(q)' /\ SignOutInv(q)'
  <2>1. Created(req[q].sid)
    BY <1>1 DEF Inv, RequestInv, SignOutInv
  <2>2. QED
    BY <1>1, <2>1 DEF CallbackInv, SignOutInv, CallbackPc, SignOutPc, Created
<1>3. ApiInv(q)' /\ EndedInv(q)' /\ RevokedInv(q)'
  BY <1>1, NoApiRequest DEF Inv, ApiPc, CheckPc, Over, SignOutPc
<1>4. Only(q)
  BY DEF Delete, RevokeSession, Goto, history, Inv, TypeOK, Only, Untouched
<1> QED
  BY <1>2, <1>3, <1>4 DEF RequestInv

\* A request that fails has nothing left to do.
LEMMA FailStep ==
  ASSUME Inv, Grow, NEW q \in Requests, Fail(q)
  PROVE  RequestInv(q)' /\ Only(q)
<1>1. /\ pc'[q] = "failed" /\ req'[q] = req[q] /\ before'[q] = before[q]
      /\ ended' = ended /\ pc[q] \in Working
  BY DEF Fail, Goto, history, Inv, TypeOK
<1>2. CallbackInv(q)' /\ SignOutInv(q)' /\ ApiInv(q)'
  BY <1>1 DEF CallbackInv, SignOutInv, ApiInv, CallbackPc, SignOutPc, ApiPc, CheckPc
<1>3. EndedInv(q)'
  BY <1>1 DEF EndedInv, Inv, RequestInv, Over
<1>4. RevokedInv(q)'
  <2>1. PICK r : r = req[q]
    OBVIOUS
  <2>2. Arrived(r) /\ r.via # "none" => Arrived(r)' /\ TokenIn(r)' = TokenIn(r)
    BY TokenFixed DEF Inv
  <2>3. RevokedInv(q) /\ req'[q] = r
    BY <1>1, <2>1 DEF Inv, RequestInv
  <2>4. QED
    BY <1>1, <2>1, <2>2, <2>3 DEF RevokedInv, Over, Grow, Subject
<1>5. Only(q)
  BY DEF Fail, Goto, history, Inv, TypeOK, Only, Untouched
<1> QED
  BY <1>2, <1>3, <1>4, <1>5 DEF RequestInv

LEMMA ArriveStep ==
  ASSUME Inv, Grow, NEW q \in Requests, NEW r \in ApiRequest, Arrive(q, r)
  PROVE  RequestInv(q)' /\ Only(q)
<1> TypeOK
  BY DEF Inv
<1>1. /\ req'[q] = r /\ user'[q] = None
      /\ before'[q].ended = (r.via = "cookie" /\ r.sid \in ended)
      /\ before'[q].revoked = \/ r.via # "none" /\ Subject(TokenIn(r)) \in revokedSubs
                              \/ r.via = "cookie" /\ r.sid \in revokedSids
  BY DEF Arrive, StripUntrusted, TypeOK
<1>2. \/ r.via = "bearer" /\ pc'[q] \in {"resolve", "denied"}
      \/ r.via = "cookie" /\ pc'[q] = "session"
      \/ r.via = "none" /\ pc'[q] \in {"served", "denied"} /\ (pc'[q] = "served" => r.path.anon)
  BY DEF Arrive, Unauthenticated, Goto, TypeOK
<1>3. Arrived(r)
  BY DEF Arrive, Arrived, Cookies, Inv, CookiesMade
<1>4. Arrived(r)' /\ (r.via # "none" => TokenIn(r)' = TokenIn(r))
  BY <1>3, TokenFixed
<1>5. CallbackInv(q)' /\ SignOutInv(q)'
  BY <1>2 DEF CallbackInv, SignOutInv, CallbackPc, SignOutPc
<1>6. ApiInv(q)'
  BY <1>1, <1>2, <1>4 DEF ApiInv, ApiPc, CheckPc
<1>7. EndedInv(q)'
  BY <1>1, <1>2 DEF EndedInv, Over, Grow
<1>8. RevokedInv(q)'
  <2>1. SUFFICES ASSUME before'[q].revoked PROVE RevokedInv(q)'
    BY DEF RevokedInv
  <2>2. r.via # "none" /\ pc'[q] \in {"session", "resolve", "denied"}
    BY <1>1, <1>2, <2>1
  <2>3. Subject(TokenIn(r)') = Subject(TokenIn(r))
    BY <1>4, <2>2
  <2>4. QED
    BY <1>1, <1>4, <2>1, <2>2, <2>3 DEF RevokedInv, ApiPc, Over, Grow
<1>9. Only(q)
  BY DEF Arrive, Unauthenticated, Goto, TypeOK, Only, Untouched
<1> QED
  BY <1>5, <1>6, <1>7, <1>8, <1>9 DEF RequestInv

\* What is known of an API request that goes on: it is the one that arrived, with
\* the same token, and what was revoked then is revoked.
LEMMA GoesOn ==
  ASSUME Inv, Grow, NEW q \in Requests, pc[q] \in ApiPc,
         NEW r, r = req[q]
  PROVE  /\ Arrived(r) /\ Arrived(r)' /\ r.via \in {"cookie", "bearer"}
         /\ TokenIn(r)' = TokenIn(r)
         /\ before[q].revoked => \/ Subject(TokenIn(r)) \in revokedSubs'
                                 \/ r.via = "cookie" /\ r.sid \in revokedSids'
<1>1. Arrived(r) /\ r.via \in {"cookie", "bearer"}
  BY DEF Inv, RequestInv, ApiInv
<1>2. Arrived(r)' /\ TokenIn(r)' = TokenIn(r)
  BY <1>1, TokenFixed DEF Inv
<1>3. before[q].revoked => \/ Subject(TokenIn(r)) \in revokedSubs
                           \/ r.via = "cookie" /\ r.sid \in revokedSids
  BY DEF Inv, RequestInv, RevokedInv
<1> QED
  BY <1>1, <1>2, <1>3 DEF Grow

\* A session that a sign-out ended is not found; without one a request is anonymous.
LEMMA GetSessionStep ==
  ASSUME Inv, Grow, NEW q \in Requests, GetSession(q)
  PROVE  RequestInv(q)' /\ Only(q)
<1> TypeOK
  BY DEF Inv
<1> PICK r : r = req[q]
  OBVIOUS
<1>1. /\ pc[q] = "session" /\ req'[q] = r /\ user'[q] = user[q] /\ before'[q] = before[q]
      /\ r.via = "cookie" /\ user[q] = None
  BY DEF GetSession, history, Inv, RequestInv, ApiInv
<1>2. \/ pc'[q] = "resolve" /\ r.sid \in sessions
      \/ pc'[q] = "served" /\ r.path.anon
      \/ pc'[q] = "denied"
  BY DEF GetSession, Unauthenticated, Goto, TypeOK
<1>3. Arrived(r)'
  BY <1>1, GoesOn DEF ApiPc
<1>4. CallbackInv(q)' /\ SignOutInv(q)'
  BY <1>2 DEF CallbackInv, SignOutInv, CallbackPc, SignOutPc
<1>5. ApiInv(q)'
  BY <1>1, <1>2, <1>3 DEF ApiInv, CheckPc
<1>6. EndedInv(q)'
  <2>1. before[q].ended => r.sid \in ended /\ pc'[q] # "resolve"
    BY <1>1, <1>2 DEF Inv, RequestInv, EndedInv, EndedGone
  <2>2. QED
    BY <1>1, <1>2, <2>1 DEF EndedInv, Over, Grow
<1>7. RevokedInv(q)'
  <2>1. SUFFICES ASSUME before'[q].revoked PROVE RevokedInv(q)'
    BY DEF RevokedInv
  <2>2. /\ TokenIn(r)' = TokenIn(r)
        /\ Subject(TokenIn(r)) \in revokedSubs' \/ r.sid \in revokedSids'
    BY <1>1, <2>1, GoesOn DEF ApiPc
  <2>3. Subject(TokenIn(r)') \in revokedSubs' \/ r.sid \in revokedSids'
    BY <2>2
  <2>4. QED
    BY <1>1, <1>2, <1>3, <2>3 DEF RevokedInv, ApiPc, Over
<1>8. Only(q)
  BY DEF GetSession, Unauthenticated, Goto, history, TypeOK, Only, Untouched
<1> QED
  BY <1>4, <1>5, <1>6, <1>7, <1>8 DEF RequestInv

LEMMA ResolveStep ==
  ASSUME Inv, Grow, NEW q \in Requests, Resolve(q)
  PROVE  RequestInv(q)' /\ Only(q)
<1> TypeOK
  BY DEF Inv
<1> PICK r : r = req[q]
  OBVIOUS
<1>1. pc[q] = "resolve" /\ req'[q] = r /\ before'[q] = before[q] /\ redis' = redis
  BY DEF Resolve, history
<1>2. \/ pc'[q] = "served" /\ ~(r.path.sensitive /\ redis)
      \/ pc'[q] = "checkSession" /\ r.via = "cookie"
      \/ pc'[q] = "checkSubject" /\ r.via # "cookie"
  BY DEF Resolve, Goto, TypeOK
<1>3. Arrived(r) /\ Arrived(r)' /\ r.via \in {"cookie", "bearer"} /\ TokenIn(r)' = TokenIn(r)
  BY <1>1, GoesOn DEF ApiPc
<1>4. user'[q] \in IdsOf(r)
  BY <1>3, TokenTyped, MappedToOwnId DEF Resolve, TypeOK, IdsOf
<1>5. CallbackInv(q)' /\ SignOutInv(q)'
  BY <1>2 DEF CallbackInv, SignOutInv, CallbackPc, SignOutPc
<1>6. ApiInv(q)'
  BY <1>1, <1>2, <1>3, <1>4 DEF ApiInv, CheckPc, IdsOf
<1>7. EndedInv(q)'
  BY <1>1 DEF EndedInv, Inv, RequestInv, Over
<1>8. RevokedInv(q)'
  <2>1. SUFFICES ASSUME before'[q].revoked PROVE RevokedInv(q)'
    BY DEF RevokedInv
  <2>2. /\ TokenIn(r)' = TokenIn(r)
        /\ Subject(TokenIn(r)) \in revokedSubs' \/ (r.via = "cookie" /\ r.sid \in revokedSids')
    BY <1>1, <2>1, GoesOn DEF ApiPc
  <2>3. Subject(TokenIn(r)') \in revokedSubs' \/ (r.via = "cookie" /\ r.sid \in revokedSids')
    BY <2>2
  <2>4. QED
    BY <1>1, <1>2, <1>3, <2>3 DEF RevokedInv, ApiPc, CheckPc, Over
<1>9. Only(q)
  BY DEF Resolve, Goto, history, TypeOK, Only, Untouched
<1> QED
  BY <1>5, <1>6, <1>7, <1>8, <1>9 DEF RequestInv

\* A lookup finds what was revoked, or fails and is noted.
LEMMA LookupStep ==
  ASSUME Inv, Grow, NEW q \in Requests, CheckSession(q) \/ CheckSubject(q)
  PROVE  RequestInv(q)' /\ Only(q)
<1> TypeOK
  BY DEF Inv
<1> PICK r : r = req[q]
  OBVIOUS
<1>1. /\ pc[q] \in CheckPc /\ req'[q] = r /\ before'[q] = before[q] /\ user'[q] = user[q]
      /\ revokedSids' = revokedSids /\ revokedSubs' = revokedSubs
  BY DEF CheckSession, CheckSubject, Lookup, store, CheckPc
<1>2. \/ pc[q] = "checkSession" /\ pc'[q] \in {"denied", "checkSubject"}
      \/ pc[q] = "checkSubject" /\ pc'[q] \in {"denied", "served"}
  BY DEF CheckSession, CheckSubject, Lookup, Goto, TypeOK
<1>3. /\ blind[q] => blind'[q]
      /\ pc'[q] = "checkSubject" => blind'[q] \/ r.sid \notin revokedSids
      /\ pc'[q] = "served" => blind'[q] \/ Subject(TokenIn(r)) \notin revokedSubs
  BY <1>2 DEF CheckSession, CheckSubject, Lookup, Goto, TypeOK
<1>4. Arrived(r) /\ Arrived(r)' /\ r.via \in {"cookie", "bearer"} /\ TokenIn(r)' = TokenIn(r)
  BY <1>1, GoesOn DEF ApiPc
<1>5. CallbackInv(q)' /\ SignOutInv(q)'
  BY <1>2 DEF CallbackInv, SignOutInv, CallbackPc, SignOutPc
<1>6. ApiInv(q)'
  <2>1. user[q] \in IdsOf(r)
    BY <1>1 DEF Inv, RequestInv, ApiInv
  <2>2. QED
    BY <1>1, <1>2, <1>4, <2>1 DEF ApiInv, CheckPc, IdsOf
<1>7. EndedInv(q)'
  BY <1>1 DEF EndedInv, Inv, RequestInv, Over, CheckPc
<1>8. RevokedInv(q)'
  <2>1. SUFFICES ASSUME before'[q].revoked PROVE RevokedInv(q)'
    BY DEF RevokedInv
  <2>2. \/ Subject(TokenIn(r)) \in revokedSubs
        \/ r.via = "cookie" /\ r.sid \in revokedSids
    BY <1>1, <2>1, GoesOn DEF ApiPc
  <2>3. pc[q] = "checkSubject" => blind[q] \/ Subject(TokenIn(r)) \in revokedSubs
    BY <1>1, <2>1 DEF Inv, RequestInv, RevokedInv
  <2>4. Subject(TokenIn(r)') = Subject(TokenIn(r))
    BY <1>4
  <2>5. QED
    BY <1>1, <1>2, <1>3, <1>4, <2>2, <2>3, <2>4 DEF RevokedInv, ApiPc, CheckPc, Over
<1>9. Only(q)
  BY DEF CheckSession, CheckSubject, Lookup, Goto, TypeOK, Only, Untouched
<1> QED
  BY <1>5, <1>6, <1>7, <1>8, <1>9 DEF RequestInv

\* Every step keeps what is known of every request.  Only Create could disturb
\* another one, and it does not: no other callback is about to create with its code.
LEMMA RequestStep == Inv /\ [Next]_vars => \A q \in Requests : RequestInv(q)'
<1> SUFFICES ASSUME Inv, [Next]_vars, NEW q \in Requests PROVE RequestInv(q)'
  OBVIOUS
<1>g. TypeOK /\ Grow /\ RequestInv(q)
  BY Grows DEF Inv
<1>s. pc[q] = "create" => \A s \in Sids : tokenOf[s] # req[q].code
  BY <1>g DEF RequestInv, CallbackInv
<1>k. ASSUME Untouched(q), tokenOf' = tokenOf PROVE RequestInv(q)'
  BY <1>g, <1>s, <1>k, OthersKeep
<1>1. CASE \E st \in States : SignIn(st)
  BY <1>1, <1>k DEF SignIn, store, history, Untouched
<1>2. CASE \E c \in Codes, st \in States, p \in Persons : Authorize(c, st, p)
  BY <1>2, <1>k DEF Authorize, store, history, Untouched
<1>3. CASE Expire
  BY <1>3, <1>k DEF Expire, history, Untouched
<1>4. CASE \E x \in Ids : RevokeSubject(x)
  BY <1>4, <1>k DEF RevokeSubject, Revocations!Revoke, history, Untouched
<1>5. CASE \E p \in Requests, c \in Codes : Callback(p, c)
  <2>1. PICK p \in Requests, c \in Codes : Callback(p, c)
    BY <1>5
  <2>2. tokenOf' = tokenOf
    BY <2>1 DEF Callback, store
  <2>3. RequestInv(p)' /\ Only(p)
    BY <1>g, <2>1, CallbackStep
  <2>4. QED
    BY <1>k, <2>2, <2>3 DEF Only
<1>6. CASE \E p \in Requests : ConsumeGet(p) \/ ConsumeDel(p) \/ Exchange(p)
  <2>1. PICK p \in Requests : ConsumeGet(p) \/ ConsumeDel(p) \/ Exchange(p)
    BY <1>6
  <2>2. tokenOf' = tokenOf
    BY <2>1 DEF ConsumeGet, ConsumeDel, Exchange, store
  <2>3. RequestInv(p)' /\ Only(p)
    BY <1>g, <2>1, ExchangeStep
  <2>4. QED
    BY <1>k, <2>2, <2>3 DEF Only
<1>7. CASE \E p \in Requests, s \in Sids : Create(p, s)
  <2>1. PICK p \in Requests, s \in Sids : Create(p, s)
    BY <1>7
  <2>2. RequestInv(p)' /\ Only(p)
    BY <1>g, <2>1, CreateStep
  <2>3. ASSUME p # q, pc[q] = "create" PROVE \A t \in Sids : tokenOf'[t] # req[q].code
    <3>1. req[p].code # req[q].code
      BY <2>1, <2>3 DEF Create, Inv, CreateAlone
    <3>2. QED
      BY <1>s, <2>1, <2>3, <3>1 DEF Create, Inv, TypeOK
  <2>4. QED
    BY <1>g, <2>2, <2>3, OthersKeep DEF Only
<1>8. CASE \E p \in Requests, s \in Sids : SignOut(p, s)
  <2>1. PICK p \in Requests, s \in Sids : SignOut(p, s)
    BY <1>8
  <2>2. tokenOf' = tokenOf
    BY <2>1 DEF SignOut, store
  <2>3. RequestInv(p)' /\ Only(p)
    BY <1>g, <2>1, SignOutStep
  <2>4. QED
    BY <1>k, <2>2, <2>3 DEF Only
<1>9. CASE \E p \in Requests : Delete(p) \/ RevokeSession(p)
  <2>1. PICK p \in Requests : Delete(p) \/ RevokeSession(p)
    BY <1>9
  <2>2. tokenOf' = tokenOf
    BY <2>1 DEF Delete, RevokeSession
  <2>3. RequestInv(p)' /\ Only(p)
    BY <1>g, <2>1, DeleteStep
  <2>4. QED
    BY <1>k, <2>2, <2>3 DEF Only
<1>10. CASE \E p \in Requests, r \in ApiRequest : Arrive(p, r)
  <2>1. PICK p \in Requests, r \in ApiRequest : Arrive(p, r)
    BY <1>10
  <2>2. tokenOf' = tokenOf
    BY <2>1 DEF Arrive, store
  <2>3. RequestInv(p)' /\ Only(p)
    BY <1>g, <2>1, ArriveStep
  <2>4. QED
    BY <1>k, <2>2, <2>3 DEF Only
<1>11. CASE \E p \in Requests : GetSession(p) \/ Resolve(p) \/ CheckSession(p) \/ CheckSubject(p)
  <2>1. PICK p \in Requests : GetSession(p) \/ Resolve(p) \/ CheckSession(p) \/ CheckSubject(p)
    BY <1>11
  <2>2. tokenOf' = tokenOf
    BY <2>1 DEF GetSession, Resolve, CheckSession, CheckSubject, Lookup, store
  <2>3. RequestInv(p)' /\ Only(p)
    BY <1>g, <2>1, GetSessionStep, ResolveStep, LookupStep
  <2>4. QED
    BY <1>k, <2>2, <2>3 DEF Only
<1>12. CASE \E p \in Requests : Fail(p)
  <2>1. PICK p \in Requests : Fail(p)
    BY <1>12
  <2>2. tokenOf' = tokenOf
    BY <2>1 DEF Fail, store
  <2>3. RequestInv(p)' /\ Only(p)
    BY <1>g, <2>1, FailStep
  <2>4. QED
    BY <1>k, <2>2, <2>3 DEF Only
<1>13. CASE UNCHANGED vars
  BY <1>13, <1>k DEF vars, store, history, Untouched
<1> QED
  BY <1>1, <1>2, <1>3, <1>4, <1>5, <1>6, <1>7, <1>8, <1>9, <1>10, <1>11, <1>12, <1>13, NextCases

--------------------------------------------------------------------------------
(***************************************************************************)
(* Codes and sessions.                                                     *)
(***************************************************************************)

\* A step is a Create, or it makes no session and hands out no cookie.
LEMMA CreateOrNot ==
  ASSUME [Next]_vars
  PROVE  \/ \E q \in Requests, s \in Sids : Create(q, s)
         \/ tokenOf' = tokenOf /\ sid' = sid /\ sessions' \subseteq sessions
<1>1. \A q, r : Arrive(q, r) => tokenOf' = tokenOf /\ sid' = sid /\ sessions' = sessions
  BY DEF Arrive, store
<1>2. \A q : GetSession(q) \/ Resolve(q) \/ CheckSession(q) \/ CheckSubject(q)
               => tokenOf' = tokenOf /\ sid' = sid /\ sessions' \subseteq sessions
  BY DEF GetSession, Resolve, CheckSession, CheckSubject, Lookup, store
<1>3. \A q : Delete(q) \/ RevokeSession(q)
               => tokenOf' = tokenOf /\ sid' = sid /\ sessions' \subseteq sessions
  BY DEF Delete, RevokeSession
<1>4. \A q : ConsumeGet(q) \/ ConsumeDel(q) \/ Exchange(q) \/ Fail(q)
               => tokenOf' = tokenOf /\ sid' = sid /\ sessions' = sessions
  BY DEF ConsumeGet, ConsumeDel, Exchange, Fail, store
<1>5. \A q, s : Callback(q, s) \/ SignOut(q, s)
               => tokenOf' = tokenOf /\ sid' = sid /\ sessions' = sessions
  BY DEF Callback, SignOut, store
<1>6. \A c, st, p : SignIn(st) \/ Authorize(c, st, p) \/ RevokeSubject(p)
               => tokenOf' = tokenOf /\ sid' = sid /\ sessions' = sessions
  BY DEF SignIn, Authorize, RevokeSubject, Revocations!Revoke, store
<1>7. Expire \/ UNCHANGED vars
               => tokenOf' = tokenOf /\ sid' = sid /\ sessions' \subseteq sessions
  BY DEF Expire, vars, store
<1> QED
  BY <1>1, <1>2, <1>3, <1>4, <1>5, <1>6, <1>7, NextCases

\* Every cookie is that of a session that was created, and a login has one session.
LEMMA SessionStep == Inv /\ [Next]_vars => CookiesMade' /\ OneSessionPerLogin'
<1> SUFFICES ASSUME Inv, [Next]_vars PROVE CookiesMade' /\ OneSessionPerLogin'
  OBVIOUS
<1>1. CASE \E q \in Requests, s \in Sids : Create(q, s)
  <2>1. PICK q \in Requests, s \in Sids : Create(q, s)
    BY <1>1
  <2>2. req[q].code # None /\ \A t \in Sids : tokenOf[t] # req[q].code
    BY <2>1, GatewayAssumption DEF Create, Inv, RequestInv, CallbackInv, CallbackPc
  <2>3. tokenOf' = [tokenOf EXCEPT ![s] = req[q].code]
    BY <2>1 DEF Create
  <2>4. sid' = sid \/ sid' = [sid EXCEPT ![q] = s]
    BY <2>1 DEF Create
  <2>5. CookiesMade'
    BY <2>2, <2>3, <2>4 DEF CookiesMade, Created, Inv, TypeOK
  <2>6. OneSessionPerLogin'
    BY <2>2, <2>3 DEF OneSessionPerLogin, Inv, TypeOK
  <2>7. QED
    BY <2>5, <2>6
<1>2. CASE tokenOf' = tokenOf /\ sid' = sid
  BY <1>2 DEF Inv, CookiesMade, OneSessionPerLogin, Created
<1> QED
  BY <1>1, <1>2, CreateOrNot

\* Only a sign-out ends sessions for good, and it takes them out of Redis.
LEMMA EndedStep == Inv /\ [Next]_vars => EndedGone'
<1> SUFFICES ASSUME Inv, [Next]_vars PROVE EndedGone'
  OBVIOUS
<1>1. Grow
  BY Grows DEF Inv
<1>2. ASSUME NEW s \in ended PROVE Created(s)' /\ s \notin sessions'
  <2>1. Created(s) /\ s \notin sessions
    BY <1>2 DEF Inv, EndedGone
  <2>2. Created(s)'
    BY <1>1, <2>1 DEF Created, Grow
  <2>3. s \notin sessions'
    BY <2>1, CreateOrNot DEF Create, Created
  <2>4. QED
    BY <2>2, <2>3
<1>3. \/ ended' = ended
      \/ \E q \in Requests : /\ Created(req[q].sid) /\ tokenOf' = tokenOf
                             /\ ended' = ended \cup {req[q].sid}
                             /\ sessions' = sessions \ {req[q].sid}
  <2>1. ASSUME NEW q \in Requests, Delete(q)
        PROVE  \/ ended' = ended
               \/ /\ Created(req[q].sid) /\ tokenOf' = tokenOf
                  /\ ended' = ended \cup {req[q].sid}
                  /\ sessions' = sessions \ {req[q].sid}
    BY <2>1 DEF Delete, Inv, RequestInv, SignOutInv, SignOutPc
  <2>2. CASE \A q \in Requests : ~Delete(q)
    <3>1. \A c, st, p : SignIn(st) \/ Authorize(c, st, p) \/ RevokeSubject(p) => ended' = ended
      BY DEF SignIn, Authorize, RevokeSubject, Revocations!Revoke, history
    <3>2. \A q, s : Callback(q, s) \/ SignOut(q, s) \/ Create(q, s) => ended' = ended
      BY DEF Callback, SignOut, Create, history
    <3>3. \A q : ConsumeGet(q) \/ ConsumeDel(q) \/ Exchange(q) \/ Fail(q) \/ RevokeSession(q)
                   => ended' = ended
      BY DEF ConsumeGet, ConsumeDel, Exchange, Fail, RevokeSession, history
    <3>4. \A q : GetSession(q) \/ Resolve(q) \/ CheckSession(q) \/ CheckSubject(q)
                   => ended' = ended
      BY DEF GetSession, Resolve, CheckSession, CheckSubject, Lookup, history
    <3>5. \A q, r : Arrive(q, r) => ended' = ended
      BY DEF Arrive
    <3>6. Expire \/ UNCHANGED vars => ended' = ended
      BY DEF Expire, vars, history
    <3>7. QED
      BY <2>2, <3>1, <3>2, <3>3, <3>4, <3>5, <3>6, NextCases
  <2>3. QED
    BY <2>1, <2>2
<1> QED
  BY <1>2, <1>3 DEF EndedGone, Created

\* Logto takes a code once, so two callbacks do not both get to create with it.
LEMMA CreateAloneStep == Inv /\ [Next]_vars => CreateAlone'
<1> SUFFICES ASSUME Inv, [Next]_vars,
                    NEW q \in Requests, NEW p \in Requests, pc'[q] = "create", pc'[p] = "create",
                    req'[q].code = req'[p].code
             PROVE  q = p
  BY DEF CreateAlone
<1>1. ASSUME NEW x \in Requests, pc'[x] = "create"
      PROVE  /\ req'[x] = req[x]
             /\ \/ pc[x] = "create" /\ req[x].code \in spent
                \/ /\ req[x].code \notin spent
                   /\ \A y \in Requests : y # x => pc'[y] = pc[y]
  <2>1. pc[x] = "create" => req[x].code \in spent
    BY DEF Inv, RequestInv, CallbackInv
  <2>2. \A c, st, r : SignIn(st) \/ Authorize(c, st, r) \/ RevokeSubject(r)
                        => pc' = pc /\ req' = req
    BY DEF SignIn, Authorize, RevokeSubject, Revocations!Revoke
  <2>3. Expire \/ UNCHANGED vars => pc' = pc /\ req' = req
    BY DEF Expire, vars
  <2>4. \A y \in Requests : \A s : Callback(y, s) \/ SignOut(y, s) \/ Create(y, s) \/ Arrive(y, s)
               => pc'[x] = pc[x] /\ req'[x] = req[x]
    BY <1>1 DEF Callback, SignOut, Create, Arrive, Unauthenticated, Goto, Inv, TypeOK
  <2>5. \A y \in Requests : \/ ConsumeGet(y) \/ ConsumeDel(y) \/ Fail(y)
                            \/ Delete(y) \/ RevokeSession(y)
               => pc'[x] = pc[x] /\ req'[x] = req[x]
    BY <1>1 DEF ConsumeGet, ConsumeDel, Fail, Delete, RevokeSession, Goto, Inv, TypeOK
  <2>6. \A y \in Requests : GetSession(y) \/ Resolve(y) \/ CheckSession(y) \/ CheckSubject(y)
               => pc'[x] = pc[x] /\ req'[x] = req[x]
    BY <1>1 DEF GetSession, Resolve, CheckSession, CheckSubject, Lookup,
                Unauthenticated, Goto, Inv, TypeOK
  <2>7. ASSUME NEW y \in Requests, Exchange(y)
        PROVE  /\ req'[x] = req[x]
               /\ \/ pc'[x] = pc[x]
                  \/ req[x].code \notin spent /\ \A z \in Requests : z # x => pc'[z] = pc[z]
    BY <1>1, <2>7 DEF Exchange, Goto, Inv, TypeOK
  <2>8. QED
    BY <1>1, <2>1, <2>2, <2>3, <2>4, <2>5, <2>6, <2>7, NextCases
<1>2. QED
  BY <1>1 DEF Inv, CreateAlone

--------------------------------------------------------------------------------
(***************************************************************************)
(* The theorems.                                                           *)
(***************************************************************************)

LEMMA Invariant == Spec => []Inv
<1>1. Init => Inv
  BY DEF Init, Inv, TypeOK, CookiesMade, EndedGone, OneSessionPerLogin, CreateAlone, RequestInv,
         CallbackInv, SignOutInv, ApiInv, EndedInv, RevokedInv,
         CallbackPc, SignOutPc, CheckPc, ApiPc
<1>2. Inv /\ [Next]_vars => Inv'
  BY TypeStep, RequestStep, SessionStep, EndedStep, CreateAloneStep DEF Inv
<1> QED
  BY <1>1, <1>2, PTL DEF Spec

\* TypeOK holds of every reachable state: a session holds a code that Logto has
\* exchanged, and requests, cookies and users are what they should be.
THEOREM TypeCorrect == Spec => []TypeOK
  BY Invariant, PTL DEF Inv

\* However often a browser repeats /callback, and however many callbacks run at once
\* past the two commands of ConsumePending, a login gives one session.
THEOREM OneSession == Spec => []OneSessionPerLogin
  BY Invariant, PTL DEF Inv

\* What Authenticate forwards as the user is the person behind the token it verified,
\* the one who logged in at Logto if it came with a session, or nobody on an
\* anonymous path.
THEOREM Forwarded == Spec => []ForwardedIsVerified
<1>1. Inv => ForwardedIsVerified
  BY DEF Inv, RequestInv, ApiInv, IdsOf, ForwardedIsVerified
<1> QED
  BY <1>1, Invariant, PTL

\* A request that arrives with the cookie of a session that a sign-out has deleted is
\* not let in as its user, whatever else happens to the session.
THEOREM SignedOut == Spec => []SignedOutStaysOut
<1>1. Inv => SignedOutStaysOut
  BY DEF Inv, RequestInv, EndedInv, Over, SignedOutStaysOut
<1> QED
  BY <1>1, Invariant, PTL

\* On a sensitive path a request that was revoked when it arrived, by its session or
\* its subject, is served as its user only if a lookup of it failed.
THEOREM Revoked == Spec => []RevokedIsDenied
<1>1. Inv => RevokedIsDenied
  BY DEF Inv, RequestInv, RevokedInv, RevokedIsDenied
<1> QED
  BY <1>1, Invariant, PTL

================================================================================
