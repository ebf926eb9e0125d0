----------------------------- MODULE GatewaySession -----------------------------
(***************************************************************************)
(* The gateway's edge: OIDC login and logout with sessions in Redis (bff,  *)
(* session), and the authentication of API requests by bearer token or     *)
(* session cookie with its revocation lookups (auth, revocation).          *)
(*                                                                         *)
(* Requests run concurrently and every Redis command, every call to Logto  *)
(* or auth-service is a step that may fail.  Logto and browsers are        *)
(* external: a browser comes back with the code and the state Logto gave   *)
(* it, as often as it likes, and Logto takes a code once.  The verifier is *)
(* configured; the development login is left out.                          *)
(***************************************************************************)
EXTENDS Naturals

CONSTANTS
  Callbacks,   \* requests for /callback
  SignOuts,    \* requests for /sign-out
  ApiCalls,    \* requests for anything else
  States,      \* values of the OIDC state parameter, one per sign-in
  Codes,       \* authorization codes; a code also names the token it buys
  Sids,        \* session ids newID may draw
  Persons,     \* who is behind a credential
  None

VARIABLES
  redis,       \* the gateway connected to Redis when it started
  started,     \* states SignIn has drawn
  pending,     \* gw:oidc:state:*
  code,        \* code[c]: the state and the person Logto issued c for
  spent,       \* codes Logto has exchanged
  expired,     \* codes whose token has expired
  sessions,    \* gw:session:*, the ids that are there
  tokenOf,     \* tokenOf[s]: the token session s was created with
  revokedSids, \* auth:revoked:session:*
  revokedSubs, \* auth:revoked:sub:*
  pc,          \* pc[q]: the next step of request q, or how it ended
  req,         \* req[q]: the request
  sid,         \* sid[q]: the session a callback created
  user,        \* user[q]: the X-User-Id q is forwarded with, None for none
  blind,       \* history: a revocation lookup of q failed
  ended,       \* history: sessions a sign-out deleted and was told so
  before       \* history: what held when q arrived

logto == <<code, spent, expired>>
store == <<sessions, tokenOf, revokedSids, revokedSubs>>
login == <<started, pending>>
history == <<blind, ended, before>>
vars == <<redis, login, logto, store, pc, req, sid, user, history>>

ASSUME GatewayAssumption ==
  /\ None \notin Codes
  /\ None \notin Sids

Requests == Callbacks \cup SignOuts \cup ApiCalls

\* Ids are pairs of a kind and a person: a Logto subject, a platform user, or the
\* user auth-service makes up for a platform id that it is asked for as a subject.
Ids == {"logto", "platform", "other"} \X Persons

\* logto: a Logto token, whose user_id is its sub; claimed: one with a user_id
\* claim; issued: a token of auth-service, whose sub and user_id are the same.
Tokens == [kind : {"logto", "claimed", "issued"}, person : Persons]

Paths == [anon : BOOLEAN, sensitive : BOOLEAN]

\* header: the X-User-Id the client sent itself.
ApiRequest ==
  [via : {"cookie"}, sid : Sids, path : Paths, header : {None}]
     \cup [via : {"bearer"}, token : Tokens, path : Paths, header : {None}]
     \cup [via : {"none"}, path : Paths, header : ({"platform"} \X Persons) \cup {None}]

Request == [via : {"callback"}, code : Codes] \cup [via : {"signOut"}, sid : Sids] \cup ApiRequest

Working ==
  {"get", "del", "exchange", "create", "delete", "revoke",
   "session", "resolve", "checkSession", "checkSubject"}

TypeOK ==
  /\ redis \in BOOLEAN
  /\ pending \subseteq started /\ started \subseteq States
  /\ code \in [Codes -> [state : started, person : Persons] \cup {None}]
  /\ spent \subseteq {c \in Codes : code[c] # None}
  /\ expired \subseteq spent
  /\ tokenOf \in [Sids -> spent \cup {None}]
  /\ sessions \subseteq {s \in Sids : tokenOf[s] # None}
  /\ revokedSids \subseteq Sids /\ revokedSubs \subseteq Ids
  /\ pc \in [Requests -> Working \cup {"idle", "failed", "signedIn", "signedOut", "denied", "served"}]
  /\ req \in [Requests -> Request \cup {None}]
  /\ sid \in [Requests -> Sids \cup {None}]
  /\ user \in [Requests -> Ids \cup {None}]
  /\ blind \in [Requests -> BOOLEAN]
  /\ ended \subseteq Sids
  /\ before \in [Requests -> [ended : BOOLEAN, revoked : BOOLEAN]]

Init ==
  /\ redis \in BOOLEAN
  /\ started = {} /\ pending = {}
  /\ code = [c \in Codes |-> None] /\ spent = {} /\ expired = {}
  /\ sessions = {} /\ tokenOf = [s \in Sids |-> None]
  /\ revokedSids = {} /\ revokedSubs = {}
  /\ pc = [q \in Requests |-> "idle"]
  /\ req = [q \in Requests |-> None]
  /\ sid = [q \in Requests |-> None]
  /\ user = [q \in Requests |-> None]
  /\ blind = [q \in Requests |-> FALSE]
  /\ ended = {}
  /\ before = [q \in Requests |-> [ended |-> FALSE, revoked |-> FALSE]]

Goto(q, l) == pc' = [pc EXCEPT ![q] = l]

--------------------------------------------------------------------------------
(***************************************************************************)
(* Login: /sign-in, Logto, /callback.                                      *)
(***************************************************************************)

\* A fresh state is saved and the browser sent to Logto.
SignIn(st) ==
  /\ redis /\ st \notin started
  /\ started' = started \cup {st}
  /\ pending' = pending \cup {st}
  /\ UNCHANGED <<redis, logto, store, pc, req, sid, user, history>>

\* Somebody logs in at Logto, which sends the browser to /callback.
Authorize(c, st, p) ==
  /\ code[c] = None /\ st \in started
  /\ code' = [code EXCEPT ![c] = [state |-> st, person |-> p]]
  /\ UNCHANGED <<redis, login, spent, expired, store, pc, req, sid, user, history>>

Callback(q, c) ==
  /\ pc[q] = "idle" /\ code[c] # None
  /\ req' = [req EXCEPT ![q] = [via |-> "callback", code |-> c]]
  /\ Goto(q, "get")
  /\ UNCHANGED <<redis, login, logto, store, sid, user, history>>

StateOf(q) == code[req[q].code].state

\* ConsumePending: GET, then a DEL whose error is ignored.
ConsumeGet(q) ==
  /\ pc[q] = "get"
  /\ Goto(q, IF StateOf(q) \in pending THEN "del" ELSE "failed")
  /\ UNCHANGED <<redis, login, logto, store, req, sid, user, history>>

ConsumeDel(q) ==
  /\ pc[q] = "del"
  /\ pending' \in {pending, pending \ {StateOf(q)}}
  /\ Goto(q, "exchange")
  /\ UNCHANGED <<redis, started, logto, store, req, sid, user, history>>

\* ExchangeCode, and the verification of the token it brings.
Exchange(q) ==
  /\ pc[q] = "exchange"
  /\ spent' = spent \cup {req[q].code}
  /\ \/ req[q].code \notin spent /\ Goto(q, "create")
     \/ Goto(q, "failed")
  /\ UNCHANGED <<redis, login, code, expired, store, req, sid, user, history>>

\* sessions.Create under a fresh id; the answer of Redis may be lost.
Create_Retried(q, s) ==
  /\ pc[q] = "create" /\ tokenOf[s] = None
  /\ sessions' = sessions \cup {s}
  /\ tokenOf' = [tokenOf EXCEPT ![s] = req[q].code]
  /\ \/ Goto(q, "signedIn") /\ sid' = [sid EXCEPT ![q] = s]
     \/ Goto(q, "create") /\ UNCHANGED sid
  /\ UNCHANGED <<redis, login, logto, revokedSids, revokedSubs, req, user, history>>
Create(q, s) ==
  /\ pc[q] = "create" /\ tokenOf[s] = None
  /\ sessions' = sessions \cup {s}
  /\ tokenOf' = [tokenOf EXCEPT ![s] = req[q].code]
  /\ \/ Goto(q, "signedIn") /\ sid' = [sid EXCEPT ![q] = s]
     \/ Goto(q, "failed") /\ UNCHANGED sid
  /\ UNCHANGED <<redis, login, logto, revokedSids, revokedSubs, req, user, history>>

\* Time passes: a state is pending for ten minutes, a session ends with SESSION_TTL
\* or its ExpiresAt, a token with its exp.
Expire ==
  /\ \/ /\ \E st \in pending : pending' = pending \ {st}
        /\ UNCHANGED <<sessions, expired>>
     \/ /\ \E s \in sessions : sessions' = sessions \ {s}
        /\ UNCHANGED <<pending, expired>>
     \/ /\ \E c \in spent \ expired : expired' = expired \cup {c}
        /\ UNCHANGED <<pending, sessions>>
  /\ UNCHANGED <<redis, started, code, spent, tokenOf, revokedSids, revokedSubs,
                 pc, req, sid, user, history>>

--------------------------------------------------------------------------------
(***************************************************************************)
(* Logout: /sign-out.                                                      *)
(***************************************************************************)

\* The cookies browsers hold.
Cookies == {sid[q] : q \in Requests} \ {None}

SignOut(q, s) ==
  /\ pc[q] = "idle" /\ s \in Cookies
  /\ req' = [req EXCEPT ![q] = [via |-> "signOut", sid |-> s]]
  /\ Goto(q, "delete")
  /\ UNCHANGED <<redis, login, logto, store, sid, user, history>>

\* sessions.Delete; an error is ignored.
Delete(q) ==
  /\ pc[q] = "delete"
  /\ \/ /\ sessions' = sessions \ {req[q].sid}
        /\ ended' \in {ended, ended \cup {req[q].sid}}
     \/ UNCHANGED <<sessions, ended>>
  /\ Goto(q, "revoke")
  /\ UNCHANGED <<redis, login, logto, tokenOf, revokedSids, revokedSubs,
                 req, sid, user, blind, before>>

\* revocations.RevokeSession; an error is ignored.
RevokeSession(q) ==
  /\ pc[q] = "revoke"
  /\ revokedSids' \in {revokedSids, revokedSids \cup {req[q].sid}}
  /\ Goto(q, "signedOut")
  /\ UNCHANGED <<redis, login, logto, sessions, tokenOf, revokedSubs, req, sid, user, history>>

\* auth-service's part: a deleted user's Logto id, then its platform id, which is what
\* LogtoWebhook is shown to do (ImplementsRevocations).
Revocations == INSTANCE RevocationList WITH enabled <- redis, revoked <- revokedSubs

RevokeSubject(x) ==
  /\ Revocations!Revoke(x)
  /\ UNCHANGED <<login, logto, sessions, tokenOf, revokedSids, pc, req, sid, user, history>>

--------------------------------------------------------------------------------
(***************************************************************************)
(* API requests: Authenticate.                                             *)
(***************************************************************************)

\* The token of a request; a session holds a Logto access token.
TokenIn(r) ==
  IF r.via = "bearer" THEN r.token
  ELSE [kind |-> "logto", person |-> code[tokenOf[r.sid]].person]

\* mapClaims
Subject(t) == IF t.kind = "issued" THEN <<"platform", t.person>> ELSE <<"logto", t.person>>
UserID(t) == IF t.kind = "claimed" THEN <<"platform", t.person>> ELSE Subject(t)

\* What ResolveProviderUser("logto", subject) answers (IdentityStore).
ResolveLogto(x) == IF x[1] = "logto" THEN <<"platform", x[2]>> ELSE <<"other", x[2]>>

\* StripUntrusted: identity headers of the client go.
StripUntrusted_Skipped(header) == header
StripUntrusted(header) == None

\* No valid session and no bearer token: only anonymous paths go through.
Unauthenticated(q, path) == Goto(q, IF path.anon THEN "served" ELSE "denied")

Arrive(q, r) ==
  /\ pc[q] = "idle"
  /\ r.via = "cookie" => r.sid \in Cookies
  /\ req' = [req EXCEPT ![q] = r]
  /\ user' = [user EXCEPT ![q] = StripUntrusted(r.header)]
  /\ before' = [before EXCEPT ![q] =
        [ended |-> r.via = "cookie" /\ r.sid \in ended,
         revoked |-> \/ r.via # "none" /\ Subject(TokenIn(r)) \in revokedSubs
                     \/ r.via = "cookie" /\ r.sid \in revokedSids]]
  /\ \/ r.via = "bearer" /\ Goto(q, "resolve")
     \/ r.via = "bearer" /\ Goto(q, "denied")   \* invalid or expired
     \/ r.via = "cookie" /\ Goto(q, "session")
     \/ r.via = "none" /\ Unauthenticated(q, r.path)
  /\ UNCHANGED <<redis, login, logto, store, sid, blind, ended>>

\* IdentityFromRequest: load the session, verify its token; a session whose token
\* is no longer valid is deleted.
GetSession_Kept(q) ==
  /\ pc[q] = "session"
  /\ \/ expired \cap {tokenOf[req[q].sid]} = {} /\ Goto(q, "resolve")
     \/ Unauthenticated(q, req[q].path)
  /\ UNCHANGED <<redis, login, logto, store, req, sid, user, history>>
GetSession(q) ==
  LET s == req[q].sid
  IN /\ pc[q] = "session"
     /\ \/ /\ s \in sessions /\ tokenOf[s] \notin expired
           /\ Goto(q, "resolve")
           /\ UNCHANGED sessions
        \/ /\ s \in sessions /\ tokenOf[s] \in expired
           /\ sessions' = sessions \ {s}
           /\ Unauthenticated(q, req[q].path)
        \/ /\ Unauthenticated(q, req[q].path)   \* no such session, or an error
           /\ UNCHANGED sessions
     /\ UNCHANGED <<redis, login, logto, tokenOf, revokedSids, revokedSubs, req, sid, user, history>>

\* mapPlatformUserID: only a user_id that is the subject itself is resolved; when
\* that fails the subject stays.
mapPlatformUserID(t) ==
  IF UserID(t) # Subject(t) THEN {UserID(t)} ELSE {UserID(t), ResolveLogto(Subject(t))}

Resolve(q) ==
  LET r == req[q]
  IN /\ pc[q] = "resolve"
     /\ \E u \in mapPlatformUserID(TokenIn(r)) : user' = [user EXCEPT ![q] = u]
     /\ Goto(q, IF ~(r.path.sensitive /\ redis) THEN "served"
                ELSE IF r.via = "cookie" THEN "checkSession" ELSE "checkSubject")
     /\ UNCHANGED <<redis, login, logto, store, req, sid, history>>

\* checkRevocation: a lookup that fails lets the request pass.
Lookup(q, revoked, next) ==
  /\ \/ Goto(q, IF revoked THEN "denied" ELSE next) /\ UNCHANGED blind
     \/ Goto(q, next) /\ blind' = [blind EXCEPT ![q] = TRUE]
  /\ UNCHANGED <<redis, login, logto, store, req, sid, user, ended, before>>

CheckSession(q) ==
  pc[q] = "checkSession" /\ Lookup(q, req[q].sid \in revokedSids, "checkSubject")

CheckSubject_ByUser(q) ==
  pc[q] = "checkSubject" /\ Lookup(q, user[q] \in revokedSubs, "served")
CheckSubject(q) ==
  pc[q] = "checkSubject" /\ Lookup(q, Subject(TokenIn(req[q])) \in revokedSubs, "served")

--------------------------------------------------------------------------------

\* An error of Redis, Logto or the token, or the death of the gateway.
Fail(q) ==
  /\ pc[q] \in Working
  /\ Goto(q, "failed")
  /\ UNCHANGED <<redis, login, logto, store, req, sid, user, history>>

Next ==
  \/ \E st \in States : SignIn(st)
  \/ \E c \in Codes, st \in States, p \in Persons : Authorize(c, st, p)
  \/ Expire
  \/ \E x \in Ids : RevokeSubject(x)
  \/ \E q \in Callbacks :
        \/ \E c \in Codes : Callback(q, c)
        \/ ConsumeGet(q) \/ ConsumeDel(q) \/ Exchange(q)
        \/ \E s \in Sids : Create(q, s)
  \/ \E q \in SignOuts :
        \/ \E s \in Sids : SignOut(q, s)
        \/ Delete(q) \/ RevokeSession(q)
  \/ \E q \in ApiCalls :
        \/ \E r \in ApiRequest : Arrive(q, r)
        \/ GetSession(q) \/ Resolve(q) \/ CheckSession(q) \/ CheckSubject(q)
  \/ \E q \in Requests : Fail(q)

Spec == Init /\ [][Next]_vars

--------------------------------------------------------------------------------
(***************************************************************************)
(* Properties.                                                             *)
(***************************************************************************)

\* A login gives one session: callbacks that are repeated, run at once past the
\* two commands of ConsumePending, or lose their answer never make two.
OneSessionPerLogin ==
  \A s, t \in Sids : tokenOf[s] # None /\ tokenOf[s] = tokenOf[t] => s = t

\* What services see as the user is the person behind a verified token, the one
\* who logged in at Logto if it came with a session, and never the client's word.
ForwardedIsVerified ==
  \A q \in Requests : pc[q] = "served" =>
     \/ user[q] = None /\ req[q].path.anon
     \/ /\ req[q].via # "none"
        /\ user[q] \in {"logto", "platform", "other"} \X {TokenIn(req[q]).person}

\* After a sign-out that deleted its session no request gets in with that cookie,
\* whatever else is going on with the session.
SignedOutStaysOut ==
  \A q \in Requests : before[q].ended => pc[q] \notin {"resolve", "checkSession", "checkSubject"}
                                         /\ (pc[q] = "served" => user[q] = None)

\* On a sensitive path a request whose subject or session had been revoked when it
\* arrived is not let through as that user, unless a lookup failed.
RevokedIsDenied ==
  \A q \in Requests :
     (/\ redis /\ pc[q] = "served" /\ user[q] # None
      /\ before[q].revoked /\ req[q].path.sensitive) => blind[q]

\* resolve.go: "Tokens that already carry a distinct user_id claim (e.g.
\* auth-service issuer) are unchanged": a token of auth-service is forwarded with
\* the user_id it carries.
IssuedIsUnchanged ==
  \A q \in Requests :
     pc[q] = "served" /\ req[q].via = "bearer" /\ req[q].token.kind = "issued"
        => user[q] = UserID(req[q].token)

================================================================================
