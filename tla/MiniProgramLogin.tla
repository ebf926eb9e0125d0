---------------------------- MODULE MiniProgramLogin ----------------------------
(***************************************************************************)
(* The mini-program login of auth-service: a WeChat code becomes a session *)
(* (openid, unionid), the session a platform user (IdentityStore), the     *)
(* user an access token signed with auth-service's key; and the gateway's  *)
(* verifier, which knows that key from a cached copy of /v1/auth/jwks.     *)
(*                                                                         *)
(* The key set is fetched from AUTH_JWKS_URL like any other request: at    *)
(* auth-service's own port, past GatewayTrust, or through the gateway.     *)
(* keyfunc (external) fetches when the gateway starts, every hour and,     *)
(* rate limited, for a kid it does not know; a failed fetch keeps what it  *)
(* has.  The login's audit event, whose loss is only logged, is left out.  *)
(***************************************************************************)
EXTENDS IdentityStore, EdgeRules, Naturals

CONSTANTS
  Settings,    \* the environments to look at, out of Setting
  MaxRestarts  \* bound: restarts of auth-service that draw a new key

VARIABLES
  setting,   \* environment of auth-service and gateway
  key,       \* auth-service's RSA key: how many it has generated
  jwks,      \* the gateway's copy of it, None when it has none
  token      \* token[c]: the access token login c was given, None before

loginVars == <<vars, config, setting, key, jwks, token>>

\* OIDC_AUDIENCE: empty, or a URI; the two processes may have been given different ones.
Audience == {"", "api", "other"}

Setting ==
  [pem : BOOLEAN,                    \* AUTH_JWT_PRIVATE_KEY_PEM is set
   url : {"direct", "gateway"},      \* what AUTH_JWKS_URL leads to
   issuers : SUBSET {"logto", "auth-service"},   \* OIDC_ISSUER, AUTH_OIDC_ISSUER
   audience : [auth : Audience, gateway : Audience]]   \* OIDC_AUDIENCE, as each reads it

Token ==
  [sub : Users, iss : {"auth-service"}, aud : Audience, key : 0..MaxRestarts,
   expired : BOOLEAN]

ASSUME LoginAssumption ==
  Settings \subseteq Setting /\ MaxRestarts \in Nat /\ None \notin Token

LoginTypeOK ==
  /\ TypeOK
  /\ config \in Configs
  /\ setting \in Settings
  /\ key \in 0..MaxRestarts
  /\ jwks \in (0..key) \cup {None}
  /\ token \in [Calls -> Token \cup {None}]
  /\ \A c \in Calls : token[c] # None => token[c].sub \in users /\ token[c].key <= key

LoginInit ==
  /\ Init
  /\ config \in {f \in Configs : ~f.devLogin}
  /\ setting \in Settings
  /\ key = 0
  /\ jwks = None
  /\ token = [c \in Calls |-> None]

--------------------------------------------------------------------------------
(***************************************************************************)
(* auth-service.                                                           *)
(***************************************************************************)

Login(c) == arg[c].provider = "wechat_mp"

\* Code2Session gives an openid and perhaps a unionid, and ResolveWeChatUser begins.
Code2Session(c, a) == a.provider = "wechat_mp" /\ Call(c, a)

\* No code, a WeChat error or timeout, no openid: 400 or 401.
Code2SessionErrs(c) ==
  /\ pc[c] = "idle"
  /\ pc' = [pc EXCEPT ![c] = "failed"]
  /\ UNCHANGED <<users, identities, arg, userID>>

\* The internal resolve API and the webhook.
ResolveLogto(c, a) == a.provider = "logto" /\ Call(c, a)

\* The token of a resolved login.
Minting(c) == pc[c] = "done" /\ Login(c) /\ token[c] = None

AccessToken(c) ==
  /\ Minting(c)
  /\ token' = [token EXCEPT ![c] =
       [sub |-> userID[c], iss |-> "auth-service", aud |-> setting.audience.auth,
        key |-> key, expired |-> FALSE]]
  /\ UNCHANGED vars

\* exp is reached.
Expires(c) ==
  /\ token[c] # None
  /\ token' = [token EXCEPT ![c].expired = TRUE]
  /\ UNCHANGED vars

\* NewIssuer's key: the PEM's, or one generated under the kid of the last.
loadOrGenerateKey_Always == key + 1
loadOrGenerateKey == IF setting.pem THEN key ELSE key + 1

\* auth-service is started again: calls under way are lost, its key may be new.
RestartAuth ==
  /\ loadOrGenerateKey <= MaxRestarts
  /\ key' = loadOrGenerateKey
  /\ pc' = [c \in Calls |-> IF pc[c] \in Working \/ Minting(c) THEN "failed" ELSE pc[c]]
  /\ userID' = [c \in Calls |-> IF pc'[c] = "failed" THEN None ELSE userID[c]]
  /\ UNCHANGED <<users, identities, arg, jwks, token>>

--------------------------------------------------------------------------------
(***************************************************************************)
(* The gateway.                                                            *)
(***************************************************************************)

\* Whether a fetch of AUTH_JWKS_URL, which carries no token, is answered.
JwksServed ==
  IF setting.url = "direct"
  THEN GatewayTrust("direct", Auth("jwks"))
  ELSE Reaches(ResolveAnonPrefixes([exact |-> {}, prefix |-> {}]), "anonymous",
               [path |-> Auth("jwks"), at |-> "auth-service", guard |-> "none"])

\* keyfunc's hourly fetch, or the one for an unknown kid.
Refresh ==
  /\ JwksServed
  /\ jwks' = key
  /\ UNCHANGED key

\* NewVerifier: the first fetch may fail, which is no error.
RestartGateway ==
  /\ jwks' \in {None} \cup (IF JwksServed THEN {key} ELSE {})
  /\ UNCHANGED key

\* validateStandardClaims: any issuer will do when none is configured.
issuerAllowed(t) == setting.issuers = {} \/ t.iss \in setting.issuers

\* Any audience will do when the gateway has none; a token without one has "".
audienceContains(t) ==
  setting.audience.gateway = "" \/ t.aud = setting.audience.gateway

\* Verify, without a development secret: parseWithJWKS.
Verify(t) ==
  jwks # None /\ t.key = jwks /\ ~t.expired /\ issuerAllowed(t) /\ audienceContains(t)

--------------------------------------------------------------------------------

StoreNext ==
  \/ \E c \in Calls, u \in Users : CreateCommits(c, u)
  \/ \E c \in Calls :
        \/ Lookup(c) \/ LookupUnion(c) \/ LinkUnion(c) \/ LinkOpenid(c)
        \/ CreateConflicts(c) \/ Relookup(c) \/ RelookupErrs(c)
        \/ RelookupUnion(c) \/ RelinkOpenid(c) \/ Fail(c)

LoginNext ==
  /\ \/ /\ \/ StoreNext
           \/ \E c \in Calls, a \in Arg : Code2Session(c, a) \/ ResolveLogto(c, a)
           \/ \E c \in Calls : Code2SessionErrs(c)
        /\ UNCHANGED <<key, jwks, token>>
     \/ \E c \in Calls : (AccessToken(c) \/ Expires(c)) /\ UNCHANGED <<key, jwks>>
     \/ RestartAuth
     \/ (Refresh \/ RestartGateway) /\ UNCHANGED <<vars, token>>
  /\ UNCHANGED <<config, setting>>

LoginSpec == LoginInit /\ [][LoginNext]_loginVars

--------------------------------------------------------------------------------
(***************************************************************************)
(* The directory of users that stores and logins implement.  A login is    *)
(* answered by its token, a call of the resolve API by the user it found.  *)
(***************************************************************************)

IdsOf(a) ==
  {<<a.provider, a.uid>>} \cup (IF a.union = None THEN {} ELSE {<<"wechat_union", a.union>>})

presented == [c \in Calls |-> IF arg[c] = None THEN {} ELSE IdsOf(arg[c])]

Answered(c) == arg[c] # None /\ ~Login(c) /\ pc[c] = "done"

told ==
  [c \in Calls |->
     IF token[c] # None THEN token[c].sub ELSE IF Answered(c) THEN userID[c] ELSE None]

Directory ==
  INSTANCE UserDirectory
  WITH Presented <- {IdsOf(a) : a \in Arg},
       accounts <- users, link <- identities, asked <- presented, reply <- told

--------------------------------------------------------------------------------
(***************************************************************************)
(* Properties.                                                             *)
(***************************************************************************)

Fresh(c) == token[c] # None /\ ~token[c].expired

\* A gateway that is configured for auth-service: its issuer list and its audience
\* take auth-service's tokens.
Configured ==
  /\ setting.issuers = {} \/ "auth-service" \in setting.issuers
  /\ setting.audience.gateway \in {"", setting.audience.auth}

\* With a PEM, no restart of either process costs anybody a login: once a configured
\* gateway has the keys, every token that has not expired verifies, as the user that
\* the login's WeChat identity is linked to.
TokensSurviveRestarts ==
  \A c \in Calls : (Fresh(c) /\ setting.pem /\ Configured /\ jwks # None) =>
     /\ Verify(token[c])
     /\ token[c].sub \in {identities[Id(c)]}
           \cup (IF HasUnion(c) THEN {identities[UnionId(c)]} ELSE {})

\* However the statements of logins, webhooks and resolve calls interleave, fail or are
\* cut off by restarts, what their callers see is the atomic directory: they are told
\* an account that their own identities have at that moment, no link ever changes,
\* and no identity joins an account except beside one the same caller presented.
ImplementsDirectory == Directory!Spec

================================================================================
