-------------------------------- MODULE EdgeRules --------------------------------
(***************************************************************************)
(* Who reaches what: the gateway's anonymous paths, its mux and route      *)
(* table, and the services' own checks (GatewayTrust,                      *)
(* InternalAuth, TrustedAuth, TrustedRole), as functions of a path and a   *)
(* caller.                                                                 *)
(*                                                                         *)
(* A path is a sequence of tokens, cut where some rule ends: strings.      *)
(* HasPrefix is IsPrefix on tokens.                                        *)
(***************************************************************************)
EXTENDS Sequences
LOCAL INSTANCE SequencesExt

VARIABLE
  config   \* what the environment says: devLogin (GATEWAY_BFF_DEV_LOGIN = true) and
           \* token (INTERNAL_API_TOKEN is set, for the gateway and the services)

Configs == [devLogin : BOOLEAN, token : BOOLEAN]

\* Via the gateway: nobody, a bearer token that does not verify, a user, an
\* administrator; directly at a service's port, with identity headers of its own.
Callers == {"anonymous", "badBearer", "user", "admin", "direct"}

\* Paths: what the gateway and the services serve, and what nobody does.
Home == <<"/">>
Healthz == <<"/", "healthz">>   \* and /readyz, /metrics
SignInPath == <<"/", "sign-in">>
SignInDev == <<"/", "sign-in", "/dev">>
CallbackPath == <<"/", "callback">>
SignOutPath == <<"/", "sign-out">>
AdminItems == <<"/", "admin", "/", "items">>
User(x) == <<"/", "v1/", "users/", x>>
Business(x) == <<"/", "v1/", "business/", x>>
File(x) == <<"/", "v1/", "files/", x>>
Auth(x) == <<"/", "v1/", "auth/", x>>
AuditEvents == <<"/", "v1/", "audit/", "events">>
Internal(x) == <<"/", "internal/">> \o x
Webhook == Internal(<<"webhooks/", "logto">>)

--------------------------------------------------------------------------------
(***************************************************************************)
(* The gateway.                                                            *)
(***************************************************************************)

\* ParseAnonPrefixes: =/path is exact, /path a prefix; nothing usable is the default.
DefaultAnon ==
  [exact |-> {Healthz, SignInPath, CallbackPath, SignOutPath, Webhook, Home},
   prefix |-> {Business("ping"), <<"/", "admin">>, <<"/", "v1/", "auth/">>}]

ParseAnonPrefixes(raw) ==
  IF raw.exact \cup raw.prefix = {} THEN DefaultAnon ELSE raw

ResolveAnonPrefixes(raw) ==
  [ParseAnonPrefixes(raw) EXCEPT !.exact = IF config.devLogin THEN @ \cup {SignInDev} ELSE @]

Allows(rules, path) ==
  path \in rules.exact \/ \E p \in rules.prefix : IsPrefix(p, path)

\* isAuthPath: the stricter bucket of the rate limiter.
isAuthPath(path) ==
  \/ IsPrefix(<<"/", "v1/", "auth/">>, path) \/ path = Webhook
  \/ IsPrefix(SignInPath, path) \/ path = CallbackPath

\* Authenticate: a bearer token must verify, also on an anonymous path.
Authenticated(caller) == caller \in {"user", "admin"}
Authenticate(rules, caller, path) ==
  caller # "badBearer" /\ (Authenticated(caller) \/ Allows(rules, path))

\* proxy.Router: the longest prefix that matches; none: 404.
Routes ==
  {[prefix |-> <<"/", "v1/", "users/">>, to |-> "user-service"],
   [prefix |-> <<"/", "v1/", "business/">>, to |-> "business-service"],
   [prefix |-> <<"/", "v1/", "files/">>, to |-> "file-service"],
   [prefix |-> <<"/", "v1/", "auth/">>, to |-> "auth-service"],
   [prefix |-> <<"/", "v1/", "audit/">>, to |-> "audit-service"],
   [prefix |-> Internal(<<"webhooks/">>), to |-> "auth-service"]}

Router(path) ==
  LET hits == {x \in Routes : IsPrefix(x.prefix, path)}
      longest == {x \in hits : \A y \in hits : Len(y.prefix) <= Len(x.prefix)}
  IN IF hits = {} THEN "nobody" ELSE (CHOOSE x \in longest : TRUE).to

IsAPIPath(path) == IsPrefix(<<"/", "v1/">>, path) \/ IsPrefix(<<"/", "internal/">>, path)

\* The gateway's mux: its own handlers, the admin files, the API, the site.
Mux(path) ==
  IF path \in {Healthz, SignInPath, SignInDev, CallbackPath, SignOutPath} THEN "gateway"
  ELSE IF IsPrefix(<<"/", "admin", "/">>, path) THEN "admin files"
  ELSE IF IsAPIPath(path) THEN Router(path) ELSE "site"

--------------------------------------------------------------------------------
(***************************************************************************)
(* The services.                                                           *)
(***************************************************************************)

gatewayTrustSkipped(path) == path = Healthz \/ IsPrefix(<<"/", "internal/">>, path)

\* internalTokenOK: the gateway's proxy sets X-Internal-Token when it has one.
Trusted(caller) == caller # "direct"

GatewayTrust(caller, path) == ~config.token \/ gatewayTrustSkipped(path) \/ Trusted(caller)
InternalAuth(caller) == config.token /\ Trusted(caller)

\* TrustedAuth and TrustedRole read the identity headers: the gateway's, or a
\* direct caller's own.
HasUser(caller) == Authenticated(caller) \/ caller = "direct"
HasAdmin(caller) == caller \in {"admin", "direct"}

\* What the services and the gateway serve, and the check each handler is behind.
Endpoints ==
  {[path |-> p, at |-> "gateway", guard |-> "none"] :
      p \in {Healthz, SignInPath, CallbackPath, SignOutPath}}
  \cup {[path |-> SignInDev, at |-> "gateway", guard |-> "dev"],
        [path |-> AdminItems, at |-> "admin files", guard |-> "none"],
        [path |-> Home, at |-> "site", guard |-> "none"],
        [path |-> User("me"), at |-> "user-service", guard |-> "user"],
        [path |-> User(""), at |-> "user-service", guard |-> "admin"],
        [path |-> Business("ping"), at |-> "business-service", guard |-> "none"],
        [path |-> Business("items"), at |-> "business-service", guard |-> "user"],
        [path |-> File(""), at |-> "file-service", guard |-> "user"],
        [path |-> File("id"), at |-> "file-service", guard |-> "user"],
        [path |-> Auth("miniprogram/login"), at |-> "auth-service", guard |-> "none"],
        [path |-> Auth("jwks"), at |-> "auth-service", guard |-> "none"],
        [path |-> AuditEvents, at |-> "audit-service", guard |-> "admin"],
        [path |-> Webhook, at |-> "auth-service", guard |-> "internal"],
        [path |-> Internal(<<"identity/", "resolve">>), at |-> "auth-service",
         guard |-> "internal"],
        [path |-> Internal(<<"audit/", "events">>), at |-> "audit-service",
         guard |-> "internal"],
        [path |-> Internal(<<"job-effects">>), at |-> "worker", guard |-> "internal"]}

\* DevSignIn answers 404 unless the switch is on.
DevSignIn_Unchecked == TRUE
DevSignIn == config.devLogin

Passes(guard, caller) ==
  \/ guard = "none"
  \/ guard = "dev" /\ DevSignIn
  \/ guard = "user" /\ HasUser(caller)
  \/ guard = "admin" /\ HasAdmin(caller)
  \/ guard = "internal" /\ InternalAuth(caller)

OwnHandler == {"gateway", "admin files", "site"}

\* A request of caller, past the rate limiter, is handled by endpoint e.
Reaches(rules, caller, e) ==
  /\ caller # "direct" => Authenticate(rules, caller, e.path) /\ Mux(e.path) = e.at
  /\ e.at \notin OwnHandler => GatewayTrust(caller, e.path)
  /\ Passes(e.guard, caller)

--------------------------------------------------------------------------------

\* Reference: who is meant to be served.
Public ==
  {Healthz, SignInPath, CallbackPath, SignOutPath, Home, AdminItems, Business("ping"),
   Auth("miniprogram/login"), Auth("jwks"), Webhook}
     \cup (IF config.devLogin THEN {SignInDev} ELSE {})

MeantFor(e, caller) ==
  /\ caller # "badBearer"
  /\ \/ e.path \in Public
     \/ caller = "admin"
     \/ caller = "user" /\ e.guard \in {"none", "user"}
  /\ e.guard = "internal" => e.path = Webhook
  /\ e.guard = "dev" => config.devLogin

\* With the internal token set and the default rules, every endpoint is reached
\* through the gateway by those it is meant for and by nobody else: the path rules,
\* the route table, the internal token and the services' own checks agree.  A caller
\* that goes round the gateway is served by none of the services.  Without the token
\* (development) the internal endpoints answer nobody.  And nobody, not even a user
\* with a session, gets a session of /sign-in/dev while dev login is off.
EndpointsGuarded ==
  LET rules == ResolveAnonPrefixes([exact |-> {}, prefix |-> {}])
  IN \A e \in Endpoints, caller \in Callers :
       IF ~config.token
       THEN (e.guard = "internal" \/ (e.guard = "dev" /\ ~config.devLogin))
              => ~Reaches(rules, caller, e)
       ELSE IF caller = "direct"
            THEN e.at \notin OwnHandler => ~Reaches(rules, caller, e)
            ELSE Reaches(rules, caller, e) <=> MeantFor(e, caller)

================================================================================
