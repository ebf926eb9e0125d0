----------------------------- MODULE IdentityStore -----------------------------
(***************************************************************************)
(* auth-service's identity store: external identities (a Logto subject, a  *)
(* WeChat openid, a WeChat unionid) are resolved to platform users, which  *)
(* are created on first sight.                                             *)
(*                                                                         *)
(* Calls run concurrently (logins, webhooks, the internal resolve API) and *)
(* hold no transaction across their statements: each SELECT, each INSERT   *)
(* ... ON CONFLICT DO NOTHING and the one transaction that inserts a user  *)
(* with its identity is a step.  Rows are never updated or deleted.        *)
(***************************************************************************)
EXTENDS FiniteSets

CONSTANTS
  Calls,       \* calls of ResolveProviderUser and ResolveWeChatUser
  Subjects,    \* Logto subjects
  OpenIds,     \* WeChat openids
  UnionIds,    \* WeChat unionids
  Users,       \* platform user ids newUserID may draw
  None

VARIABLES
  users,       \* table users
  identities,  \* table user_identities: (provider, provider_uid) -> user_id
  pc,          \* pc[c]: the next statement of call c
  arg,         \* arg[c]: what c is to resolve
  userID       \* userID[c]: the user c has found or created

vars == <<users, identities, pc, arg, userID>>

ASSUME IdentityAssumption ==
  /\ None \notin UnionIds
  /\ None \notin Users

Providers == {"logto", "wechat_mp", "wechat_union"}

Identity ==
  ({"logto"} \X Subjects) \cup ({"wechat_mp"} \X OpenIds)
     \cup ({"wechat_union"} \X UnionIds)

\* ResolveProviderUser(provider, uid), or ResolveWeChatUser(openid, unionid).
Arg ==
  [provider : {"logto"}, uid : Subjects, union : {None}]
     \cup [provider : {"wechat_mp"}, uid : OpenIds, union : UnionIds \cup {None}]

ASSUME ArgAssumption == None \notin Arg

Working ==
  {"lookup", "lookupUnion", "linkUnion", "linkOpenid", "create",
   "relookup", "relookupUnion", "relinkOpenid"}

TypeOK ==
  /\ users \subseteq Users
  /\ identities \in [Identity -> users \cup {None}]
  /\ pc \in [Calls -> Working \cup {"idle", "done", "failed"}]
  /\ arg \in [Calls -> Arg \cup {None}]
  /\ userID \in [Calls -> users \cup {None}]

Init ==
  /\ users = {}
  /\ identities = [id \in Identity |-> None]
  /\ pc = [c \in Calls |-> "idle"]
  /\ arg = [c \in Calls |-> None]
  /\ userID = [c \in Calls |-> None]

--------------------------------------------------------------------------------

\* The identity a call is about, and the union identity it carries.
Id(c) == <<arg[c].provider, arg[c].uid>>
UnionId(c) == <<"wechat_union", arg[c].union>>
HasUnion(c) == arg[c].union # None

\* SELECT user_id ... WHERE provider = ... AND provider_uid = ...; None: no row
lookupUserID_AnyProvider(id) ==
  LET hits == {i \in Identity : i[2] = id[2] /\ identities[i] # None}
  IN IF hits = {} THEN None ELSE identities[CHOOSE i \in hits : TRUE]
lookupUserID(id) == identities[id]

\* INSERT ... ON CONFLICT (provider, provider_uid) DO NOTHING
linkIdentity_Overwrites(id, u) == identities' = [identities EXCEPT ![id] = u]
linkIdentity(id, u) ==
  identities' = [identities EXCEPT ![id] = IF @ = None THEN u ELSE @]

\* c goes on to its next statement, knowing user u.
Goto(c, to, u) ==
  /\ pc' = [pc EXCEPT ![c] = to]
  /\ userID' = [userID EXCEPT ![c] = u]
  /\ UNCHANGED arg

\* The same, or the statement's answer is lost and the call fails.
GotoOrLost(c, to, u) == Goto(c, to, u) \/ Goto(c, "failed", None)

Call(c, a) ==
  /\ pc[c] = "idle"
  /\ arg' = [arg EXCEPT ![c] = a]
  /\ pc' = [pc EXCEPT ![c] = "lookup"]
  /\ UNCHANGED <<users, identities, userID>>

Lookup(c) ==
  LET u == lookupUserID(Id(c))
  IN /\ pc[c] = "lookup"
     /\ \/ /\ u # None
           /\ Goto(c, IF HasUnion(c) THEN "linkUnion" ELSE "done", u)
        \/ /\ u = None
           /\ Goto(c, IF HasUnion(c) THEN "lookupUnion" ELSE "create", None)
     /\ UNCHANGED <<users, identities>>

LookupUnion(c) ==
  LET u == lookupUserID(UnionId(c))
  IN /\ pc[c] = "lookupUnion"
     /\ \/ u # None /\ Goto(c, "linkOpenid", u)
        \/ u = None /\ Goto(c, "create", None)
     /\ UNCHANGED <<users, identities>>

\* The union is linked to the user of the openid, found or just created.
LinkUnion(c) ==
  /\ pc[c] = "linkUnion"
  /\ GotoOrLost(c, "done", userID[c])
  /\ linkIdentity(UnionId(c), userID[c])
  /\ UNCHANGED users

\* The openid is linked to the user of the union.
LinkOpenid(c) ==
  /\ pc[c] = "linkOpenid"
  /\ GotoOrLost(c, "done", userID[c])
  /\ linkIdentity(Id(c), userID[c])
  /\ UNCHANGED users

\* createUserWithProvider commits: a random id, a user, its identity.
CreateCommits(c, u) ==
  /\ pc[c] = "create"
  /\ identities[Id(c)] = None
  /\ u \in Users \ users
  /\ users' = users \cup {u}
  /\ identities' = [identities EXCEPT ![Id(c)] = u]
  /\ GotoOrLost(c, IF HasUnion(c) THEN "linkUnion" ELSE "done", u)

\* createUserWithProvider meets the primary key of user_identities and rolls back.
CreateConflicts_KeepsUser(c) ==
  /\ pc[c] = "create"
  /\ identities[Id(c)] # None
  /\ \E u \in Users \ users : users' = users \cup {u}
  /\ Goto(c, "relookup", None)
  /\ UNCHANGED identities
CreateConflicts_Unnoticed(c) ==
  /\ pc[c] = "create"
  /\ identities[Id(c)] # None
  /\ \E u \in Users \ users :
        users' = users \cup {u} /\ Goto(c, "done", u)
  /\ UNCHANGED identities
CreateConflicts(c) ==
  /\ pc[c] = "create"
  /\ identities[Id(c)] # None
  /\ Goto(c, "relookup", None)
  /\ UNCHANGED <<users, identities>>

Relookup(c) ==
  /\ pc[c] = "relookup"
  /\ lookupUserID(Id(c)) # None
  /\ Goto(c, "done", lookupUserID(Id(c)))
  /\ UNCHANGED <<users, identities>>

\* The second lookup errs: a call with a union tries that instead.
RelookupErrs(c) ==
  /\ pc[c] = "relookup"
  /\ HasUnion(c)
  /\ Goto(c, "relookupUnion", None)
  /\ UNCHANGED <<users, identities>>

RelookupUnion(c) ==
  LET u == lookupUserID(UnionId(c))
  IN /\ pc[c] = "relookupUnion"
     /\ \/ u # None /\ Goto(c, "relinkOpenid", u)
        \/ u = None /\ Goto(c, "failed", None)
     /\ UNCHANGED <<users, identities>>

\* The error of this link is ignored.
RelinkOpenid(c) ==
  /\ pc[c] = "relinkOpenid"
  /\ Goto(c, "done", userID[c])
  /\ linkIdentity(Id(c), userID[c]) \/ UNCHANGED identities
  /\ UNCHANGED users

\* A database error or the death of the process.
Fail(c) ==
  /\ pc[c] \in Working
  /\ Goto(c, "failed", None)
  /\ UNCHANGED <<users, identities>>

Next ==
  \/ \E c \in Calls, a \in Arg : Call(c, a)
  \/ \E c \in Calls, u \in Users : CreateCommits(c, u)
  \/ \E c \in Calls :
        \/ Lookup(c) \/ LookupUnion(c) \/ LinkUnion(c) \/ LinkOpenid(c)
        \/ CreateConflicts(c) \/ Relookup(c) \/ RelookupErrs(c)
        \/ RelookupUnion(c) \/ RelinkOpenid(c) \/ Fail(c)

Spec == Init /\ [][Next]_vars

--------------------------------------------------------------------------------
(***************************************************************************)
(* Properties.                                                             *)
(***************************************************************************)

\* No race leaves a user nobody can log in as: the user and its first identity
\* are committed together or not at all.
NoOrphanUser == \A u \in users : \E id \in Identity : identities[id] = u

\* Calls that lost the race to create a user return the winner's: a call without
\* a union returns the user its identity is linked to, so all such calls agree;
\* a call with a union returns the user of its openid or of its union.  It stays so
\* after the call: a link is for ever, whatever later calls do.
ResolvedIsLinked ==
  \A c \in Calls : pc[c] = "done" =>
     \/ userID[c] = identities[Id(c)]
     \/ HasUnion(c) /\ userID[c] = identities[UnionId(c)]

\* Accounts are never merged by accident: two identities share a user only if
\* they are WeChat identities and some call presented one of them, an openid with
\* its union, and that union is linked to that user.
SharedOnlyByUnion ==
  \A p, q \in Identity :
     (p # q /\ identities[p] # None /\ identities[p] = identities[q]) =>
        /\ p[1] # "logto" /\ q[1] # "logto"
        /\ \E c \in Calls :
              /\ arg[c] # None /\ HasUnion(c)
              /\ {Id(c), UnionId(c)} \cap {p, q} # {}
              /\ identities[UnionId(c)] = identities[p]

\* identity.go: "When unionid is present, identities from different mini-programs
\* share one user_id": two calls with one unionid return one user.
UnionSharesUser ==
  \A c, d \in Calls :
     (/\ pc[c] = "done" /\ pc[d] = "done"
      /\ HasUnion(c) /\ arg[c].union = arg[d].union) => userID[c] = userID[d]

================================================================================
