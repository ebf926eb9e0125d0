------------------------ MODULE MiniProgramLogin_proofs ------------------------
(***************************************************************************)
(* Proofs about the identity store and the mini-program login, for every   *)
(* set of calls, subjects, openids, unionids and users, and every number   *)
(* of restarts.                                                            *)
(*                                                                         *)
(* What makes the store's invariants inductive is what a call knows        *)
(* between two of its statements (Known): which identity the user it       *)
(* carries was read from.  It stays true under the statements of all other *)
(* calls because no link is ever changed (LinksStay).  The login adds what *)
(* a token remembers of its call and of the environment (TokenKnown), and  *)
(* that a PEM keeps the key (KeyKept).                                     *)
(***************************************************************************)
EXTENDS MiniProgramLogin, TLAPS

PcValues == Working \cup {"idle", "done", "failed"}

\* What call c knows when it is at a statement with user u in hand.
Knowledge(c, at, u) ==
  /\ at = "idle" => arg[c] = None
  /\ at \in Working \cup {"done"} => arg[c] \in Arg
  /\ at \in {"lookupUnion", "linkUnion", "linkOpenid", "relookupUnion", "relinkOpenid"} => HasUnion(c)
  /\ at = "linkUnion" => u # None /\ u = identities[Id(c)]
  /\ at \in {"linkOpenid", "relinkOpenid"} => u # None /\ u = identities[UnionId(c)]
  /\ at = "done" => /\ u # None
                    /\ u = identities[Id(c)] \/ (HasUnion(c) /\ u = identities[UnionId(c)])

Known(c) == Knowledge(c, pc[c], userID[c])

StoreInv ==
  /\ TypeOK
  /\ \A c \in Calls : Known(c)
  /\ NoOrphanUser
  /\ SharedOnlyByUnion

\* Rows of user_identities are never updated or deleted, nor are rows of users.
LinksStay ==
  /\ users \subseteq users'
  /\ \A id \in Identity : identities[id] # None => identities'[id] = identities[id]

--------------------------------------------------------------------------------
(***************************************************************************)
(* The identity store.                                                     *)
(***************************************************************************)

\* The identities of a call are identities, and an openid that comes with a union
\* is not a Logto subject.
LEMMA ArgIds ==
  ASSUME NEW c \in Calls, arg[c] \in Arg
  PROVE  /\ Id(c) \in Identity
         /\ HasUnion(c) => /\ UnionId(c) \in Identity
                           /\ Id(c)[1] = "wechat_mp" /\ UnionId(c)[1] = "wechat_union"
  BY DEF Arg, Id, UnionId, HasUnion, Identity

\* A step that only moves c and adds links leaves what the other calls know true.
LEMMA OthersKnow ==
  ASSUME StoreInv, LinksStay, NEW d \in Calls,
         pc'[d] = pc[d], arg'[d] = arg[d], userID'[d] = userID[d]
  PROVE  Known(d)'
  <1>1. Known(d)
    BY DEF StoreInv
  <1>2. (HasUnion(d)' <=> HasUnion(d)) /\ Id(d)' = Id(d) /\ UnionId(d)' = UnionId(d)
    BY DEF HasUnion, Id, UnionId
  <1>3. pc[d] \in Working \cup {"done"} =>
           /\ identities[Id(d)] # None => identities'[Id(d)] = identities[Id(d)]
           /\ (HasUnion(d) /\ identities[UnionId(d)] # None) =>
                 identities'[UnionId(d)] = identities[UnionId(d)]
    BY <1>1, ArgIds DEF LinksStay, Known, Knowledge
  <1>4. QED
    BY <1>1, <1>2, <1>3 DEF Known, Knowledge, Working

\* A step of c that keeps the tables' invariants keeps them all, if c knows what it
\* has to where it ends up.
LEMMA StepKeeps ==
  ASSUME StoreInv, NEW c \in Calls, NEW to \in PcValues, NEW u \in users' \cup {None},
         users' \subseteq Users, identities' \in [Identity -> users' \cup {None}], LinksStay,
         Goto(c, to, u), Knowledge(c, to, u)', NoOrphanUser', SharedOnlyByUnion'
  PROVE  StoreInv'
  <1>1. /\ pc' \in [Calls -> PcValues] /\ pc'[c] = to
        /\ userID' \in [Calls -> users' \cup {None}] /\ userID'[c] = u
        /\ \A d \in Calls : d # c => pc'[d] = pc[d] /\ userID'[d] = userID[d]
        /\ arg' = arg
    BY DEF StoreInv, TypeOK, PcValues, Goto, LinksStay
  <1>2. TypeOK'
    BY <1>1 DEF StoreInv, TypeOK, PcValues
  <1>3. Known(c)'
    BY <1>1 DEF Known
  <1>4. \A d \in Calls : Known(d)'
    BY <1>1, <1>3, OthersKnow
  <1>5. QED
    BY <1>2, <1>4 DEF StoreInv

\* A statement that only reads, or fails.
LEMMA ReadKeeps ==
  ASSUME StoreInv, NEW c \in Calls, NEW to \in PcValues, NEW u \in users \cup {None},
         UNCHANGED <<users, identities>>, Goto(c, to, u), Knowledge(c, to, u)
  PROVE  StoreInv'
  <1>1. LinksStay /\ arg' = arg
    BY DEF LinksStay, Goto
  <1>2. NoOrphanUser' /\ SharedOnlyByUnion'
    BY <1>1 DEF StoreInv, NoOrphanUser, SharedOnlyByUnion, HasUnion, Id, UnionId
  <1>3. Knowledge(c, to, u)'
    BY <1>1 DEF Knowledge, HasUnion, Id, UnionId
  <1>4. QED
    BY <1>1, <1>2, <1>3, StepKeeps DEF StoreInv, TypeOK

\* Adding a link of an openid or of its union to the user of the other merges no
\* accounts but these.
LEMMA LinkKeeps ==
  ASSUME StoreInv, NEW c \in Calls, arg[c] \in Arg, HasUnion(c),
         NEW id, NEW other,
         \/ id = Id(c) /\ other = UnionId(c)
         \/ id = UnionId(c) /\ other = Id(c),
         NEW u, u = identities[other], u # None,
         linkIdentity(id, u), UNCHANGED <<users, arg>>
  PROVE  /\ identities' \in [Identity -> users' \cup {None}]
         /\ LinksStay /\ NoOrphanUser' /\ SharedOnlyByUnion'
  <1>1. /\ id \in Identity /\ other \in Identity
        /\ id[1] # "logto" /\ other[1] # "logto"
    BY ArgIds
  <1>2. u \in users
    BY <1>1 DEF StoreInv, TypeOK
  <1>3. /\ identities' \in [Identity -> users' \cup {None}]
        /\ \A i \in Identity : i # id => identities'[i] = identities[i]
        /\ identities[id] # None => identities'[id] = identities[id]
        /\ identities[id] = None => identities'[id] = u
    BY <1>1, <1>2 DEF linkIdentity, StoreInv, TypeOK
  <1>4. LinksStay
    BY <1>3 DEF LinksStay
  <1>5. NoOrphanUser'
    BY <1>4, IdentityAssumption DEF StoreInv, TypeOK, NoOrphanUser, LinksStay
  <1>6. SharedOnlyByUnion'
    <2> DEFINE Ok(p, q) ==
          /\ p[1] # "logto" /\ q[1] # "logto"
          /\ \E d \in Calls :
                /\ arg[d] # None /\ HasUnion(d)
                /\ {Id(d), UnionId(d)} \cap {p, q} # {}
                /\ identities'[UnionId(d)] = identities'[p]
    <2>1. \A d \in Calls : HasUnion(d)' = HasUnion(d) /\ Id(d)' = Id(d) /\ UnionId(d)' = UnionId(d)
      BY DEF HasUnion, Id, UnionId
    <2>2. ASSUME NEW p \in Identity, NEW q \in Identity, p # q,
                 identities[p] # None, identities[p] = identities[q]
          PROVE  Ok(p, q)
      <3>1. PICK d \in Calls :
                /\ arg[d] # None /\ HasUnion(d)
                /\ {Id(d), UnionId(d)} \cap {p, q} # {}
                /\ identities[UnionId(d)] = identities[p]
        BY <2>2 DEF StoreInv, SharedOnlyByUnion
      <3>2. UnionId(d) \in Identity
        BY <3>1, ArgIds DEF StoreInv, TypeOK
      <3>3. identities'[UnionId(d)] = identities'[p]
        BY <2>2, <3>1, <3>2, <1>4 DEF LinksStay
      <3>4. p[1] # "logto" /\ q[1] # "logto"
        BY <2>2 DEF StoreInv, SharedOnlyByUnion
      <3>5. QED
        BY <3>1, <3>3, <3>4
    <2>3. ASSUME NEW q \in Identity, q # id, identities[id] = None, identities[q] = u
          PROVE  Ok(id, q) /\ Ok(q, id)
      <3>1. q[1] # "logto"
        <4>1. CASE q = other
          BY <1>1, <4>1
        <4>2. CASE q # other
          BY <1>1, <2>3, <4>2 DEF StoreInv, SharedOnlyByUnion
        <4>3. QED
          BY <4>1, <4>2
      <3>2. arg[c] # None
        BY ArgAssumption
      <3>3. identities'[other] = u /\ identities'[id] = u /\ identities'[q] = u
        BY <1>1, <1>3, <2>3
      <3>4. identities'[UnionId(c)] = u /\ {Id(c), UnionId(c)} \cap {id, q} # {}
        BY <3>3
      <3>5. QED
        BY <1>1, <3>1, <3>2, <3>3, <3>4
    <2>4. ASSUME NEW p \in Identity, NEW q \in Identity, p # q,
                 identities'[p] # None, identities'[p] = identities'[q]
          PROVE  Ok(p, q)
      <3>1. CASE identities[id] = None /\ p = id
        BY <1>3, <2>3, <2>4, <3>1
      <3>2. CASE identities[id] = None /\ q = id
        BY <1>3, <2>3, <2>4, <3>2
      <3>3. CASE ~(identities[id] = None /\ (p = id \/ q = id))
        BY <1>3, <2>2, <2>4, <3>3
      <3>4. QED
        BY <3>1, <3>2, <3>3
    <2>5. QED
      BY <2>1, <2>4 DEF SharedOnlyByUnion
  <1>7. QED
    BY <1>3, <1>4, <1>5, <1>6

\* The transaction that inserts a user with its identity.
LEMMA CreateKeeps ==
  ASSUME StoreInv, NEW c \in Calls, NEW u \in Users, CreateCommits(c, u)
  PROVE  StoreInv'
  <1>1. arg[c] \in Arg /\ Id(c) \in Identity
    BY ArgIds DEF CreateCommits, StoreInv, Known, Knowledge, Working
  <1>2. /\ u \notin users /\ u # None /\ identities[Id(c)] = None
        /\ users' = users \cup {u} /\ users' \subseteq Users
        /\ identities' = [identities EXCEPT ![Id(c)] = u] /\ arg' = arg
    BY IdentityAssumption DEF CreateCommits, GotoOrLost, Goto, StoreInv, TypeOK
  <1>3. /\ identities' \in [Identity -> users' \cup {None}] /\ identities'[Id(c)] = u
        /\ \A i \in Identity : i # Id(c) => identities'[i] = identities[i]
    BY <1>1, <1>2 DEF StoreInv, TypeOK
  <1>4. LinksStay
    BY <1>2, <1>3 DEF LinksStay
  <1>5. NoOrphanUser'
    BY <1>1, <1>2, <1>3, <1>4, IdentityAssumption DEF StoreInv, TypeOK, NoOrphanUser, LinksStay
  <1>6. SharedOnlyByUnion'
    <2>1. \A d \in Calls : HasUnion(d)' = HasUnion(d) /\ Id(d)' = Id(d) /\ UnionId(d)' = UnionId(d)
      BY <1>2 DEF HasUnion, Id, UnionId
    <2>2. ASSUME NEW p \in Identity, NEW q \in Identity, p # q,
                 identities'[p] # None, identities'[p] = identities'[q]
          PROVE  identities[p] # None /\ identities[p] = identities[q]
      <3>1. \A i \in Identity : identities[i] # u
        BY <1>2 DEF StoreInv, TypeOK
      <3>2. p # Id(c) /\ q # Id(c)
        BY <1>3, <2>2, <3>1
      <3>3. QED
        BY <1>3, <2>2, <3>2
    <2>3. ASSUME NEW d \in Calls, arg[d] # None, HasUnion(d), identities[UnionId(d)] # None
          PROVE  identities'[UnionId(d)] = identities[UnionId(d)]
      <3>1. UnionId(d) \in Identity
        BY <2>3, ArgIds DEF StoreInv, TypeOK
      <3>2. QED
        BY <2>3, <3>1, <1>4 DEF LinksStay
    <2>4. SUFFICES ASSUME NEW p \in Identity, NEW q \in Identity, p # q,
                          identities'[p] # None, identities'[p] = identities'[q]
                   PROVE  /\ p[1] # "logto" /\ q[1] # "logto"
                          /\ \E d \in Calls :
                                /\ arg[d] # None /\ HasUnion(d)
                                /\ {Id(d), UnionId(d)} \cap {p, q} # {}
                                /\ identities'[UnionId(d)] = identities'[p]
      BY <1>2, <2>1 DEF SharedOnlyByUnion
    <2>5. identities[p] # None /\ identities[p] = identities[q] /\ identities'[p] = identities[p]
      BY <2>2, <2>4, <1>4 DEF LinksStay
    <2>6. QED
      BY <2>3, <2>4, <2>5 DEF StoreInv, SharedOnlyByUnion
  <1>7. PICK to \in PcValues, v \in {u, None} :
           /\ Goto(c, to, v)
           /\ to = "failed" \/ (v = u /\ to = IF HasUnion(c) THEN "linkUnion" ELSE "done")
    BY DEF CreateCommits, GotoOrLost, PcValues, Working
  <1>8. Knowledge(c, to, v)'
    BY <1>1, <1>2, <1>3, <1>7 DEF Knowledge, HasUnion, Id, UnionId, Working
  <1>9. v \in users' \cup {None}
    BY <1>2
  <1>10. QED
    BY <1>2, <1>3, <1>4, <1>5, <1>6, <1>7, <1>8, <1>9, StepKeeps

\* The statements that link an identity.
LEMMA LinkStepsKeep ==
  ASSUME StoreInv, NEW c \in Calls, LinkUnion(c) \/ LinkOpenid(c) \/ RelinkOpenid(c)
  PROVE  StoreInv'
  <1> DEFINE id == IF pc[c] = "linkUnion" THEN UnionId(c) ELSE Id(c)
             other == IF pc[c] = "linkUnion" THEN Id(c) ELSE UnionId(c)
  <1>1. pc[c] \in {"linkUnion", "linkOpenid", "relinkOpenid"}
    BY DEF LinkUnion, LinkOpenid, RelinkOpenid
  <1>2. /\ arg[c] \in Arg /\ HasUnion(c)
        /\ userID[c] # None /\ userID[c] = identities[other]
    BY <1>1 DEF StoreInv, Known, Knowledge, Working
  <1>3. Id(c) \in Identity /\ UnionId(c) \in Identity
    BY <1>2, ArgIds
  <1>4. PICK to \in {"done", "failed"}, v \in {userID[c], None} :
           Goto(c, to, v) /\ (to = "done" => v = userID[c])
    BY DEF LinkUnion, LinkOpenid, RelinkOpenid, GotoOrLost
  <1>5. UNCHANGED <<users, arg>>
    BY DEF LinkUnion, LinkOpenid, RelinkOpenid, GotoOrLost, Goto
  <1>6. userID[c] \in users
    BY <1>2 DEF StoreInv, TypeOK
  <1>7. (Id(c)' = Id(c) /\ UnionId(c)' = UnionId(c)) /\ HasUnion(c)'
    BY <1>2, <1>5 DEF Id, UnionId, HasUnion
  <1>8. CASE linkIdentity(id, userID[c])
    <2>1. /\ identities' \in [Identity -> users' \cup {None}]
          /\ LinksStay /\ NoOrphanUser' /\ SharedOnlyByUnion'
      BY <1>1, <1>2, <1>5, <1>8, LinkKeeps
    <2>2. identities'[other] = userID[c]
      BY <1>2, <1>3, <2>1 DEF LinksStay
    <2>3. Knowledge(c, to, v)'
      BY <1>2, <1>4, <1>5, <1>7, <2>2 DEF Knowledge, Working
    <2>4. QED
      BY <1>4, <1>5, <1>6, <2>1, <2>3, StepKeeps DEF PcValues, StoreInv, TypeOK
  <1>9. CASE UNCHANGED identities
    <2>1. Knowledge(c, to, v)
      BY <1>2, <1>4 DEF Knowledge, Working
    <2>2. QED
      BY <1>4, <1>5, <1>6, <1>9, <2>1, ReadKeeps DEF PcValues
  <1>10. QED
    BY <1>8, <1>9 DEF LinkUnion, LinkOpenid, RelinkOpenid

\* The statements that read, a conflict and a failure.
LEMMA ReadStepsKeep ==
  ASSUME StoreInv, NEW c \in Calls,
         \/ Lookup(c) \/ LookupUnion(c) \/ CreateConflicts(c) \/ Relookup(c)
         \/ RelookupErrs(c) \/ RelookupUnion(c) \/ Fail(c)
  PROVE  StoreInv'
  <1>1. pc[c] \in Working /\ Known(c) /\ arg[c] \in Arg /\ UNCHANGED <<users, identities>>
    BY DEF Lookup, LookupUnion, CreateConflicts, Relookup, RelookupErrs, RelookupUnion, Fail,
       Working, StoreInv, Known, Knowledge
  <1>2. Id(c) \in Identity /\ (HasUnion(c) => UnionId(c) \in Identity)
    BY <1>1, ArgIds
  <1>3. /\ identities[Id(c)] \in users \cup {None}
        /\ HasUnion(c) => identities[UnionId(c)] \in users \cup {None}
    BY <1>2 DEF StoreInv, TypeOK
  <1>4. PICK to \in PcValues, u \in users \cup {None} : Goto(c, to, u) /\ Knowledge(c, to, u)
    <2>1. CASE Lookup(c)
      BY <1>1, <1>3, <2>1 DEF Lookup, lookupUserID, Knowledge, PcValues, Working
    <2>2. CASE LookupUnion(c)
      BY <1>1, <1>3, <2>2 DEF LookupUnion, lookupUserID, Known, Knowledge, PcValues, Working
    <2>3. CASE CreateConflicts(c)
      BY <1>1, <2>3 DEF CreateConflicts, Knowledge, PcValues, Working
    <2>4. CASE Relookup(c)
      BY <1>1, <1>3, <2>4 DEF Relookup, lookupUserID, Knowledge, PcValues, Working
    <2>5. CASE RelookupErrs(c)
      BY <1>1, <2>5 DEF RelookupErrs, Knowledge, PcValues, Working
    <2>6. CASE RelookupUnion(c)
      BY <1>1, <1>3, <2>6 DEF RelookupUnion, lookupUserID, Known, Knowledge, PcValues, Working
    <2>7. CASE Fail(c)
      BY <1>1, <2>7 DEF Fail, Knowledge, PcValues, Working
    <2>8. QED
      BY <2>1, <2>2, <2>3, <2>4, <2>5, <2>6, <2>7
  <1>5. QED
    BY <1>1, <1>4, ReadKeeps

\* A call begins, or is refused before it has anything to resolve.
LEMMA CallKeeps ==
  ASSUME StoreInv, NEW c \in Calls,
         (\E a \in Arg : Call(c, a)) \/ Code2SessionErrs(c)
  PROVE  StoreInv'
  <1>1. pc[c] = "idle" /\ arg[c] = None /\ UNCHANGED <<users, identities, userID>>
    BY DEF Call, Code2SessionErrs, StoreInv, Known, Knowledge
  <1>2. /\ pc' \in [Calls -> PcValues] /\ arg' \in [Calls -> Arg \cup {None}]
        /\ \A d \in Calls : d # c => pc'[d] = pc[d] /\ arg'[d] = arg[d]
        /\ (pc'[c] = "lookup" /\ arg'[c] \in Arg) \/ pc'[c] = "failed"
    BY DEF Call, Code2SessionErrs, StoreInv, TypeOK, PcValues, Working
  <1>3. TypeOK'
    BY <1>1, <1>2 DEF StoreInv, TypeOK, PcValues
  <1>4. LinksStay
    BY <1>1 DEF LinksStay
  <1>5. Known(c)'
    BY <1>2 DEF Known, Knowledge, Working
  <1>6. \A d \in Calls : Known(d)'
    BY <1>1, <1>2, <1>4, <1>5, OthersKnow
  <1>7. NoOrphanUser'
    BY <1>1 DEF StoreInv, NoOrphanUser
  <1>8. \A d \in Calls : arg[d] # None =>
           arg'[d] # None /\ HasUnion(d)' = HasUnion(d) /\ Id(d)' = Id(d) /\ UnionId(d)' = UnionId(d)
    BY <1>1, <1>2 DEF HasUnion, Id, UnionId
  <1>9. SharedOnlyByUnion'
    BY <1>1, <1>8 DEF StoreInv, SharedOnlyByUnion
  <1>10. QED
    BY <1>3, <1>6, <1>7, <1>9 DEF StoreInv

\* Every statement of every call keeps the store's invariant.
LEMMA StoreStep == StoreInv /\ (StoreNext \/ Next) => StoreInv'
  BY CreateKeeps, LinkStepsKeep, ReadStepsKeep, CallKeeps DEF StoreNext, Next

\* The empty store satisfies it.
LEMMA StoreStart == Init => StoreInv
<1> SUFFICES ASSUME Init PROVE StoreInv
  OBVIOUS
<1>1. TypeOK
  BY DEF Init, TypeOK
<1>2. \A c \in Calls : Known(c)
  BY DEF Init, Known, Knowledge, Working
<1>3. NoOrphanUser /\ SharedOnlyByUnion
  BY DEF Init, NoOrphanUser, SharedOnlyByUnion
<1>4. QED
  BY <1>1, <1>2, <1>3 DEF StoreInv

\* Stuttering keeps it.
LEMMA StoreStutters == StoreInv /\ UNCHANGED vars => StoreInv'
  BY DEF StoreInv, vars, TypeOK, Known, Knowledge, NoOrphanUser, SharedOnlyByUnion,
     HasUnion, Id, UnionId

\* What every call knows when it is done is what it returns.
LEMMA KnownIsLinked == StoreInv => ResolvedIsLinked
  BY DEF StoreInv, Known, Knowledge, ResolvedIsLinked

\* The identity store on its own, whoever calls it: types, no user without an
\* identity, resolved calls return a linked user, accounts are shared only by union.
THEOREM StoreCorrect ==
  Spec => [](TypeOK /\ NoOrphanUser /\ ResolvedIsLinked /\ SharedOnlyByUnion)
<1>1. StoreInv /\ [Next]_vars => StoreInv'
  BY StoreStep, StoreStutters
<1>2. StoreInv => TypeOK /\ NoOrphanUser /\ ResolvedIsLinked /\ SharedOnlyByUnion
  BY KnownIsLinked DEF StoreInv
<1>3. QED
  BY <1>1, <1>2, StoreStart, PTL DEF Spec

--------------------------------------------------------------------------------
(***************************************************************************)
(* The login.                                                              *)
(***************************************************************************)

\* A token is that of a resolved login, for the user the login resolved to and for
\* the audience auth-service was given.
TokenKnown ==
  \A c \in Calls : token[c] # None =>
     pc[c] = "done" /\ token[c].sub = userID[c] /\ token[c].aud = setting.audience.auth

\* A PEM keeps the key.
KeyKept == setting.pem => key = 0

LoginInv == StoreInv /\ LoginTypeOK /\ TokenKnown /\ KeyKept

\* A step that only touches the store keeps the tokens' part.
LEMMA StoreLeavesTokens ==
  ASSUME LoginInv, StoreInv', users \subseteq users',
         UNCHANGED <<key, jwks, token, config, setting>>,
         \A c \in Calls : pc[c] = "done" => pc'[c] = "done" /\ userID'[c] = userID[c]
  PROVE  LoginInv'
  <1>1. LoginTypeOK'
    BY DEF LoginInv, LoginTypeOK, StoreInv
  <1>2. TokenKnown'
    BY DEF LoginInv, TokenKnown
  <1>3. KeyKept'
    BY DEF LoginInv, KeyKept
  <1>4. QED
    BY <1>1, <1>2, <1>3 DEF LoginInv

\* A resolved call is over: no statement of any call changes what it returned.
LEMMA DoneStays ==
  ASSUME StoreInv,
         \/ StoreNext
         \/ \E c \in Calls, a \in Arg : Call(c, a)
         \/ \E c \in Calls : Code2SessionErrs(c)
  PROVE  /\ users \subseteq users'
         /\ \A d \in Calls : pc[d] = "done" => pc'[d] = "done" /\ userID'[d] = userID[d]
  <1>1. ASSUME NEW c \in Calls, NEW to, NEW u, Goto(c, to, u), pc[c] # "done"
        PROVE  \A d \in Calls : pc[d] = "done" => pc'[d] = "done" /\ userID'[d] = userID[d]
    BY <1>1 DEF Goto, StoreInv, TypeOK
  <1>2. CASE StoreNext
    <2>1. PICK c \in Calls :
            /\ pc[c] \in Working
            /\ \E to, u : Goto(c, to, u)
            /\ users \subseteq users'
      <3>1. ASSUME NEW c \in Calls, NEW u \in Users, CreateCommits(c, u)
            PROVE  pc[c] \in Working /\ users \subseteq users' /\ \E to, v : Goto(c, to, v)
        BY <3>1 DEF CreateCommits, GotoOrLost, Working
      <3>2. ASSUME NEW c \in Calls, LinkUnion(c) \/ LinkOpenid(c) \/ RelinkOpenid(c)
            PROVE  pc[c] \in Working /\ users \subseteq users' /\ \E to, v : Goto(c, to, v)
        BY <3>2 DEF LinkUnion, LinkOpenid, RelinkOpenid, GotoOrLost, Working
      <3>3. ASSUME NEW c \in Calls,
                   \/ Lookup(c) \/ LookupUnion(c) \/ CreateConflicts(c) \/ Relookup(c)
                   \/ RelookupErrs(c) \/ RelookupUnion(c) \/ Fail(c)
            PROVE  pc[c] \in Working /\ users \subseteq users' /\ \E to, v : Goto(c, to, v)
        BY <3>3 DEF Lookup, LookupUnion, CreateConflicts, Relookup, RelookupErrs, RelookupUnion,
           Fail, Working
      <3>4. QED
        BY <1>2, <3>1, <3>2, <3>3 DEF StoreNext
    <2>2. pc[c] # "done"
      BY <2>1 DEF Working
    <2>3. QED
      BY <1>1, <2>1, <2>2
  <1>3. ASSUME NEW c \in Calls, (\E a \in Arg : Call(c, a)) \/ Code2SessionErrs(c)
        PROVE  /\ users \subseteq users'
               /\ \A d \in Calls : pc[d] = "done" => pc'[d] = "done" /\ userID'[d] = userID[d]
    BY <1>3 DEF Call, Code2SessionErrs, StoreInv, TypeOK
  <1>4. QED
    BY <1>2, <1>3

\* A restart of auth-service loses the calls under way and no token.
LEMMA RestartAuthKeeps ==
  ASSUME LoginInv, RestartAuth, UNCHANGED <<config, setting>>
  PROVE  LoginInv'
  <1>1. UNCHANGED <<users, identities, arg, jwks, token>>
    BY DEF RestartAuth
  <1>2. \A c \in Calls :
          \/ pc'[c] = pc[c] /\ pc[c] \notin Working /\ userID'[c] \in {userID[c], None}
             /\ (pc[c] = "done" => userID'[c] = userID[c])
          \/ pc'[c] = "failed" /\ userID'[c] = None
             /\ (pc[c] \in Working \/ Minting(c))
    BY DEF RestartAuth, Working
  <1>3. pc' \in [Calls -> PcValues] /\ userID' \in [Calls -> users \cup {None}]
    BY DEF RestartAuth, PcValues, LoginInv, StoreInv, TypeOK
  <1>4. StoreInv'
    <2>1. TypeOK'
      BY <1>1, <1>3 DEF LoginInv, StoreInv, TypeOK, PcValues
    <2>2. \A c \in Calls : Known(c)'
      <3> SUFFICES ASSUME NEW c \in Calls PROVE Known(c)'
        OBVIOUS
      <3>1. Known(c)
        BY DEF LoginInv, StoreInv
      <3>2. QED
        BY <1>1, <1>2, <3>1 DEF Known, Knowledge, HasUnion, Id, UnionId, Working
    <2>3. NoOrphanUser' /\ SharedOnlyByUnion'
      BY <1>1 DEF LoginInv, StoreInv, NoOrphanUser, SharedOnlyByUnion, HasUnion, Id, UnionId
    <2>4. QED
      BY <2>1, <2>2, <2>3 DEF StoreInv
  <1>5. key' \in 0..MaxRestarts /\ key <= key' /\ (setting.pem => key' = key)
    BY LoginAssumption DEF RestartAuth, loadOrGenerateKey, LoginInv, LoginTypeOK
  <1>6. LoginTypeOK'
    <2>1. jwks' \in (0..key') \cup {None}
      BY <1>1, <1>5, LoginAssumption DEF LoginInv, LoginTypeOK
    <2>2. \A c \in Calls : token'[c] # None => token'[c].sub \in users' /\ token'[c].key <= key'
      BY <1>1, <1>5, LoginAssumption DEF LoginInv, LoginTypeOK, Token
    <2>3. QED
      BY <1>1, <1>4, <1>5, <2>1, <2>2 DEF LoginInv, LoginTypeOK, StoreInv
  <1>7. TokenKnown'
    <2> SUFFICES ASSUME NEW c \in Calls, token[c] # None
                 PROVE  /\ pc'[c] = "done" /\ token[c].sub = userID'[c]
                        /\ token[c].aud = setting.audience.auth
      BY <1>1 DEF TokenKnown
    <2>1. pc[c] = "done" /\ token[c].sub = userID[c] /\ token[c].aud = setting.audience.auth
      BY DEF LoginInv, TokenKnown
    <2>2. QED
      BY <1>2, <2>1 DEF Minting, Working
  <1>8. KeyKept'
    BY <1>5 DEF LoginInv, KeyKept
  <1>9. QED
    BY <1>4, <1>6, <1>7, <1>8 DEF LoginInv

\* The token a login is given.
Issued(c) ==
  [sub |-> userID[c], iss |-> "auth-service", aud |-> setting.audience.auth,
   key |-> key, expired |-> FALSE]

LEMMA IssuedTyped ==
  ASSUME LoginTypeOK, NEW c \in Calls, userID[c] \in Users
  PROVE  Issued(c) \in Token
  <1>1. setting.audience.auth \in Audience
    BY LoginAssumption DEF LoginTypeOK, Setting
  <1>2. QED
    BY <1>1 DEF Issued, Token, LoginTypeOK

\* A token is issued, or expires.
LEMMA TokenStepsKeep ==
  ASSUME LoginInv, NEW c \in Calls, AccessToken(c) \/ Expires(c),
         UNCHANGED <<key, jwks, config, setting>>
  PROVE  LoginInv'
  <1>1. UNCHANGED vars
    BY DEF AccessToken, Expires
  <1>2. StoreInv'
    BY <1>1, StoreStutters DEF LoginInv
  <1>3. /\ token' \in [Calls -> Token \cup {None}]
        /\ \A d \in Calls : token'[d] # None =>
              /\ token'[d].sub \in users /\ token'[d].key <= key
              /\ pc[d] = "done" /\ token'[d].sub = userID[d]
              /\ token'[d].aud = setting.audience.auth
    <2>1. CASE AccessToken(c)
      <3>1. pc[c] = "done" /\ userID[c] \in users /\ userID[c] \in Users
        BY <2>1 DEF AccessToken, Minting, LoginInv, StoreInv, Known, Knowledge, TypeOK
      <3>2. token' = [token EXCEPT ![c] = Issued(c)]
        BY <2>1 DEF AccessToken, Issued
      <3>3. /\ Issued(c) \in Token /\ Issued(c).sub = userID[c] /\ Issued(c).key = key
            /\ Issued(c).aud = setting.audience.auth
        BY <3>1, IssuedTyped DEF LoginInv, Issued
      <3>4. key \in Nat
        BY LoginAssumption DEF LoginInv, LoginTypeOK
      <3>5. QED
        BY <3>1, <3>2, <3>3, <3>4 DEF LoginInv, LoginTypeOK, TokenKnown
    <2>2. CASE Expires(c)
      <3>1. token[c] \in Token /\ token' = [token EXCEPT ![c] = [token[c] EXCEPT !.expired = TRUE]]
        BY <2>2 DEF Expires, LoginInv, LoginTypeOK
      <3>2. /\ [token[c] EXCEPT !.expired = TRUE] \in Token
            /\ [token[c] EXCEPT !.expired = TRUE].sub = token[c].sub
            /\ [token[c] EXCEPT !.expired = TRUE].key = token[c].key
            /\ [token[c] EXCEPT !.expired = TRUE].aud = token[c].aud
        BY <3>1 DEF Token
      <3>3. token[c] # None
        BY <2>2 DEF Expires
      <3>4. QED
        BY <3>1, <3>2, <3>3 DEF LoginInv, LoginTypeOK, TokenKnown
    <2>3. QED
      BY <2>1, <2>2
  <1>4. LoginTypeOK' /\ TokenKnown'
    BY <1>1, <1>2, <1>3 DEF LoginInv, LoginTypeOK, StoreInv, TokenKnown, vars
  <1>5. KeyKept'
    BY DEF LoginInv, KeyKept
  <1>6. QED
    BY <1>2, <1>4, <1>5 DEF LoginInv

\* The gateway fetches the keys, or starts again.
LEMMA GatewayStepsKeep ==
  ASSUME LoginInv, Refresh \/ RestartGateway, UNCHANGED <<vars, token, config, setting>>
  PROVE  LoginInv'
  <1>1. key' = key /\ jwks' \in {key, None}
    BY DEF Refresh, RestartGateway
  <1>2. StoreInv'
    BY StoreStutters DEF LoginInv
  <1>3. key \in 0..key
    BY LoginAssumption DEF LoginInv, LoginTypeOK
  <1>4. LoginTypeOK' /\ TokenKnown'
    BY <1>1, <1>2, <1>3 DEF LoginInv, LoginTypeOK, StoreInv, TokenKnown, vars
  <1>5. KeyKept'
    BY <1>1 DEF LoginInv, KeyKept
  <1>6. QED
    BY <1>2, <1>4, <1>5 DEF LoginInv

\* The inductive invariant of the login holds always.
LEMMA LoginInvariance == LoginSpec => []LoginInv
<1>1. LoginInit => LoginInv
  <2> SUFFICES ASSUME LoginInit PROVE LoginInv
    OBVIOUS
  <2>1. StoreInv
    BY StoreStart DEF LoginInit
  <2>2. LoginTypeOK
    BY <2>1, LoginAssumption DEF LoginInit, LoginTypeOK, StoreInv
  <2>3. TokenKnown /\ KeyKept
    BY DEF LoginInit, TokenKnown, KeyKept
  <2>4. QED
    BY <2>1, <2>2, <2>3 DEF LoginInv
<1>2. LoginInv /\ [LoginNext]_loginVars => LoginInv'
  <2> SUFFICES ASSUME LoginInv, [LoginNext]_loginVars PROVE LoginInv'
    OBVIOUS
  <2>1. CASE /\ \/ StoreNext
                \/ \E c \in Calls, a \in Arg : Code2Session(c, a) \/ ResolveLogto(c, a)
                \/ \E c \in Calls : Code2SessionErrs(c)
             /\ UNCHANGED <<key, jwks, token, config, setting>>
    <3>1. \/ StoreNext
          \/ \E c \in Calls, a \in Arg : Call(c, a)
          \/ \E c \in Calls : Code2SessionErrs(c)
      BY <2>1 DEF Code2Session, ResolveLogto
    <3>2. StoreInv'
      BY <3>1, StoreStep, CallKeeps DEF LoginInv
    <3>3. QED
      BY <2>1, <3>1, <3>2, DoneStays, StoreLeavesTokens DEF LoginInv
  <2>2. ASSUME NEW c \in Calls, AccessToken(c) \/ Expires(c), UNCHANGED <<key, jwks, config, setting>>
        PROVE  LoginInv'
    BY <2>2, TokenStepsKeep
  <2>3. CASE RestartAuth /\ UNCHANGED <<config, setting>>
    BY <2>3, RestartAuthKeeps
  <2>4. CASE (Refresh \/ RestartGateway) /\ UNCHANGED <<vars, token, config, setting>>
    BY <2>4, GatewayStepsKeep
  <2>5. CASE UNCHANGED loginVars
    <3>1. StoreInv' /\ users \subseteq users'
      BY <2>5, StoreStutters DEF LoginInv, loginVars, vars
    <3>2. QED
      BY <2>5, <3>1, StoreLeavesTokens DEF loginVars, vars
  <2>6. QED
    BY <2>1, <2>2, <2>3, <2>4, <2>5 DEF LoginNext
<1>3. QED
  BY <1>1, <1>2, PTL DEF LoginSpec

\* The variables of the store, the login and the gateway's key cache keep their
\* types; a token's subject is a committed user.
THEOREM LoginTypes == LoginSpec => []LoginTypeOK
<1>1. LoginInv => LoginTypeOK
  BY DEF LoginInv
<1>2. QED
  BY <1>1, LoginInvariance, PTL

\* No interleaving of logins, webhooks, failures and restarts leaves a user without
\* an identity.
THEOREM NoOrphans == LoginSpec => []NoOrphanUser
<1>1. LoginInv => NoOrphanUser
  BY DEF LoginInv, StoreInv
<1>2. QED
  BY <1>1, LoginInvariance, PTL

\* A resolved call returns, and keeps, a user that its openid or union is linked to.
THEOREM ResolvedLinked == LoginSpec => []ResolvedIsLinked
<1>1. LoginInv => ResolvedIsLinked
  BY KnownIsLinked DEF LoginInv
<1>2. QED
  BY <1>1, LoginInvariance, PTL

\* Two identities share a user only through a union that was presented.
THEOREM NoAccidentalMerge == LoginSpec => []SharedOnlyByUnion
<1>1. LoginInv => SharedOnlyByUnion
  BY DEF LoginInv, StoreInv
<1>2. QED
  BY <1>1, LoginInvariance, PTL

\* With a PEM every unexpired token verifies whenever the gateway has keys and its
\* issuers and audience are auth-service's, as the user its login is linked to.
THEOREM TokensSurvive == LoginSpec => []TokensSurviveRestarts
<1>1. LoginInv => TokensSurviveRestarts
  <2> SUFFICES ASSUME LoginInv, NEW c \in Calls, Fresh(c), setting.pem, Configured, jwks # None
               PROVE  /\ Verify(token[c])
                      /\ token[c].sub \in {identities[Id(c)]}
                            \cup (IF HasUnion(c) THEN {identities[UnionId(c)]} ELSE {})
    BY DEF TokensSurviveRestarts
  <2>1. token[c] # None /\ ~token[c].expired /\ token[c] \in Token
    BY DEF Fresh, LoginInv, LoginTypeOK
  <2>2. key = 0 /\ jwks \in 0..key /\ token[c].key \in Nat /\ token[c].key <= key
    BY <2>1, LoginAssumption DEF LoginInv, KeyKept, LoginTypeOK, Token
  <2>3. issuerAllowed(token[c])
    BY <2>1 DEF issuerAllowed, Configured, Token
  <2>4. /\ pc[c] = "done" /\ token[c].sub = userID[c] /\ Known(c)
        /\ token[c].aud = setting.audience.auth
    BY <2>1 DEF LoginInv, TokenKnown, StoreInv
  <2>5. audienceContains(token[c])
    BY <2>4 DEF audienceContains, Configured
  <2>6. Verify(token[c])
    BY <2>1, <2>2, <2>3, <2>5 DEF Verify
  <2>7. token[c].sub \in {identities[Id(c)]} \cup (IF HasUnion(c) THEN {identities[UnionId(c)]} ELSE {})
    BY <2>4 DEF Known, Knowledge
  <2>8. QED
    BY <2>6, <2>7
<1>2. QED
  BY <1>1, LoginInvariance, PTL

--------------------------------------------------------------------------------
(***************************************************************************)
(* What GatewaySession (ResolveLogto) and LogtoWebhook (Resolve) take for  *)
(* granted of the identity store.                                          *)
(***************************************************************************)

\* A Logto subject has one platform user, asked by any calls at any time, other
\* subjects have others, and no mini-program login is ever given the user of a subject.
LogtoUsersApart ==
  \A c, d \in Calls : Answered(c) =>
     /\ Answered(d) => (userID[c] = userID[d] <=> arg[c].uid = arg[d].uid)
     /\ token[d] # None => token[d].sub # userID[c]

\* A resolved call has the user of an identity it presented; a resolve call, which has
\* no union, that of its subject.
LEMMA DoneHas ==
  ASSUME LoginInv, NEW c \in Calls, pc[c] = "done"
  PROVE  /\ arg[c] \in Arg /\ userID[c] # None
         /\ \E id \in Identity : identities[id] = userID[c] /\ (Login(c) => id[1] # "logto")
         /\ ~Login(c) => /\ Id(c) \in Identity /\ Id(c)[1] = "logto" /\ Id(c)[2] = arg[c].uid
                         /\ identities[Id(c)] = userID[c]
  <1>1. Known(c) /\ arg[c] \in Arg /\ userID[c] # None
    BY DEF LoginInv, StoreInv, Known, Knowledge
  <1>2. /\ Id(c) \in Identity /\ Id(c)[1] = arg[c].provider /\ Id(c)[2] = arg[c].uid
        /\ HasUnion(c) => UnionId(c) \in Identity /\ UnionId(c)[1] = "wechat_union"
    BY <1>1, ArgIds DEF Id, UnionId
  <1>3. ~Login(c) => arg[c].provider = "logto" /\ ~HasUnion(c)
    BY <1>1 DEF Arg, Login, HasUnion
  <1>4. CASE userID[c] = identities[Id(c)]
    BY <1>1, <1>2, <1>3, <1>4 DEF Login
  <1>5. CASE HasUnion(c) /\ userID[c] = identities[UnionId(c)]
    BY <1>1, <1>2, <1>3, <1>5 DEF Login
  <1>6. QED
    BY <1>1, <1>4, <1>5 DEF Known, Knowledge

\* Only logins are given tokens.
TokenOfLogin == \A c \in Calls : token[c] # None => Login(c)

\* A call that has its token is over, and what it asked stays.
LEMMA TokensOfLogins == LoginSpec => []TokenOfLogin
<1>1. LoginInit => TokenOfLogin
  BY DEF LoginInit, TokenOfLogin
<1>2. LoginInv /\ TokenOfLogin /\ [LoginNext]_loginVars => TokenOfLogin'
  <2> SUFFICES ASSUME LoginInv, TokenOfLogin, [LoginNext]_loginVars, NEW d \in Calls, token'[d] # None
               PROVE  arg'[d].provider = "wechat_mp"
    BY DEF TokenOfLogin, Login
  <2>1. \/ token[d] # None
        \/ AccessToken(d)
    BY DEF LoginNext, loginVars, AccessToken, Expires, RestartAuth, LoginInv, LoginTypeOK
  <2>2. CASE AccessToken(d)
    BY <2>2 DEF AccessToken, Minting, Login, vars
  <2>3. CASE token[d] # None
    <3>1. pc[d] = "done" /\ arg[d].provider = "wechat_mp"
      BY <2>3 DEF LoginInv, TokenKnown, TokenOfLogin, Login
    <3>2. \/ arg' = arg
          \/ \E c \in Calls, a \in Arg : pc[c] = "idle" /\ arg' = [arg EXCEPT ![c] = a]
      <4>1. CASE StoreNext
        BY <4>1 DEF StoreNext, CreateCommits, Lookup, LookupUnion, LinkUnion, LinkOpenid,
           CreateConflicts, Relookup, RelookupErrs, RelookupUnion, RelinkOpenid, Fail, GotoOrLost, Goto
      <4>2. QED
        BY <4>1 DEF LoginNext, loginVars, vars, Code2Session, ResolveLogto, Call, Code2SessionErrs,
           AccessToken, Expires, RestartAuth
    <3>3. QED
      BY <3>1, <3>2 DEF LoginInv, StoreInv, TypeOK
  <2>4. QED
    BY <2>1, <2>2, <2>3
<1>3. QED
  BY <1>1, <1>2, LoginInvariance, PTL DEF LoginSpec

\* A Logto subject has one platform user, its own, for ever and for all callers.
THEOREM LogtoUsersKept == LoginSpec => []LogtoUsersApart
<1>1. LoginInv /\ TokenOfLogin => LogtoUsersApart
  <2> SUFFICES ASSUME LoginInv, TokenOfLogin, NEW c \in Calls, NEW d \in Calls, Answered(c)
               PROVE  /\ Answered(d) => (userID[c] = userID[d] <=> arg[c].uid = arg[d].uid)
                      /\ token[d] # None => token[d].sub # userID[c]
    BY DEF LogtoUsersApart
  <2>1. /\ Id(c) \in Identity /\ Id(c)[1] = "logto" /\ Id(c)[2] = arg[c].uid
        /\ identities[Id(c)] = userID[c] /\ userID[c] # None
    BY DoneHas DEF Answered
  <2>2. \A id \in Identity : identities[id] = userID[c] => id = Id(c)
    BY <2>1 DEF LoginInv, StoreInv, SharedOnlyByUnion
  <2>3. ASSUME Answered(d) PROVE userID[c] = userID[d] <=> arg[c].uid = arg[d].uid
    <3>1. /\ Id(d) \in Identity /\ Id(d)[1] = "logto" /\ Id(d)[2] = arg[d].uid
          /\ identities[Id(d)] = userID[d]
      BY <2>3, DoneHas DEF Answered
    <3>2. Id(c) = <<"logto", arg[c].uid>> /\ Id(d) = <<"logto", arg[d].uid>>
      BY <2>1, <3>1 DEF Id
    <3>3. QED
      BY <2>1, <2>2, <3>1, <3>2
  <2>4. ASSUME token[d] # None PROVE token[d].sub # userID[c]
    <3>1. pc[d] = "done" /\ token[d].sub = userID[d]
      BY <2>4 DEF LoginInv, TokenKnown
    <3>2. Login(d)
      BY <2>4 DEF TokenOfLogin
    <3>3. PICK id \in Identity : identities[id] = userID[d] /\ id[1] # "logto"
      BY <3>1, <3>2, DoneHas
    <3>4. QED
      BY <2>1, <2>2, <3>1, <3>3
  <2>5. QED
    BY <2>3, <2>4
<1>2. QED
  BY <1>1, LoginInvariance, TokensOfLogins, PTL

--------------------------------------------------------------------------------
(***************************************************************************)
(* The directory of users.  A statement of a call is at most one step of   *)
(* the directory on behalf of that call (CallResolves); what the call      *)
(* knows (Known) gives the identity whose account it is told.              *)
(***************************************************************************)

\* A call presents its identity, and its union if it has one.
LEMMA Presents ==
  ASSUME NEW c \in Calls, arg[c] \in Arg
  PROVE  /\ presented[c] = IdsOf(arg[c])
         /\ Id(c) \in presented[c]
         /\ HasUnion(c) => UnionId(c) \in presented[c]
  BY ArgAssumption DEF presented, IdsOf, Id, UnionId, HasUnion

\* A call that is not done has been told nothing.
LEMMA NotTold ==
  ASSUME LoginInv, NEW c \in Calls, pc[c] # "done"
  PROVE  told[c] = None
  BY DEF LoginInv, TokenKnown, told, Answered

\* What a call is told depends on nothing but its own state.
LEMMA ToldOwn ==
  ASSUME NEW d \in Calls, token'[d] = token[d], arg'[d] = arg[d],
         \/ pc'[d] = pc[d] /\ userID'[d] = userID[d]
         \/ pc[d] # "done" /\ pc'[d] # "done"
  PROVE  told'[d] = told[d]
  BY DEF told, Answered, Login

\* A statement of a call that changes the tables as the directory allows is a step of
\* the directory: if it ends a resolve call, the caller is told an account it knows.
LEMMA CallResolves ==
  ASSUME LoginInv, StoreInv', NEW c \in Calls, NEW to, NEW u, pc[c] \in Working,
         Goto(c, to, u), UNCHANGED token,
         UNCHANGED <<users, identities>> \/ Directory!Open(c) \/ Directory!Join(c)
  PROVE  Directory!Next
  <1>1. arg[c] \in Arg /\ arg' = arg /\ presented' = presented
    BY DEF Goto, LoginInv, StoreInv, Known, Knowledge, presented
  <1>2. /\ pc'[c] = to /\ userID'[c] = u
        /\ \A d \in Calls : d # c => pc'[d] = pc[d] /\ userID'[d] = userID[d]
    BY DEF Goto, LoginInv, StoreInv, TypeOK
  <1>3. \A d \in Calls : d # c => told'[d] = told[d]
    BY <1>1, <1>2, ToldOwn
  <1>4. pc[c] # "done" /\ told[c] = None
    BY NotTold DEF Working
  <1>5. told = [d \in Calls |-> told[d]] /\ told' = [d \in Calls |-> told'[d]]
    BY DEF told
  <1>6. CASE to = "done" /\ ~Login(c)
    <2>1. token[c] = None
      BY <1>4 DEF LoginInv, TokenKnown
    <2>2. told'[c] = u
      BY <1>1, <1>2, <1>6, <2>1, ArgAssumption DEF told, Answered, Login
    <2>3. told' = [told EXCEPT ![c] = u]
      BY <1>3, <1>5, <2>2
    <2>4. Known(c)' /\ Id(c)' = Id(c) /\ UnionId(c)' = UnionId(c) /\ (HasUnion(c)' <=> HasUnion(c))
      BY <1>1 DEF StoreInv, Id, UnionId, HasUnion
    <2>5. /\ u # None
          /\ u = identities'[Id(c)] \/ (HasUnion(c) /\ u = identities'[UnionId(c)])
      BY <1>2, <1>6, <2>4 DEF Known, Knowledge
    <2>6. PICK id \in presented[c] : u = identities'[id]
      BY <1>1, <2>5, Presents
    <2>7. Directory!Answer(c)
      BY <1>4, <2>3, <2>5, <2>6 DEF Directory!Answer
    <2>8. QED
      BY <1>1, <2>7 DEF Directory!Next, Directory!Resolve
  <1>7. CASE ~(to = "done" /\ ~Login(c))
    <2>1. told'[c] = told[c]
      BY <1>1, <1>2, <1>4, <1>7 DEF told, Answered, Login
    <2>2. told' = told
      BY <1>3, <1>5, <2>1
    <2>3. QED
      BY <1>1, <2>2 DEF Directory!Next, Directory!Resolve
  <1>8. QED
    BY <1>6, <1>7

\* The transaction that inserts a user with its identity opens an account.
LEMMA CreateOpens ==
  ASSUME LoginInv, StoreInv', NEW c \in Calls, NEW u \in Users, CreateCommits(c, u), UNCHANGED token
  PROVE  Directory!Next
  <1>1. pc[c] \in Working /\ arg[c] \in Arg
    BY DEF CreateCommits, Working, LoginInv, StoreInv, Known, Knowledge
  <1>2. Directory!Open(c)
    BY <1>1, Presents DEF CreateCommits, Directory!Open
  <1>3. PICK to, v : Goto(c, to, v)
    BY DEF CreateCommits, GotoOrLost
  <1>4. QED
    BY <1>1, <1>2, <1>3, CallResolves

\* The insert of a link joins an identity to the account of the other that the call
\* presents, or meets a row and does nothing.
LEMMA LinkJoins ==
  ASSUME LoginInv, StoreInv', NEW c \in Calls, LinkUnion(c) \/ LinkOpenid(c) \/ RelinkOpenid(c),
         UNCHANGED token
  PROVE  Directory!Next
  <1> DEFINE id == IF pc[c] = "linkUnion" THEN UnionId(c) ELSE Id(c)
             other == IF pc[c] = "linkUnion" THEN Id(c) ELSE UnionId(c)
  <1>1. pc[c] \in {"linkUnion", "linkOpenid", "relinkOpenid"} /\ UNCHANGED users
    BY DEF LinkUnion, LinkOpenid, RelinkOpenid
  <1>2. /\ arg[c] \in Arg /\ HasUnion(c) /\ pc[c] \in Working
        /\ userID[c] # None /\ userID[c] = identities[other]
    BY <1>1 DEF LoginInv, StoreInv, Known, Knowledge, Working
  <1>3. id \in presented[c] /\ other \in presented[c] /\ id \in Identity
    BY <1>2, Presents, ArgIds
  <1>4. linkIdentity(id, userID[c]) \/ UNCHANGED identities
    BY <1>1 DEF LinkUnion, LinkOpenid, RelinkOpenid
  <1>5. UNCHANGED identities \/ Directory!Join(c)
    <2>1. CASE UNCHANGED identities
      BY <2>1
    <2>2. CASE linkIdentity(id, userID[c]) /\ identities[id] = None
      <3>1. identities' = [identities EXCEPT ![id] = identities[other]]
        BY <1>2, <1>3, <2>2 DEF linkIdentity, LoginInv, StoreInv, TypeOK
      <3>2. \E i, o \in presented[c] :
               /\ identities[i] = None /\ identities[o] # None
               /\ identities' = [identities EXCEPT ![i] = identities[o]]
        BY <1>2, <1>3, <2>2, <3>1
      <3>3. QED
        BY <1>1, <3>2 DEF Directory!Join
    <2>3. CASE linkIdentity(id, userID[c]) /\ identities[id] # None
      BY <1>3, <2>3 DEF linkIdentity, LoginInv, StoreInv, TypeOK
    <2>4. QED
      BY <1>4, <2>1, <2>2, <2>3
  <1>6. PICK to, v : Goto(c, to, v)
    BY DEF LinkUnion, LinkOpenid, RelinkOpenid, GotoOrLost
  <1>7. QED
    BY <1>1, <1>2, <1>5, <1>6, CallResolves

\* A call begins: its identities are presented.
LEMMA CallAsks ==
  ASSUME LoginInv, NEW c \in Calls, NEW a \in Arg, Call(c, a), UNCHANGED token
  PROVE  Directory!Next
  <1>1. /\ pc[c] = "idle" /\ arg[c] = None /\ arg' = [arg EXCEPT ![c] = a]
        /\ pc' = [pc EXCEPT ![c] = "lookup"] /\ UNCHANGED <<users, identities, userID>>
    BY DEF Call, LoginInv, StoreInv, Known, Knowledge
  <1>2. /\ arg'[c] = a /\ pc'[c] = "lookup"
        /\ \A d \in Calls : d # c => arg'[d] = arg[d] /\ pc'[d] = pc[d]
    BY <1>1 DEF LoginInv, StoreInv, TypeOK
  <1>3. presented[c] = {}
    BY <1>1 DEF presented
  <1>4. presented' = [presented EXCEPT ![c] = IdsOf(a)]
    BY <1>2, ArgAssumption DEF presented
  <1>5. told' = told
    <2>1. \A d \in Calls : d # c => told'[d] = told[d]
      BY <1>1, <1>2, ToldOwn
    <2>2. token[c] = None
      BY <1>1 DEF LoginInv, TokenKnown
    <2>3. told[c] = None /\ told'[c] = None
      BY <1>1, <1>2, <2>2 DEF told, Answered
    <2>4. QED
      BY <2>1, <2>3 DEF told
  <1>6. Directory!Ask(c)
    BY <1>1, <1>3, <1>4, <1>5 DEF Directory!Ask
  <1>7. QED
    BY <1>6 DEF Directory!Next

\* A login is told its account with its token.
LEMMA TokenAnswers ==
  ASSUME LoginInv, NEW c \in Calls, AccessToken(c)
  PROVE  Directory!Next
  <1>1. /\ pc[c] = "done" /\ Login(c) /\ token[c] = None /\ Known(c)
        /\ token' = [token EXCEPT ![c] = Issued(c)] /\ UNCHANGED vars
    BY DEF AccessToken, Issued, Minting, LoginInv, StoreInv
  <1>2. userID[c] # None /\ arg[c] \in Arg /\ userID[c] \in Users
    BY <1>1 DEF Known, Knowledge, LoginInv, StoreInv, TypeOK
  <1>3. Issued(c) \in Token
    BY <1>2, IssuedTyped DEF LoginInv
  <1>4. Issued(c) # None
    BY <1>3, LoginAssumption
  <1>5. token'[c] = Issued(c) /\ \A d \in Calls : d # c => token'[d] = token[d]
    BY <1>1 DEF LoginInv, LoginTypeOK
  <1>6. told[c] = None /\ told'[c] = userID[c]
    BY <1>1, <1>4, <1>5 DEF told, Answered, Issued
  <1>7. \A d \in Calls : d # c => told'[d] = told[d]
    BY <1>1, <1>5, ToldOwn DEF vars
  <1>8. told' = [told EXCEPT ![c] = userID[c]]
    BY <1>6, <1>7 DEF told
  <1>9. PICK id \in presented[c] : userID[c] = identities[id]
    BY <1>1, <1>2, Presents DEF Known, Knowledge
  <1>10. presented' = presented /\ UNCHANGED <<users, identities>>
    BY <1>1 DEF presented, vars
  <1>11. Directory!Answer(c)
    BY <1>2, <1>6, <1>8, <1>9, <1>10 DEF Directory!Answer
  <1>12. QED
    BY <1>10, <1>11 DEF Directory!Next, Directory!Resolve

\* The other steps change nothing a caller sees: a code that WeChat refuses, a token
\* that expires, a restart of auth-service and everything the gateway does.
LEMMA UnseenSteps ==
  ASSUME LoginInv,
         \/ (\E c \in Calls : Code2SessionErrs(c)) /\ UNCHANGED token
         \/ \E c \in Calls : Expires(c)
         \/ RestartAuth
         \/ UNCHANGED <<vars, token>>
  PROVE  UNCHANGED Directory!vars
  <1>1. UNCHANGED <<users, identities, arg>>
    BY DEF Code2SessionErrs, Expires, RestartAuth, vars
  <1>2. presented' = presented
    BY <1>1 DEF presented
  <1>3. ASSUME NEW d \in Calls PROVE told'[d] = told[d]
    <2>1. ASSUME NEW c \in Calls, Code2SessionErrs(c), UNCHANGED token PROVE told'[d] = told[d]
      <3>1. /\ UNCHANGED userID /\ (d # c => pc'[d] = pc[d])
            /\ (d = c => pc[d] = "idle" /\ pc'[d] = "failed")
        BY <2>1 DEF Code2SessionErrs, LoginInv, StoreInv, TypeOK
      <3>2. QED
        BY <1>1, <2>1, <3>1, ToldOwn
    <2>2. ASSUME NEW c \in Calls, Expires(c) PROVE told'[d] = told[d]
      <3>1. token[c] \in Token /\ token' = [token EXCEPT ![c] = [token[c] EXCEPT !.expired = TRUE]]
        BY <2>2 DEF Expires, LoginInv, LoginTypeOK
      <3>2. /\ [token[c] EXCEPT !.expired = TRUE] \in Token
            /\ [token[c] EXCEPT !.expired = TRUE].sub = token[c].sub
        BY <3>1 DEF Token
      <3>3. /\ d # c => token'[d] = token[d]
            /\ token[c] # None /\ token'[c] # None /\ token'[c].sub = token[c].sub
        BY <2>2, <3>1, <3>2, LoginAssumption DEF Expires, LoginInv, LoginTypeOK
      <3>4. d = c => told'[d] = told[d]
        BY <3>3 DEF told
      <3>5. UNCHANGED vars
        BY <2>2 DEF Expires
      <3>6. QED
        BY <3>3, <3>4, <3>5, ToldOwn DEF vars
    <2>3. CASE RestartAuth
      <3>1. /\ UNCHANGED token
            /\ (pc[d] = "done" /\ ~Minting(d)) => pc'[d] = "done" /\ userID'[d] = userID[d]
            /\ (pc[d] # "done" \/ Minting(d)) => pc'[d] # "done"
        BY <2>3 DEF RestartAuth, Working
      <3>2. QED
        BY <1>1, <3>1 DEF told, Answered, Login, Minting
    <2>4. CASE UNCHANGED <<vars, token>>
      BY <2>4, ToldOwn DEF vars
    <2>5. QED
      BY <2>1, <2>2, <2>3, <2>4
  <1>4. told' = told
    BY <1>3 DEF told
  <1>5. QED
    BY <1>1, <1>2, <1>4 DEF Directory!vars

\* auth-service implements the directory of users: every answer is the account of an
\* identity the caller presented, links last, and accounts are opened and joined only
\* for their own callers, whatever statements interleave, fail or are cut off.
THEOREM DirectoryImplemented == LoginSpec => ImplementsDirectory
<1>1. LoginInit => Directory!Init
  BY DEF LoginInit, Init, Directory!Init, presented, told, Answered
<1>2. LoginInv /\ LoginInv' /\ [LoginNext]_loginVars => [Directory!Next]_(Directory!vars)
  <2> SUFFICES ASSUME LoginInv, LoginInv', [LoginNext]_loginVars
               PROVE  [Directory!Next]_(Directory!vars)
    OBVIOUS
  <2>1. StoreInv'
    BY DEF LoginInv
  <2>2. CASE StoreNext /\ UNCHANGED token
    <3>1. ASSUME NEW c \in Calls,
                 \/ Lookup(c) \/ LookupUnion(c) \/ CreateConflicts(c) \/ Relookup(c)
                 \/ RelookupErrs(c) \/ RelookupUnion(c) \/ Fail(c)
          PROVE  Directory!Next
      <4>1. pc[c] \in Working /\ UNCHANGED <<users, identities>> /\ \E to, v : Goto(c, to, v)
        BY <3>1 DEF Lookup, LookupUnion, CreateConflicts, Relookup, RelookupErrs, RelookupUnion,
           Fail, Working
      <4>2. QED
        BY <2>1, <2>2, <4>1, CallResolves
    <3>2. QED
      BY <2>1, <2>2, <3>1, CreateOpens, LinkJoins DEF StoreNext
  <2>3. ASSUME NEW c \in Calls, NEW a \in Arg, Code2Session(c, a) \/ ResolveLogto(c, a), UNCHANGED token
        PROVE  Directory!Next
    BY <2>3, CallAsks DEF Code2Session, ResolveLogto
  <2>4. ASSUME NEW c \in Calls, AccessToken(c) PROVE Directory!Next
    BY <2>4, TokenAnswers
  <2>5. CASE UNCHANGED loginVars
    BY <2>5, UnseenSteps DEF loginVars
  <2>6. QED
    BY <2>2, <2>3, <2>4, <2>5, UnseenSteps DEF LoginNext
<1>3. QED
  BY <1>1, <1>2, LoginInvariance, PTL DEF LoginSpec, ImplementsDirectory, Directory!Spec

================================================================================
