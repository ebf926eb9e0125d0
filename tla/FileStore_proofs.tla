---------------------------- MODULE FileStore_proofs ----------------------------
(***************************************************************************)
(* Proofs about FileStore, for every set of requests, files, identities    *)
(* and expiry parameters, and every width of a duration.                   *)
(*                                                                         *)
(* The inductive invariant says for each request what it knows of the two  *)
(* stores where it is (ReqInv), for each file which combinations of row,   *)
(* object and history are possible (FileInv), and that an upload works     *)
(* alone on its file until its row is there (UploadAlone): that is why the *)
(* object it put is still there when it inserts the row, and why a delete, *)
(* which begins with the row, finds nothing put after it.  A step works on *)
(* one request and one file; StepKeeps carries the rest over.              *)
(***************************************************************************)
EXTENDS FileStore, FiniteSetTheorems, TLAPS

Known == {f \in Files : meta[f] # None}

HasObject(f) == \E k \in objects : k[1] = f

\* Every object is the one that the URL of a known file leads to.
Exact == \A k \in objects : k[1] \in Known /\ k = objectURL(k[1])

\* Past the access check.
Late == {"getObject", "delObject", "delRow"}

ReqInv(r) ==
  LET q == req[r] IN
  q # None =>
    /\ q.f \in Known
    /\ q.op = "upload" <=> q.at \in {"put", "insert"}
    /\ q.op = "upload" => q.f \notin rows \cup created \cup gone
    /\ q.at = "put" => ~HasObject(q.f)
    /\ q.at = "insert" => HasObject(q.f)
    /\ (q.op = "delete" /\ canAccess(q.id, q.f)) => q.f \in asked
    /\ q.at \in {"delObject", "delRow"} => q.op = "delete" /\ canAccess(q.id, q.f)
    /\ q.at = "delRow" => ~HasObject(q.f)
    /\ q.at = "getObject" => q.f \in rows \cup asked

\* An upload shares its file with no other upload and no request past its check.
UploadAlone ==
  \A r, s \in Requests :
     (/\ r # s /\ req[r] # None /\ req[s] # None
      /\ req[r].op = "upload" /\ req[r].f = req[s].f)
        => req[s].op # "upload" /\ req[s].at \notin Late

FileInv(f) ==
  /\ f \in rows \cup created \cup asked \cup gone \cup missed => f \in Known
  /\ f \in rows \ asked => HasObject(f)
  /\ f \in created \ asked => f \in rows
  /\ f \in missed => f \in asked
  /\ f \in gone => f \notin rows /\ ~HasObject(f)
  /\ (f \in created /\ HasObject(f)) => f \in rows

\* The stores differ only between the two writes of an upload or of a delete.
AgreeInv(f) ==
  ~faulted => \/ f \in rows <=> HasObject(f)
              \/ \E r \in Requests :
                    req[r] # None /\ req[r].f = f /\ req[r].at \in {"insert", "delRow"}

LinkInv ==
  link # None => /\ link.f \in rows \cup asked
                 /\ link.key = awsCanonicalURI(link.f)
                 /\ link.expiresSec \in 0..(MaxExpiry \div Second)

\* A process that started without Postgres counts as a fault.
UpInv == Serving => db \/ faulted

Inv ==
  /\ TypeOK /\ Exact
  /\ \A r \in Requests : ReqInv(r)
  /\ UploadAlone
  /\ \A f \in Files : FileInv(f) /\ AgreeInv(f)
  /\ LinkInv /\ UpInv

--------------------------------------------------------------------------------
(***************************************************************************)
(* Pure parts.                                                             *)
(***************************************************************************)

\* Signed arithmetic gives integers.
LEMMA WrapInt == \A n \in Int : Wrap(n) \in Int
  BY PowersAssumption DEF Wrap

\* Division by a positive number is monotone.
LEMMA DivMonotone ==
  ASSUME NEW a \in Nat, NEW b \in Nat, NEW d \in Nat \ {0}, a <= b
  PROVE  a \div d \in 0..(b \div d)
  OBVIOUS

\* However the duration was computed, a link's time is within the bounds.
LEMMA LinkTime ==
  ASSUME NEW f, NEW sec \in Expires
  PROVE  PresignGetURL(f, Expiry(sec)).expiresSec \in 0..(MaxExpiry \div Second)
  <1>1. Expiry(sec) \in Int
    <2>1. sec * Second \in Int /\ 3600 * Second \in Int
      BY FileAssumption
    <2>2. QED
      BY <2>1, WrapInt, FileAssumption DEF Expiry, AtMost
  <1> DEFINE d == AtMost(IF Expiry(sec) <= 0 THEN 3600 * Second ELSE Expiry(sec), MaxExpiry)
  <1>2. d \in Nat /\ d <= MaxExpiry
    <2>1. 3600 * Second \in Nat
      BY FileAssumption
    <2>2. QED
      BY <1>1, <2>1, FileAssumption DEF AtMost
  <1>3. PresignGetURL(f, Expiry(sec)).expiresSec = d \div Second
    BY DEF PresignGetURL
  <1> HIDE DEF d
  <1>4. d \div Second \in 0..(MaxExpiry \div Second)
    BY <1>2, DivMonotone, FileAssumption
  <1>5. QED
    BY <1>3, <1>4

\* canAccess lets nobody in whom the reference does not call an owner.
LEMMA AccessIsOwners ==
  ASSUME NEW id, NEW f, canAccess(id, f)
  PROVE  Owns(id, f)
  <1> DEFINE T == {id.tenant, meta[f].owner.tenant} \ {NoTenant}
  <1>1. T = {} \/ \E t : T = {t}
    BY DEF canAccess
  <1>2. Cardinality(T) \in {0, 1}
    BY <1>1, FS_EmptySet, FS_Singleton
  <1>3. QED
    BY <1>2 DEF canAccess, Owns

\* A URL leads to a key of its own file.
LEMMA URLOfFile ==
  ASSUME NEW f \in Files
  PROVE  objectURL(f) \in Keys /\ objectURL(f)[1] = f
  BY DEF objectURL, Keys

--------------------------------------------------------------------------------
(***************************************************************************)
(* Requests.                                                               *)
(***************************************************************************)

\* A request that goes on keeps everything but its place.
LEMMA GotoFacts ==
  ASSUME TypeOK, NEW r \in Requests, req[r] # None, NEW at \in Steps, Goto(r, at)
  PROVE  /\ req' \in [Requests -> Request \cup {None}]
         /\ req'[r] # None /\ req'[r].at = at
         /\ req'[r].op = req[r].op /\ req'[r].id = req[r].id /\ req'[r].f = req[r].f
         /\ \A s \in Requests : s # r => req'[s] = req[s]
  <1> DEFINE q == [req[r] EXCEPT !.at = at]
  <1>1. req[r] \in Request
    BY DEF TypeOK
  <1>2. q \in Request /\ q.at = at /\ q.op = req[r].op /\ q.id = req[r].id /\ q.f = req[r].f
    BY <1>1 DEF Request
  <1>3. req' = [req EXCEPT ![r] = q]
    BY DEF Goto
  <1> HIDE DEF q
  <1>4. QED
    BY <1>2, <1>3, NoneAssumption DEF TypeOK

\* A request that has answered is over.
LEMMA AnsweredFacts ==
  ASSUME TypeOK, NEW r \in Requests, Answered(r)
  PROVE  /\ req' \in [Requests -> Request \cup {None}]
         /\ req'[r] = None
         /\ \A s \in Requests : s # r => req'[s] = req[s]
  BY DEF Answered, TypeOK

\* A request that is accepted.
LEMMA AcceptFacts ==
  ASSUME TypeOK, NEW r \in Requests, NEW op \in Op, NEW id \in Identity, NEW f \in Files,
         NEW expires \in Expires, NEW at \in Steps, Accept(r, op, id, f, expires, at)
  PROVE  /\ req' \in [Requests -> Request \cup {None}]
         /\ req[r] = None /\ Serving
         /\ req'[r] = [op |-> op, id |-> id, f |-> f, expires |-> expires, at |-> at]
         /\ req'[r] # None
         /\ \A s \in Requests : s # r => req'[s] = req[s]
  <1>1. [op |-> op, id |-> id, f |-> f, expires |-> expires, at |-> at] \in Request
    BY DEF Request
  <1>2. QED
    BY <1>1, NoneAssumption DEF Accept, Accepting, Serving, TypeOK

\* What a step of the handler of r leaves alone: the process, other requests,
\* other files, what is known of files and what their owners asked for.
Frame(r, f) ==
  /\ UNCHANGED <<server, meta, asked>>
  /\ faulted => faulted'
  /\ \A s \in Requests : s # r => req'[s] = req[s]
  /\ \A g \in Files : g # f =>
        /\ g \in rows' <=> g \in rows
        /\ g \in created' <=> g \in created
        /\ g \in gone' <=> g \in gone
        /\ g \in missed' <=> g \in missed
        /\ HasObject(g)' <=> HasObject(g)

\* A step keeps the invariant if it keeps the types, the objects exact, and the
\* parts of its own request, of its own file and of the requests on that file.
LEMMA StepKeeps ==
  ASSUME Inv, NEW r \in Requests, req[r] # None, NEW f, f = req[r].f, Frame(r, f),
         TypeOK', Exact', LinkInv', FileInv(f)',
         (~faulted') => \/ f \in rows' <=> HasObject(f)'
                        \/ \E s \in Requests :
                              /\ req'[s] # None /\ req'[s].f = f
                              /\ req'[s].at \in {"insert", "delRow"},
         ReqInv(r)',
         \A s \in Requests : (s # r /\ req[s] # None /\ req[s].f = f) => ReqInv(s)',
         req'[r] # None => /\ req'[r].op = req[r].op /\ req'[r].f = f
                           /\ req'[r].at \in Late => req[r].at \in Late \/ f \in rows
  PROVE  Inv'
  <1>1. /\ meta' = meta /\ asked' = asked /\ Known' = Known
        /\ phase' = phase /\ db' = db
        /\ \A id, g : canAccess(id, g)' <=> canAccess(id, g)
    BY DEF Frame, server, Known, canAccess
  <1>2. f \in Files
    BY DEF Inv, TypeOK, Request
  <1>3. \A s \in Requests : ReqInv(s)'
    <2> SUFFICES ASSUME NEW s \in Requests, s # r, req[s] # None, req[s].f # f
                 PROVE  ReqInv(s)'
      <3>1. \A s \in Requests : (s # r /\ req[s] = None) => ReqInv(s)'
        BY DEF Frame, ReqInv
      <3>2. QED
        BY <3>1
    <2>1. ReqInv(s) /\ req'[s] = req[s] /\ req[s].f \in Files
      BY DEF Inv, Frame, TypeOK, Request
    <2>2. QED
      BY <1>1, <2>1 DEF Frame, ReqInv
  <1>4. UploadAlone'
    <2> SUFFICES ASSUME NEW s \in Requests, NEW t \in Requests, s # t,
                        req'[s] # None, req'[t] # None,
                        req'[s].op = "upload", req'[s].f = req'[t].f
                 PROVE  req'[t].op # "upload" /\ req'[t].at \notin Late
      BY DEF UploadAlone, Late
    <2>1. \A u \in Requests : req'[u] # None =>
            req[u] # None /\ req'[u].op = req[u].op /\ req'[u].f = req[u].f
      BY DEF Frame
    <2>2. req[t].op # "upload" /\ req[t].at \notin Late
      BY <2>1 DEF Inv, UploadAlone
    <2>3. CASE t # r
      BY <2>1, <2>2, <2>3 DEF Frame
    <2>4. CASE t = r
      <3>1. req[s].f \notin rows
        BY <2>1 DEF Inv, ReqInv
      <3>2. QED
        BY <2>1, <2>2, <2>4, <3>1
    <2>5. QED
      BY <2>3, <2>4
  <1>5. \A g \in Files : FileInv(g)'
    <2> SUFFICES ASSUME NEW g \in Files, g # f PROVE FileInv(g)'
      OBVIOUS
    <2>1. FileInv(g)
      BY DEF Inv
    <2>2. QED
      BY <1>1, <2>1 DEF Frame, FileInv
  <1>6. \A g \in Files : AgreeInv(g)'
    <2>1. AgreeInv(f)'
      BY DEF AgreeInv
    <2>2. ASSUME NEW g \in Files, g # f PROVE AgreeInv(g)'
      <3>1. AgreeInv(g)
        BY DEF Inv
      <3>2. \A s \in Requests : req[s].f = g => req'[s] = req[s]
        BY <2>2 DEF Frame
      <3>3. QED
        BY <2>2, <3>1, <3>2 DEF Frame, AgreeInv
    <2>3. QED
      BY <2>1, <2>2
  <1>7. UpInv'
    BY <1>1 DEF Inv, UpInv, Serving, Frame
  <1>8. QED
    BY <1>3, <1>4, <1>5, <1>6, <1>7 DEF Inv

\* The link handed out last keeps leading where it did.
LEMMA LinkStays ==
  ASSUME Inv, UNCHANGED link, asked \subseteq asked', rows \ asked \subseteq rows'
  PROVE  LinkInv'
  BY DEF Inv, LinkInv, awsCanonicalURI

\* A working request is about a known file.
LEMMA AtFacts ==
  ASSUME Inv, NEW r \in Requests, NEW at, At(r, at)
  PROVE  /\ req[r] # None /\ req[r].at = at /\ req[r] \in Request
         /\ req[r].f \in Files /\ req[r].f \in Known /\ ReqInv(r)
         /\ req[r].id \in Identity /\ req[r].expires \in Expires
         /\ FileInv(req[r].f)
  <1>1. req[r] # None /\ req[r].at = at /\ req[r] \in Request
    BY DEF At, Inv, TypeOK
  <1>2. req[r].f \in Files /\ req[r].id \in Identity /\ req[r].expires \in Expires
    BY <1>1 DEF Request
  <1>3. QED
    BY <1>1, <1>2 DEF Inv, ReqInv

--------------------------------------------------------------------------------
(***************************************************************************)
(* Steps of the handlers.                                                  *)
(***************************************************************************)

\* A step that touches neither store: a lookup, a refusal, a panic, a failed read.
LEMMA QuietKeeps ==
  ASSUME Inv, NEW r \in Requests, req[r] # None, req[r].at \notin {"insert", "delRow"} \/ faulted',
         UNCHANGED <<server, meta, rows, objects, created, asked, gone, missed>>,
         faulted' \in BOOLEAN, faulted => faulted',
         LinkInv', link' \in [f : Files, key : Keys, expiresSec : Int] \cup {None},
         \/ Answered(r)
         \/ /\ req[r].at = "get" /\ req[r].f \in rows
            /\ \/ req[r].op = "download" /\ Goto(r, "getObject")
               \/ req[r].op = "delete" /\ canAccess(req[r].id, req[r].f) /\ Goto(r, "delObject")
  PROVE  Inv'
  <1> PICK f : f = req[r].f
    OBVIOUS
  <1>1. /\ req' \in [Requests -> Request \cup {None}]
        /\ \A s \in Requests : s # r => req'[s] = req[s]
    BY AnsweredFacts, GotoFacts DEF Inv, Steps
  <1>2. req'[r] # None =>
          /\ req'[r].op = req[r].op /\ req'[r].f = f /\ req'[r].id = req[r].id /\ f \in rows
          /\ req[r].at = "get"
          /\ \/ req'[r].op = "download" /\ req'[r].at = "getObject"
             \/ req'[r].op = "delete" /\ canAccess(req[r].id, f) /\ req'[r].at = "delObject"
    BY AnsweredFacts, GotoFacts DEF Inv, Steps
  <1>3. f \in Files
    BY DEF Inv, TypeOK, Request
  <1>4. /\ Known' = Known /\ \A g : HasObject(g)' <=> HasObject(g)
        /\ \A id, g : canAccess(id, g)' <=> canAccess(id, g)
        /\ \A g : objectURL(g)' = objectURL(g)
    BY DEF Known, HasObject, canAccess, objectURL
  <1>5. TypeOK'
    <2>1. \A s \in Requests : req'[s] # None => Serving'
      BY <1>1, <1>2 DEF Inv, TypeOK, Serving, server
    <2>2. QED
      BY <1>1, <2>1 DEF Inv, TypeOK, ServerTypeOK, server
  <1>6. Exact'
    BY <1>4 DEF Inv, Exact
  <1>7. Frame(r, f)
    BY <1>1, <1>4 DEF Frame
  <1>8. FileInv(f)'
    BY <1>3, <1>4 DEF Inv, FileInv
  <1>9. (~faulted') => \/ f \in rows' <=> HasObject(f)'
                       \/ \E s \in Requests :
                             req'[s] # None /\ req'[s].f = f /\ req'[s].at \in {"insert", "delRow"}
    <2>1. AgreeInv(f)
      BY <1>3 DEF Inv
    <2>2. QED
      BY <1>1, <1>4, <2>1 DEF AgreeInv
  <1>10. \A s \in Requests : s # r => ReqInv(s)'
    BY <1>1, <1>4 DEF Inv, ReqInv
  <1>11. ReqInv(r)'
    <2>1. ReqInv(r)
      BY DEF Inv
    <2>2. QED
      BY <1>2, <1>4, <2>1 DEF ReqInv
  <1>12. QED
    BY <1>2, <1>5, <1>6, <1>7, <1>8, <1>9, <1>10, <1>11, StepKeeps

\* A request of a file at one of its writes, seen from another request of the file.
LEMMA WriterAlone ==
  ASSUME Inv, NEW r \in Requests, NEW s \in Requests, r # s, req[r] # None, req[s] # None,
         req[r].f = req[s].f, req[r].op = "upload"
  PROVE  req[s].at = "get" /\ req[s].op # "upload"
  <1>1. req[s].op # "upload" /\ req[s].at \notin Late
    BY DEF Inv, UploadAlone
  <1>2. req[s].at \in Steps
    BY DEF Inv, TypeOK, Request
  <1>3. ReqInv(s)
    BY DEF Inv
  <1>4. QED
    BY <1>1, <1>2, <1>3 DEF ReqInv, Steps, Late

\* The object is put, or the call fails and it may be there.
LEMMA PutKeeps ==
  ASSUME Inv, NEW r \in Requests, Put(r) \/ PutErrs(r)
  PROVE  Inv'
  <1> PICK f : f = req[r].f
    OBVIOUS
  <1>1. /\ req[r] # None /\ req[r].at = "put" /\ f \in Files /\ f \in Known
        /\ ReqInv(r) /\ FileInv(f) /\ Serving
    BY AtFacts DEF Put, PutErrs, At
  <1>2. /\ UNCHANGED <<server, meta, rows, link, created, asked, gone, missed>>
        /\ objects' \in {objects, objects \cup {objectURL(f)}}
        /\ faulted' \in BOOLEAN /\ (faulted => faulted')
    BY DEF Put, PutErrs, Inv, TypeOK
  <1>3. /\ req' \in [Requests -> Request \cup {None}]
        /\ \A s \in Requests : s # r => req'[s] = req[s]
        /\ \/ req'[r] = None /\ faulted'
           \/ /\ req'[r] # None /\ req'[r].at = "insert" /\ objects' = objects \cup {objectURL(f)}
              /\ req'[r].op = req[r].op /\ req'[r].id = req[r].id /\ req'[r].f = f
    BY <1>1, AnsweredFacts, GotoFacts DEF Put, PutErrs, Inv, Steps
  <1>4. /\ Known' = Known
        /\ \A id, g : canAccess(id, g)' <=> canAccess(id, g)
        /\ \A g : objectURL(g)' = objectURL(g)
    BY <1>2 DEF Known, canAccess, objectURL
  <1>5. /\ \A g : g # f => (HasObject(g)' <=> HasObject(g))
        /\ req'[r] # None => HasObject(f)'
    BY <1>1, <1>2, <1>3, URLOfFile DEF HasObject
  <1>6. req[r].op = "upload" /\ f \notin rows \cup created \cup gone
    BY <1>1 DEF ReqInv
  <1>7. TypeOK'
    <2>1. objects' \subseteq Keys
      BY <1>1, <1>2, URLOfFile DEF Inv, TypeOK
    <2>2. \A s \in Requests : req'[s] # None => Serving'
      BY <1>1, <1>2 DEF Serving, server
    <2>3. QED
      BY <1>2, <1>3, <2>1, <2>2 DEF Inv, TypeOK, ServerTypeOK, server
  <1>8. Exact'
    BY <1>1, <1>2, <1>4, URLOfFile DEF Inv, Exact
  <1>9. Frame(r, f)
    BY <1>2, <1>3, <1>5 DEF Frame
  <1>10. FileInv(f)'
    BY <1>1, <1>2, <1>4, <1>6 DEF FileInv
  <1>11. ReqInv(r)'
    BY <1>1, <1>2, <1>3, <1>4, <1>5, <1>6 DEF ReqInv
  <1>12. ASSUME NEW s \in Requests, s # r, req[s] # None, req[s].f = f PROVE ReqInv(s)'
    <2>1. req[s].at = "get" /\ req[s].op # "upload" /\ ReqInv(s)
      BY <1>1, <1>6, <1>12, WriterAlone DEF Inv
    <2>2. QED
      BY <1>2, <1>3, <1>4, <1>12, <2>1 DEF ReqInv
  <1>13. LinkInv'
    BY <1>2, LinkStays
  <1>14. QED
    BY <1>1, <1>3, <1>7, <1>8, <1>9, <1>10, <1>11, <1>12, <1>13, StepKeeps DEF Late

\* The row is inserted, or the statement fails and it may be there.
LEMMA InsertKeeps ==
  ASSUME Inv, NEW r \in Requests, Insert(r) \/ InsertErrs(r)
  PROVE  Inv'
  <1> PICK f : f = req[r].f
    OBVIOUS
  <1>1. /\ req[r] # None /\ req[r].at = "insert" /\ f \in Files /\ f \in Known
        /\ ReqInv(r) /\ FileInv(f)
    BY AtFacts DEF Insert, InsertErrs
  <1>2. /\ UNCHANGED <<server, meta, objects, link, asked, gone, missed>>
        /\ \/ rows' = rows \cup {f} /\ created' \in {created, created \cup {f}}
           \/ rows' = rows /\ created' = created /\ faulted'
        /\ faulted' \in BOOLEAN /\ (faulted => faulted')
    BY DEF Insert, InsertErrs, Inv, TypeOK
  <1>3. /\ req' \in [Requests -> Request \cup {None}] /\ req'[r] = None
        /\ \A s \in Requests : s # r => req'[s] = req[s]
    BY AnsweredFacts DEF Insert, InsertErrs, Inv
  <1>4. /\ Known' = Known /\ \A g : HasObject(g)' <=> HasObject(g)
        /\ \A id, g : canAccess(id, g)' <=> canAccess(id, g)
        /\ \A g : objectURL(g)' = objectURL(g)
    BY <1>2 DEF Known, HasObject, canAccess, objectURL
  <1>5. req[r].op = "upload" /\ f \notin rows \cup created \cup gone /\ HasObject(f)
    BY <1>1 DEF ReqInv
  <1>6. TypeOK'
    <2>1. \A s \in Requests : req'[s] # None => Serving'
      BY <1>2, <1>3 DEF Inv, TypeOK, Serving, server
    <2>2. QED
      BY <1>1, <1>2, <1>3, <2>1 DEF Inv, TypeOK, ServerTypeOK, server
  <1>7. Exact'
    BY <1>2, <1>4 DEF Inv, Exact
  <1>8. Frame(r, f)
    BY <1>2, <1>3, <1>4 DEF Frame
  <1>9. FileInv(f)'
    BY <1>1, <1>2, <1>4, <1>5 DEF FileInv
  <1>10. ReqInv(r)'
    BY <1>3 DEF ReqInv
  <1>11. ASSUME NEW s \in Requests, s # r, req[s] # None, req[s].f = f PROVE ReqInv(s)'
    <2>1. req[s].at = "get" /\ req[s].op # "upload" /\ ReqInv(s)
      BY <1>1, <1>5, <1>11, WriterAlone DEF Inv
    <2>2. QED
      BY <1>2, <1>3, <1>4, <1>11, <2>1 DEF ReqInv
  <1>12. LinkInv'
    BY <1>2, LinkStays
  <1>13. (~faulted') => (f \in rows' <=> HasObject(f)')
    BY <1>2, <1>4, <1>5
  <1>14. QED
    BY <1>1, <1>3, <1>6, <1>7, <1>8, <1>9, <1>10, <1>11, <1>12, <1>13, StepKeeps

\* A download finds its object, or misses it: then the owner asked for deletion.
LEMMA GetObjectKeeps ==
  ASSUME Inv, NEW r \in Requests, GetObject(r)
  PROVE  Inv'
  <1> PICK f : f = req[r].f
    OBVIOUS
  <1>1. /\ req[r] # None /\ req[r].at = "getObject" /\ f \in Files /\ f \in Known
        /\ ReqInv(r) /\ FileInv(f)
    BY AtFacts DEF GetObject
  <1>2. /\ UNCHANGED <<server, meta, rows, objects, link, created, asked, gone, faulted>>
        /\ missed' = IF objectURL(f) \in objects THEN missed ELSE missed \cup {f}
    BY DEF GetObject
  <1>3. /\ req' \in [Requests -> Request \cup {None}] /\ req'[r] = None
        /\ \A s \in Requests : s # r => req'[s] = req[s]
    BY AnsweredFacts DEF GetObject, Inv
  <1>4. /\ Known' = Known /\ \A g : HasObject(g)' <=> HasObject(g)
        /\ \A id, g : canAccess(id, g)' <=> canAccess(id, g)
        /\ \A g : objectURL(g)' = objectURL(g)
    BY <1>2 DEF Known, HasObject, canAccess, objectURL
  <1>5. objectURL(f) \notin objects => f \in asked
    BY <1>1 DEF ReqInv, FileInv, HasObject, Inv, Exact
  <1>6. TypeOK'
    <2>1. \A s \in Requests : req'[s] # None => Serving'
      BY <1>2, <1>3 DEF Inv, TypeOK, Serving, server
    <2>2. QED
      BY <1>1, <1>2, <1>3, <2>1 DEF Inv, TypeOK, ServerTypeOK, server
  <1>7. Exact'
    BY <1>2, <1>4 DEF Inv, Exact
  <1>8. Frame(r, f)
    BY <1>2, <1>3, <1>4 DEF Frame
  <1>9. FileInv(f)'
    BY <1>1, <1>2, <1>4, <1>5 DEF FileInv
  <1>10. ReqInv(r)'
    BY <1>3 DEF ReqInv
  <1>11. \A s \in Requests : s # r => ReqInv(s)'
    BY <1>2, <1>3, <1>4 DEF Inv, ReqInv
  <1>12. LinkInv'
    BY <1>2, LinkStays
  <1>13. (~faulted') => \/ f \in rows' <=> HasObject(f)'
                        \/ \E s \in Requests :
                              req'[s] # None /\ req'[s].f = f /\ req'[s].at \in {"insert", "delRow"}
    <2>1. AgreeInv(f)
      BY <1>1 DEF Inv
    <2>2. QED
      BY <1>1, <1>2, <1>3, <1>4, <2>1 DEF AgreeInv
  <1>14. QED
    BY <1>1, <1>3, <1>6, <1>7, <1>8, <1>9, <1>10, <1>11, <1>12, <1>13, StepKeeps

\* Past its check a delete was asked for by the owner, and no upload is at its file.
LEMMA DeleterFacts ==
  ASSUME Inv, NEW r \in Requests, req[r] # None, req[r].at \in {"delObject", "delRow"}
  PROVE  /\ req[r].op = "delete" /\ canAccess(req[r].id, req[r].f) /\ req[r].f \in asked
         /\ \A s \in Requests : (s # r /\ req[s] # None /\ req[s].f = req[r].f) =>
               req[s].op # "upload" /\ req[s].at \notin {"put", "insert"}
  <1>1. req[r].op = "delete" /\ canAccess(req[r].id, req[r].f) /\ req[r].f \in asked
    BY DEF Inv, ReqInv
  <1>2. ASSUME NEW s \in Requests, s # r, req[s] # None, req[s].f = req[r].f
        PROVE  req[s].op # "upload" /\ req[s].at \notin {"put", "insert"}
    <2>1. req[s].op # "upload"
      BY <1>2 DEF Inv, UploadAlone, Late
    <2>2. QED
      BY <1>2, <2>1 DEF Inv, ReqInv
  <1>3. QED
    BY <1>1, <1>2

\* The object is deleted, or the call fails and it may be gone.
LEMMA DeleteObjectKeeps ==
  ASSUME Inv, NEW r \in Requests, DeleteObject(r) \/ (At(r, "delObject") /\ CallErrs(r))
  PROVE  Inv'
  <1> PICK f : f = req[r].f
    OBVIOUS
  <1>1. /\ req[r] # None /\ req[r].at = "delObject" /\ f \in Files /\ f \in Known
        /\ ReqInv(r) /\ FileInv(f) /\ Serving
    BY AtFacts DEF DeleteObject, At
  <1>2. /\ UNCHANGED <<server, meta, rows, link, created, asked, gone, missed>>
        /\ objects' \in {objects, objects \ {objectURL(f)}}
        /\ faulted' \in BOOLEAN /\ (faulted => faulted')
    BY <1>1 DEF DeleteObject, CallErrs, At, Inv, TypeOK
  <1>3. /\ req' \in [Requests -> Request \cup {None}]
        /\ \A s \in Requests : s # r => req'[s] = req[s]
        /\ \/ req'[r] = None /\ faulted'
           \/ /\ req'[r] # None /\ req'[r].at = "delRow" /\ objects' = objects \ {objectURL(f)}
              /\ req'[r].op = req[r].op /\ req'[r].id = req[r].id /\ req'[r].f = f
    BY <1>1, AnsweredFacts, GotoFacts DEF DeleteObject, CallErrs, Inv, Steps
  <1>4. /\ Known' = Known
        /\ \A id, g : canAccess(id, g)' <=> canAccess(id, g)
        /\ \A g : objectURL(g)' = objectURL(g)
    BY <1>2 DEF Known, canAccess, objectURL
  <1>5. /\ \A g : g # f => (HasObject(g)' <=> HasObject(g))
        /\ HasObject(f)' => HasObject(f)
        /\ objects' = objects \ {objectURL(f)} => ~HasObject(f)'
    BY <1>1, <1>2, URLOfFile DEF HasObject, Inv, Exact
  <1>6. /\ req[r].op = "delete" /\ canAccess(req[r].id, f) /\ f \in asked
        /\ \A s \in Requests : (s # r /\ req[s] # None /\ req[s].f = f) =>
              req[s].op # "upload" /\ req[s].at \notin {"put", "insert"}
    BY <1>1, DeleterFacts
  <1>7. TypeOK'
    <2>1. \A s \in Requests : req'[s] # None => Serving'
      BY <1>1, <1>2 DEF Serving, server
    <2>2. QED
      BY <1>2, <1>3, <2>1 DEF Inv, TypeOK, ServerTypeOK, server
  <1>8. Exact'
    BY <1>2, <1>4 DEF Inv, Exact
  <1>9. Frame(r, f)
    BY <1>2, <1>3, <1>5 DEF Frame
  <1>10. FileInv(f)'
    BY <1>1, <1>2, <1>4, <1>5, <1>6 DEF FileInv
  <1>11. ReqInv(r)'
    BY <1>1, <1>2, <1>3, <1>4, <1>5, <1>6 DEF ReqInv
  <1>12. ASSUME NEW s \in Requests, s # r, req[s] # None, req[s].f = f PROVE ReqInv(s)'
    <2>1. ReqInv(s)
      BY DEF Inv
    <2>2. QED
      BY <1>2, <1>3, <1>4, <1>5, <1>6, <1>12, <2>1 DEF ReqInv
  <1>13. LinkInv'
    BY <1>2, LinkStays
  <1>14. QED
    BY <1>1, <1>3, <1>7, <1>8, <1>9, <1>10, <1>11, <1>12, <1>13, StepKeeps DEF Late

\* The row is deleted, or another request was first, or the statement fails.
LEMMA DeleteRowKeeps ==
  ASSUME Inv, NEW r \in Requests, DeleteByID(r) \/ (At(r, "delRow") /\ CallErrs(r))
  PROVE  Inv'
  <1> PICK f : f = req[r].f
    OBVIOUS
  <1>1. /\ req[r] # None /\ req[r].at = "delRow" /\ f \in Files /\ f \in Known
        /\ ReqInv(r) /\ FileInv(f)
    BY AtFacts DEF DeleteByID
  <1>2. /\ req[r].op = "delete" /\ canAccess(req[r].id, f) /\ f \in asked
        /\ \A s \in Requests : (s # r /\ req[s] # None /\ req[s].f = f) =>
              req[s].op # "upload" /\ req[s].at \notin {"put", "insert"}
    BY <1>1, DeleterFacts
  <1>3. /\ UNCHANGED <<server, meta, objects, link, created, asked, missed>>
        /\ faulted' \in BOOLEAN /\ (faulted => faulted')
        /\ \/ rows' = rows \ {f} /\ gone' \in {gone, gone \cup {f}}
           \/ rows' = rows /\ gone' = gone /\ faulted'
    BY <1>1, <1>2 DEF DeleteByID, CallErrs, At, Inv, TypeOK
  <1>4. /\ req' \in [Requests -> Request \cup {None}] /\ req'[r] = None
        /\ \A s \in Requests : s # r => req'[s] = req[s]
    BY AnsweredFacts DEF DeleteByID, CallErrs, Inv
  <1>5. /\ Known' = Known /\ \A g : HasObject(g)' <=> HasObject(g)
        /\ \A id, g : canAccess(id, g)' <=> canAccess(id, g)
        /\ \A g : objectURL(g)' = objectURL(g)
    BY <1>3 DEF Known, HasObject, canAccess, objectURL
  <1>6. ~HasObject(f)
    BY <1>1 DEF ReqInv
  <1>7. TypeOK'
    <2>1. \A s \in Requests : req'[s] # None => Serving'
      BY <1>3, <1>4 DEF Inv, TypeOK, Serving, server
    <2>2. QED
      BY <1>1, <1>3, <1>4, <2>1 DEF Inv, TypeOK, ServerTypeOK, server
  <1>8. Exact'
    BY <1>3, <1>5 DEF Inv, Exact
  <1>9. Frame(r, f)
    BY <1>3, <1>4, <1>5 DEF Frame
  <1>10. FileInv(f)'
    BY <1>1, <1>2, <1>3, <1>5, <1>6 DEF FileInv
  <1>11. ReqInv(r)'
    BY <1>4 DEF ReqInv
  <1>12. ASSUME NEW s \in Requests, s # r, req[s] # None, req[s].f = f PROVE ReqInv(s)'
    <2>1. ReqInv(s)
      BY DEF Inv
    <2>2. QED
      BY <1>2, <1>3, <1>4, <1>5, <1>12, <2>1 DEF ReqInv
  <1>13. LinkInv'
    BY <1>2, <1>3, LinkStays
  <1>14. (~faulted') => (f \in rows' <=> HasObject(f)')
    BY <1>3, <1>5, <1>6
  <1>15. QED
    BY <1>1, <1>4, <1>7, <1>8, <1>9, <1>10, <1>11, <1>12, <1>13, <1>14, StepKeeps

\* GetByID passes the check: the answer, the link or the next call.
LEMMA GetByIDKeeps ==
  ASSUME Inv, NEW r \in Requests, GetByID(r)
  PROVE  Inv'
  <1> DEFINE q == req[r]
  <1>1. /\ q # None /\ q.at = "get" /\ q.f \in Files /\ q.expires \in Expires
        /\ q.f \in rows /\ canAccess(q.id, q.f)
        /\ UNCHANGED <<server, meta, rows, objects, created, asked, gone, missed, faulted>>
    BY AtFacts DEF GetByID
  <1>2. LinkInv' /\ link' \in [f : Files, key : Keys, expiresSec : Int] \cup {None}
    <2>1. CASE UNCHANGED link
      BY <1>1, <2>1, LinkStays DEF Inv, TypeOK
    <2>2. CASE link' = PresignGetURL(q.f, Expiry(q.expires))
      <3>1. link'.f = q.f /\ link'.key = <<q.f, "asNamed">>
            /\ link' = [f |-> q.f, key |-> <<q.f, "asNamed">>, expiresSec |-> link'.expiresSec]
        BY <2>2 DEF PresignGetURL, awsCanonicalURI
      <3>2. link'.expiresSec \in 0..(MaxExpiry \div Second)
        BY <1>1, <2>2, LinkTime
      <3>3. link'.expiresSec \in Int
        BY <3>2, FileAssumption
      <3>4. QED
        BY <1>1, <3>1, <3>2, <3>3 DEF LinkInv, awsCanonicalURI, Keys
    <2>3. QED
      BY <2>1, <2>2 DEF GetByID
  <1>3. \/ Answered(r)
        \/ q.op = "download" /\ Goto(r, "getObject")
        \/ q.op = "delete" /\ Goto(r, "delObject")
    BY DEF GetByID
  <1>4. QED
    BY <1>1, <1>2, <1>3, QuietKeeps DEF Inv, TypeOK

\* Refusals, panics and failed reads.
LEMMA RefusalsKeep ==
  ASSUME Inv, NEW r \in Requests,
         \/ PutRefused(r) \/ GetDenied(r) \/ NilStorePanics(r)
         \/ (At(r, "get") \/ At(r, "getObject")) /\ CallErrs(r)
  PROVE  Inv'
  <1>1. /\ req[r] # None /\ Serving /\ Answered(r)
        /\ UNCHANGED <<server, meta, rows, objects, link, created, asked, gone, missed>>
        /\ faulted' \in BOOLEAN /\ (faulted => faulted')
    BY DEF PutRefused, GetDenied, NilStorePanics, CallErrs, At, Inv, TypeOK
  <1>2. req[r].at \notin {"insert", "delRow"} \/ faulted'
    <2>1. CASE NilStorePanics(r)
      BY <2>1, <1>1 DEF NilStorePanics, Inv, UpInv
    <2>2. CASE ~NilStorePanics(r)
      BY <2>2 DEF PutRefused, GetDenied, CallErrs, At
    <2>3. QED
      BY <2>1, <2>2
  <1>3. LinkInv' /\ link' \in [f : Files, key : Keys, expiresSec : Int] \cup {None}
    BY <1>1, LinkStays DEF Inv, TypeOK
  <1>4. QED
    BY <1>1, <1>2, <1>3, QuietKeeps

\* Every step of every handler.
LEMMA HandleKeeps ==
  ASSUME Inv, NEW r \in Requests, Handle(r)
  PROVE  Inv'
  <1>1. CallErrs(r) => At(r, "get") \/ At(r, "getObject") \/ At(r, "delObject") \/ At(r, "delRow")
    BY DEF CallErrs
  <1>2. QED
    BY <1>1, PutKeeps, InsertKeeps, GetObjectKeeps, DeleteObjectKeeps, DeleteRowKeeps, GetByIDKeeps,
       RefusalsKeep DEF Handle

--------------------------------------------------------------------------------
(***************************************************************************)
(* New requests and the process.                                           *)
(***************************************************************************)

\* An upload draws an id nobody has seen.
LEMMA UploadKeeps ==
  ASSUME Inv, NEW r \in Requests, NEW id \in Identity, NEW f \in Files, NEW name \in Names,
         Upload(r, id, f, name)
  PROVE  Inv'
  <1>1. /\ meta[f] = None /\ meta' = [meta EXCEPT ![f] = [owner |-> id, name |-> name]]
        /\ UNCHANGED <<server, rows, objects, link, created, asked, gone, missed, faulted>>
    BY DEF Upload
  <1>2. /\ req' \in [Requests -> Request \cup {None}] /\ req[r] = None /\ Serving
        /\ req'[r] # None /\ req'[r].op = "upload" /\ req'[r].f = f /\ req'[r].at = "put"
        /\ \A s \in Requests : s # r => req'[s] = req[s]
    <2>1. "upload" \in Op /\ "put" \in Steps /\ 0 \in Expires /\ Accept(r, "upload", id, f, 0, "put")
      BY FileAssumption DEF Op, Steps, Upload
    <2>2. /\ req' \in [Requests -> Request \cup {None}] /\ req[r] = None /\ Serving
          /\ req'[r] = [op |-> "upload", id |-> id, f |-> f, expires |-> 0, at |-> "put"]
          /\ req'[r] # None
          /\ \A s \in Requests : s # r => req'[s] = req[s]
      BY <2>1, AcceptFacts, Zenon DEF Inv
    <2>3. QED
      BY <2>2
  <1>3. meta' \in [Files -> FileMeta \cup {None}] /\ meta'[f] # None
        /\ \A g \in Files : g # f => meta'[g] = meta[g]
    <2>1. [owner |-> id, name |-> name] \in FileMeta
      BY DEF FileMeta
    <2>2. QED
      BY <1>1, <2>1, NoneAssumption DEF Inv, TypeOK
  <1>4. /\ f \notin Known /\ Known' = Known \cup {f}
        /\ \A g \in Known : objectURL(g)' = objectURL(g)
        /\ \A i : \A g \in Known : canAccess(i, g)' <=> canAccess(i, g)
        /\ \A g : HasObject(g)' <=> HasObject(g)
    BY <1>1, <1>3 DEF Known, objectURL, canAccess, HasObject
  <1>5. f \notin rows \cup created \cup asked \cup gone \cup missed /\ ~HasObject(f)
    BY <1>4 DEF Inv, FileInv, Exact, HasObject
  <1>6. TypeOK'
    <2>1. \A s \in Requests : req'[s] # None => Serving'
      BY <1>1, <1>2 DEF Serving, server
    <2>2. QED
      BY <1>1, <1>2, <1>3, <2>1 DEF Inv, TypeOK, ServerTypeOK, server
  <1>7. Exact'
    BY <1>1, <1>4 DEF Inv, Exact
  <1>8. \A s \in Requests : (s # r /\ req[s] # None) => req[s].f \in Known /\ req[s].f # f
    BY <1>4 DEF Inv, ReqInv
  <1>9. \A s \in Requests : ReqInv(s)'
    <2>1. ReqInv(r)'
      BY <1>1, <1>2, <1>4, <1>5 DEF ReqInv
    <2>2. ASSUME NEW s \in Requests, s # r PROVE ReqInv(s)'
      <3>1. ReqInv(s) /\ req'[s] = req[s]
        BY <1>2, <2>2 DEF Inv
      <3>2. QED
        BY <1>1, <1>4, <1>8, <2>2, <3>1 DEF ReqInv
    <2>3. QED
      BY <2>1, <2>2
  <1>10. UploadAlone'
    BY <1>2, <1>8 DEF Inv, UploadAlone, Late
  <1>11. \A g \in Files : FileInv(g)'
    <2> SUFFICES ASSUME NEW g \in Files PROVE FileInv(g)'
      OBVIOUS
    <2>1. FileInv(g)
      BY DEF Inv
    <2>2. QED
      BY <1>1, <1>4, <2>1 DEF FileInv
  <1>12. \A g \in Files : AgreeInv(g)'
    <2> SUFFICES ASSUME NEW g \in Files PROVE AgreeInv(g)'
      OBVIOUS
    <2>1. AgreeInv(g)
      BY DEF Inv
    <2>2. QED
      BY <1>1, <1>2, <1>4, <2>1 DEF AgreeInv
  <1>13. LinkInv' /\ UpInv'
    BY <1>1, LinkStays DEF Inv, UpInv, Serving, server
  <1>14. QED
    BY <1>6, <1>7, <1>9, <1>10, <1>11, <1>12, <1>13 DEF Inv

\* A request for a file begins; a delete that its owner sends is asked for.
LEMMA AccessKeeps ==
  ASSUME Inv, NEW r \in Requests, NEW op \in Op \ {"upload"}, NEW id \in Identity, NEW f \in Files,
         NEW expires \in Expires, Access(r, op, id, f, expires)
  PROVE  Inv'
  <1>1. /\ f \in Known /\ asked' \in {asked, asked \cup {f}}
        /\ (op = "delete" /\ canAccess(id, f)) => f \in asked'
        /\ UNCHANGED <<server, meta, rows, objects, link, created, gone, missed, faulted>>
    BY AccessIsOwners DEF Access, Known
  <1>2. /\ req' \in [Requests -> Request \cup {None}] /\ req[r] = None /\ Serving
        /\ req'[r] # None /\ req'[r].op = op /\ req'[r].id = id /\ req'[r].f = f /\ req'[r].at = "get"
        /\ \A s \in Requests : s # r => req'[s] = req[s]
    <2>1. "get" \in Steps /\ Accept(r, op, id, f, expires, "get")
      BY DEF Steps, Access
    <2>2. /\ req' \in [Requests -> Request \cup {None}] /\ req[r] = None /\ Serving
          /\ req'[r] = [op |-> op, id |-> id, f |-> f, expires |-> expires, at |-> "get"]
          /\ req'[r] # None
          /\ \A s \in Requests : s # r => req'[s] = req[s]
      BY <2>1, AcceptFacts, Zenon DEF Inv
    <2>3. QED
      BY <2>2
  <1>3. /\ Known' = Known /\ \A g : HasObject(g)' <=> HasObject(g)
        /\ \A i, g : canAccess(i, g)' <=> canAccess(i, g)
        /\ \A g : objectURL(g)' = objectURL(g)
    BY <1>1 DEF Known, HasObject, canAccess, objectURL
  <1>4. TypeOK'
    <2>1. \A s \in Requests : req'[s] # None => Serving'
      BY <1>1, <1>2 DEF Serving, server
    <2>2. QED
      BY <1>1, <1>2, <2>1 DEF Inv, TypeOK, ServerTypeOK, server
  <1>5. Exact'
    BY <1>1, <1>3 DEF Inv, Exact
  <1>6. \A s \in Requests : ReqInv(s)'
    <2>1. ReqInv(r)'
      BY <1>1, <1>2, <1>3 DEF ReqInv
    <2>2. ASSUME NEW s \in Requests, s # r PROVE ReqInv(s)'
      <3>1. ReqInv(s) /\ req'[s] = req[s]
        BY <1>2, <2>2 DEF Inv
      <3>2. QED
        BY <1>1, <1>3, <3>1 DEF ReqInv
    <2>3. QED
      BY <2>1, <2>2
  <1>7. UploadAlone'
    BY <1>2 DEF Inv, UploadAlone, Late
  <1>8. \A g \in Files : FileInv(g)'
    <2> SUFFICES ASSUME NEW g \in Files PROVE FileInv(g)'
      OBVIOUS
    <2>1. FileInv(g)
      BY DEF Inv
    <2>2. QED
      BY <1>1, <1>3, <2>1 DEF FileInv
  <1>9. \A g \in Files : AgreeInv(g)'
    <2> SUFFICES ASSUME NEW g \in Files PROVE AgreeInv(g)'
      OBVIOUS
    <2>1. AgreeInv(g)
      BY DEF Inv
    <2>2. QED
      BY <1>1, <1>2, <1>3, <2>1 DEF AgreeInv
  <1>10. LinkInv' /\ UpInv'
    BY <1>1, LinkStays DEF Inv, UpInv, Serving, server
  <1>11. QED
    BY <1>4, <1>5, <1>6, <1>7, <1>8, <1>9, <1>10 DEF Inv

\* A step of the process: requests go on, or all end, with a fault if one was in flight.
LEMMA ProcessKeeps ==
  ASSUME Inv, StartService \/ ServiceStops \/ ServiceDies
  PROVE  Inv'
  <1>1. /\ UNCHANGED <<meta, rows, objects, link, created, asked, gone, missed>>
        /\ faulted' \in BOOLEAN /\ (faulted => faulted') /\ ServerTypeOK'
        /\ \/ req' = req /\ (Serving => Serving')
           \/ req' = [r \in Requests |-> None] /\ (InFlight = {} \/ faulted')
        /\ UpInv'
    <2>1. CASE StartService
      <3>1. PICK postgres \in Connect, client \in NewClient : Start(postgres, client)
        BY <2>1 DEF StartService
      <3>2. phase' = "up" /\ db' \in BOOLEAN /\ s3' \in BOOLEAN
        BY <3>1 DEF Start
      <3>3. faulted' = (faulted \/ ~db') /\ UNCHANGED files
        BY <2>1 DEF StartService
      <3>4. QED
        BY <3>2, <3>3 DEF files, ServerTypeOK, Serving, UpInv, Inv, TypeOK
    <2>2. CASE ServiceStops
      <3>1. /\ phase' \in {"down", "flushing", "draining"} /\ db' = db /\ s3' = s3
            /\ phase # "down" /\ (phase' = "down" => InFlight = {})
        BY <2>2 DEF ServiceStops, Signal, Flushed, Drained
      <3>2. QED
        BY <2>2, <3>1 DEF ServiceStops, ServerTypeOK, Serving, UpInv, Inv, TypeOK
    <2>3. CASE ServiceDies
      BY <2>3 DEF ServiceDies, Dies, ServerTypeOK, Serving, UpInv, Inv, TypeOK
    <2>4. QED
      BY <2>1, <2>2, <2>3
  <1>2. /\ req' \in [Requests -> Request \cup {None}]
        /\ \A r \in Requests : req'[r] # None => req'[r] = req[r] /\ Serving'
    BY <1>1 DEF Inv, TypeOK
  <1>3. /\ Known' = Known /\ \A g : HasObject(g)' <=> HasObject(g)
        /\ \A i, g : canAccess(i, g)' <=> canAccess(i, g)
        /\ \A g : objectURL(g)' = objectURL(g)
    BY <1>1 DEF Known, HasObject, canAccess, objectURL
  <1>4. TypeOK'
    BY <1>1, <1>2 DEF Inv, TypeOK
  <1>5. Exact'
    BY <1>1, <1>3 DEF Inv, Exact
  <1>6. \A s \in Requests : ReqInv(s)'
    <2> SUFFICES ASSUME NEW s \in Requests, req'[s] # None PROVE ReqInv(s)'
      BY DEF ReqInv
    <2>1. ReqInv(s) /\ req'[s] = req[s]
      BY <1>2 DEF Inv
    <2>2. QED
      BY <1>1, <1>3, <2>1 DEF ReqInv
  <1>7. UploadAlone'
    BY <1>2 DEF Inv, UploadAlone, Late
  <1>8. \A g \in Files : FileInv(g)'
    <2> SUFFICES ASSUME NEW g \in Files PROVE FileInv(g)'
      OBVIOUS
    <2>1. FileInv(g)
      BY DEF Inv
    <2>2. QED
      BY <1>1, <1>3, <2>1 DEF FileInv
  <1>9. \A g \in Files : AgreeInv(g)'
    <2> SUFFICES ASSUME NEW g \in Files PROVE AgreeInv(g)'
      OBVIOUS
    <2>1. AgreeInv(g)
      BY DEF Inv
    <2>2. CASE req' = req
      BY <1>1, <1>3, <2>1, <2>2 DEF AgreeInv
    <2>3. CASE InFlight = {} \/ faulted'
      BY <1>1, <1>3, <2>1, <2>3 DEF AgreeInv, InFlight
    <2>4. QED
      BY <1>1, <2>2, <2>3
  <1>10. LinkInv'
    BY <1>1, LinkStays
  <1>11. QED
    BY <1>1, <1>4, <1>5, <1>6, <1>7, <1>8, <1>9, <1>10 DEF Inv

--------------------------------------------------------------------------------
(***************************************************************************)
(* The theorems.                                                           *)
(***************************************************************************)

\* Every step keeps the invariant.
LEMMA InvStep == Inv /\ [Next]_vars => Inv'
<1> SUFFICES ASSUME Inv, [Next]_vars PROVE Inv'
  OBVIOUS
<1>1. CASE StartService \/ ServiceStops \/ ServiceDies
  BY <1>1, ProcessKeeps
<1>2. ASSUME NEW r \in Requests, NEW id \in Identity, NEW f \in Files,
             \/ \E name \in Names : Upload(r, id, f, name)
             \/ Meta(r, id, f) \/ Download(r, id, f) \/ Delete(r, id, f)
             \/ \E expires \in Expires : URL(r, id, f, expires)
      PROVE  Inv'
  <2>1. CASE \E name \in Names : Upload(r, id, f, name)
    BY <2>1, UploadKeeps
  <2>2. CASE ~ \E name \in Names : Upload(r, id, f, name)
    <3>1. PICK op \in Op \ {"upload"}, expires \in Expires : Access(r, op, id, f, expires)
      BY <1>2, <2>2, FileAssumption DEF Meta, Download, Delete, URL, Op
    <3>2. QED
      BY <3>1, AccessKeeps
  <2>3. QED
    BY <2>1, <2>2
<1>3. ASSUME NEW r \in Requests, Handle(r) PROVE Inv'
  BY <1>3, HandleKeeps
<1>4. CASE UNCHANGED vars
  BY <1>4 DEF vars, server, files, Inv, TypeOK, ServerTypeOK, Serving, Exact, Known, objectURL, ReqInv,
     HasObject, canAccess, UploadAlone, FileInv, AgreeInv, LinkInv, awsCanonicalURI, UpInv
<1>5. QED
  BY <1>1, <1>2, <1>3, <1>4 DEF Next

\* The inductive invariant holds always.
LEMMA Invariance == Spec => []Inv
<1>1. Init => Inv
  BY DEF Init, ServerInit, Inv, TypeOK, ServerTypeOK, Serving, Exact, ReqInv, HasObject,
     UploadAlone, FileInv, AgreeInv, LinkInv, UpInv
<1>2. QED
  BY <1>1, InvStep, PTL DEF Spec

\* The variables keep their types; no request outlives the process that serves it.
THEOREM TypeCorrect == Spec => []TypeOK
<1>1. Inv => TypeOK
  BY DEF Inv
<1>2. QED
  BY <1>1, Invariance, PTL

\* Failed calls, panics, restarts and other users' requests never take a file's row
\* or object before its owner asks for deletion.
THEOREM Kept == Spec => []KeptUntilAsked
<1>1. Inv => KeptUntilAsked
  <2> SUFFICES ASSUME Inv, NEW f \in (rows \cup created) \ asked
               PROVE  /\ f \in ListByOwner(meta[f].owner)
                      /\ objectURL(f) \in objects /\ f \notin missed
    BY DEF KeptUntilAsked
  <2>1. f \in Files /\ FileInv(f)
    BY DEF Inv, TypeOK
  <2>2. f \in rows /\ HasObject(f) /\ f \notin missed
    BY <2>1 DEF FileInv
  <2>3. objectURL(f) \in objects
    BY <2>2 DEF Inv, Exact, HasObject
  <2>4. QED
    BY <2>2, <2>3 DEF ListByOwner, canAccess
<1>2. QED
  BY <1>1, Invariance, PTL

\* A delete that was answered 204 left neither row nor object, for any name and any
\* number of deletes at once.
THEOREM Deleted == Spec => []DeletedIsGone
<1>1. Inv => DeletedIsGone
  BY DEF Inv, TypeOK, FileInv, HasObject, DeletedIsGone
<1>2. QED
  BY <1>1, Invariance, PTL

\* An object that had its row never loses it while it exists.
THEOREM NoObjectLost == Spec => []NoLostObject
<1>1. Inv => NoLostObject
  BY DEF Inv, TypeOK, FileInv, HasObject, NoLostObject
<1>2. QED
  BY <1>1, Invariance, PTL

\* Table and bucket disagree only while a request works on the file, unless a call
\* failed or the process died on one.
THEOREM StoresAgree == Spec => []AgreeUnlessFaulted
<1>1. Inv => AgreeUnlessFaulted
  BY DEF Inv, AgreeInv, HasObject, AgreeUnlessFaulted, InFlight
<1>2. QED
  BY <1>1, Invariance, PTL

\* A link's time never exceeds the maximum, whatever overflows, and its object stays
\* until the owner asks for deletion.
THEOREM LinksAreGood == Spec => []LinksHold
<1>1. Inv => LinksHold
  <2> SUFFICES ASSUME Inv, link # None PROVE LinksHold
    BY DEF LinksHold
  <2>1. /\ link.f \in rows \cup asked /\ link.key = <<link.f, "asNamed">>
        /\ link.expiresSec \in 0..(MaxExpiry \div Second)
    BY DEF Inv, LinkInv, awsCanonicalURI
  <2>2. ASSUME meta[link.f].name = "plain", link.f \notin asked PROVE link.key \in objects
    <3>1. FileInv(link.f) /\ link.f \in rows
      BY <2>1, <2>2 DEF Inv, TypeOK
    <3>2. objectURL(link.f) \in objects
      BY <2>2, <3>1 DEF FileInv, HasObject, Inv, Exact
    <3>3. QED
      BY <2>1, <2>2, <3>2 DEF objectURL
  <2>3. QED
    BY <2>1, <2>2 DEF LinksHold
<1>2. QED
  BY <1>1, Invariance, PTL

\* A delete that got as far as S3 ends with the file unlisted, or one of its own calls
\* failed or the process went down.
THEOREM DeletesSettle == Spec => DeleteSettles
<1>1. Inv /\ [Next]_vars =>
        [\A r \in Requests :
           (req[r] # None /\ req[r].at \in {"delObject", "delRow"} /\ req'[r] = None)
              => req[r].f \notin rows' \/ CallErrs(r) \/ phase' = "down"]_vars
  <2> SUFFICES ASSUME Inv, Next, NEW r \in Requests, req[r] # None,
                      req[r].at \in {"delObject", "delRow"}, req'[r] = None
               PROVE  req[r].f \notin rows' \/ CallErrs(r) \/ phase' = "down"
    BY DEF vars, files
  <2>1. CASE StartService \/ ServiceStops \/ ServiceDies
    BY <2>1 DEF StartService, ServiceStops, ServiceDies, Dies, files
  <2>2. ASSUME NEW s \in Requests, NEW id \in Identity, NEW f \in Files,
               \/ \E name \in Names : Upload(s, id, f, name)
               \/ Meta(s, id, f) \/ Download(s, id, f) \/ Delete(s, id, f)
               \/ \E expires \in Expires : URL(s, id, f, expires)
        PROVE  FALSE
    <3>1. \E op, expires, at : Accept(s, op, id, f, expires, at)
      BY <2>2 DEF Upload, Meta, Download, Delete, URL, Access
    <3>2. req[s] = None /\ \A t \in Requests : t # s => req'[t] = req[t]
      BY <3>1 DEF Accept, Inv, TypeOK
    <3>3. QED
      BY <3>2
  <2>3. ASSUME NEW s \in Requests, Handle(s)
        PROVE  req[r].f \notin rows' \/ CallErrs(r)
    <3>1. \E at \in Steps : req[s] # None /\ (Goto(s, at) \/ Answered(s))
      BY <2>3 DEF Handle, Put, PutRefused, PutErrs, Insert, InsertErrs, GetByID, GetDenied, CallErrs,
         NilStorePanics, GetObject, DeleteObject, DeleteByID, At, Steps
    <3>2. s = r /\ \A at \in Steps : ~Goto(s, at)
      BY <3>1, GotoFacts, AnsweredFacts DEF Inv
    <3>3. CASE DeleteByID(r)
      <4>1. canAccess(req[r].id, req[r].f)
        BY DeleterFacts
      <4>2. QED
        BY <3>3, <4>1 DEF DeleteByID
    <3>4. CASE ~DeleteByID(r)
      BY <2>3, <3>2, <3>4 DEF Handle, Put, PutRefused, PutErrs, Insert, InsertErrs, GetByID, GetDenied,
         NilStorePanics, GetObject, DeleteObject, At, Steps
    <3>5. QED
      BY <3>3, <3>4
  <2>4. QED
    BY <2>1, <2>2, <2>3 DEF Next
<1>2. QED
  BY <1>1, Invariance, PTL DEF Spec, DeleteSettles

================================================================================
