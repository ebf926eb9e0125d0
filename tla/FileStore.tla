-------------------------------- MODULE FileStore --------------------------------
(***************************************************************************)
(* file-service: uploads, downloads, presigned links and deletes over two  *)
(* stores that share no transaction, the table files and an S3 bucket,     *)
(* inside a process that starts, drains and dies (HttpServer).             *)
(*                                                                         *)
(* S3 is external: a PUT, GET or DELETE addresses the key its URL decodes  *)
(* to, deleting a missing object succeeds, and a call may take effect and  *)
(* still be reported as failed.  A call that takes effect late has the     *)
(* same effect: a key carries a random file id and is put once.            *)
(***************************************************************************)
EXTENDS Integers, FiniteSets, HttpServer

CONSTANTS
  Requests,     \* handler goroutines; one serves request after request
  Files,        \* ids newFileID may draw
  Identity,     \* identities the gateway forwards: user and tenant
  NoTenant,     \* the empty tenant id
  Expires,      \* values of the query parameter expires, 0 when absent
  Second,       \* time.Second, in units of time.Duration
  Width,        \* bits of time.Duration (64)
  DefaultExpiry,\* FILE_PRESIGN_SECONDS, as a duration
  MaxExpiry,    \* 7 * 24 * time.Hour
  None

VARIABLES
  meta,     \* meta[f]: owner and name of the upload that drew f
  rows,     \* table files (what a row says is meta)
  objects,  \* the bucket: pairs of a file id and the name under it
  req,      \* req[r]: the request r serves
  link,     \* the presigned link handed out last
  created,  \* history: files whose upload was answered 201
  asked,    \* history: files their owner asked to delete
  gone,     \* history: files whose delete was answered 204
  missed,   \* history: files whose download found no object
  faulted   \* history: a call failed, the process died or started without Postgres

files == <<meta, rows, objects, req, link, created, asked, gone, missed>>
vars == <<server, files, faulted>>

ASSUME FileAssumption ==
  /\ Expires \subseteq Nat /\ 0 \in Expires
  /\ Second \in Nat \ {0} /\ Width \in Nat \ {0}
  /\ MaxExpiry \in Nat \ {0} /\ MaxExpiry < 2 ^ (Width - 1)
  /\ DefaultExpiry \in Int

\* Follows from the type of Width, by arithmetic of powers that the provers lack.
ASSUME PowersAssumption == 2 ^ (Width - 1) \in Nat /\ 2 ^ Width \in Nat \ {0}

\* What a name means as a part of a URL: itself; something else, for '#' or '?' cut
\* it short or a %XX in it is decoded; nothing, for NewRequest or the check of the
\* signature refuses it.
Names == {"plain", "rewritten", "refused"}

FileMeta == [owner : Identity, name : Names]

Steps == {"put", "insert", "get", "getObject", "delObject", "delRow"}
Op == {"upload", "meta", "download", "url", "delete"}
Request == [op : Op, id : Identity, f : Files, expires : Expires, at : Steps]

ASSUME NoneAssumption == None \notin FileMeta \cup Request

Keys == Files \X {"asNamed", "asDecoded"}

TypeOK ==
  /\ ServerTypeOK
  /\ meta \in [Files -> FileMeta \cup {None}]
  /\ rows \subseteq Files
  /\ objects \subseteq Keys
  /\ req \in [Requests -> Request \cup {None}]
  /\ \A r \in Requests : req[r] # None => Serving
  /\ link \in [f : Files, key : Keys, expiresSec : Int] \cup {None}
  /\ created \subseteq Files /\ asked \subseteq Files
  /\ gone \subseteq Files /\ missed \subseteq Files
  /\ faulted \in BOOLEAN

Init ==
  /\ ServerInit
  /\ meta = [f \in Files |-> None]
  /\ rows = {} /\ objects = {}
  /\ req = [r \in Requests |-> None]
  /\ link = None
  /\ created = {} /\ asked = {} /\ gone = {} /\ missed = {}
  /\ faulted = FALSE

--------------------------------------------------------------------------------
(***************************************************************************)
(* Pure parts: who may access a file, where a key leads, how long a link   *)
(* lasts.                                                                  *)
(***************************************************************************)

\* canAccess, and the WHERE clause of ListByOwner and DeleteByID.
canAccess_Tenant(id, f) ==
  \/ id.tenant = NoTenant \/ meta[f].owner.tenant = NoTenant
  \/ id.tenant = meta[f].owner.tenant
canAccess(id, f) ==
  /\ id.user = meta[f].owner.user
  /\ \/ id.tenant = NoTenant \/ meta[f].owner.tenant = NoTenant
     \/ id.tenant = meta[f].owner.tenant

\* Reference: a file belongs to its user, within one tenant when tenants are known.
Owns(id, f) ==
  /\ id.user = meta[f].owner.user
  /\ Cardinality({id.tenant, meta[f].owner.tenant} \ {NoTenant}) <= 1

\* The list a user gets, up to its limit (50, or 1 to 200 when asked for).
ListByOwner(id) == {f \in rows : canAccess(id, f)}

\* objectURL puts the key into the URL as it is: PUT, GET and DELETE reach what the
\* URL decodes to.
objectURL(f) == <<f, IF meta[f].name = "plain" THEN "asNamed" ELSE "asDecoded">>

\* awsCanonicalURI encodes every byte of the key: a link leads to the key itself.
awsCanonicalURI(f) == <<f, "asNamed">>

\* NewRequest parses the URL, and S3 finds the signature right: the path that was
\* signed is the one it encodes itself.
Signed(f) == meta[f].name # "refused"

\* Signed arithmetic of Width bits.
Wrap(n) == ((n + 2 ^ (Width - 1)) % (2 ^ Width)) - 2 ^ (Width - 1)

AtMost(d, max) == IF d > max THEN max ELSE d

\* URLHandler: the default, or the seconds of the query, as a duration.
Expiry(sec) ==
  LET default == IF DefaultExpiry <= 0 THEN 3600 * Second ELSE DefaultExpiry
  IN AtMost(IF sec = 0 THEN default ELSE Wrap(sec * Second), MaxExpiry)

\* PresignGetURL: a duration that is not positive counts as an hour.
PresignGetURL_NoFloor(f, expires) ==
  [f |-> f, key |-> awsCanonicalURI(f),
   expiresSec |-> AtMost(expires, MaxExpiry) \div Second]
PresignGetURL(f, expires) ==
  [f |-> f, key |-> awsCanonicalURI(f),
   expiresSec |-> AtMost(IF expires <= 0 THEN 3600 * Second ELSE expires, MaxExpiry)
                    \div Second]

--------------------------------------------------------------------------------

InFlight == {r \in Requests : req[r] # None}

\* r goes on to its next step, or has answered.
Goto(r, at) == req' = [req EXCEPT ![r].at = at]
Answered(r) == req' = [req EXCEPT ![r] = None]

Accept(r, op, id, f, expires, at) ==
  /\ Accepting /\ req[r] = None
  /\ req' = [req EXCEPT ![r] =
       [op |-> op, id |-> id, f |-> f, expires |-> expires, at |-> at]]

At(r, at) == Serving /\ req[r] # None /\ req[r].at = at

\* POST /v1/files/: the multipart checks have passed and an id is drawn.  Without a
\* store main passes a nil *store.Files, which is not nil as an interface: the
\* handler goes on.
Upload(r, id, f, name) ==
  /\ s3
  /\ meta[f] = None
  /\ meta' = [meta EXCEPT ![f] = [owner |-> id, name |-> name]]
  /\ Accept(r, "upload", id, f, 0, "put")
  /\ UNCHANGED <<server, rows, objects, link, created, asked, gone, missed, faulted>>

Put(r) ==
  /\ At(r, "put") /\ Signed(req[r].f)
  /\ objects' = objects \cup {objectURL(req[r].f)}
  /\ Goto(r, "insert")
  /\ UNCHANGED <<server, meta, rows, link, created, asked, gone, missed, faulted>>

\* NewRequest or S3 refuses the key: 500, nothing stored.
PutRefused(r) ==
  /\ At(r, "put") /\ ~Signed(req[r].f)
  /\ Answered(r)
  /\ UNCHANGED <<server, meta, rows, objects, link, created, asked, gone, missed, faulted>>

\* The call fails; the object may be there.
PutErrs(r) ==
  /\ At(r, "put") /\ Signed(req[r].f)
  /\ objects' \in {objects, objects \cup {objectURL(req[r].f)}}
  /\ Answered(r)
  /\ faulted' = TRUE
  /\ UNCHANGED <<server, meta, rows, link, created, asked, gone, missed>>

Insert(r) ==
  /\ At(r, "insert") /\ db
  /\ rows' = rows \cup {req[r].f}
  /\ created' = created \cup {req[r].f}
  /\ Answered(r)
  /\ UNCHANGED <<server, meta, objects, link, asked, gone, missed, faulted>>

\* The statement fails, its row perhaps committed: 500 "upload stored but metadata
\* failed", and the object stays.
InsertErrs(r) ==
  /\ At(r, "insert") /\ db
  /\ rows' \in {rows, rows \cup {req[r].f}}
  /\ Answered(r)
  /\ faulted' = TRUE
  /\ UNCHANGED <<server, meta, objects, link, created, asked, gone, missed>>

--------------------------------------------------------------------------------

\* A handler of /v1/files/{id} begins with GetByID.  asked records whose wish it is.
Access(r, op, id, f, expires) ==
  /\ meta[f] # None
  /\ Accept(r, op, id, f, expires, "get")
  /\ asked' = IF op = "delete" /\ Owns(id, f) THEN asked \cup {f} ELSE asked
  /\ UNCHANGED <<server, meta, rows, objects, link, created, gone, missed, faulted>>

Meta(r, id, f) == Access(r, "meta", id, f, 0)
Download(r, id, f) == s3 /\ Access(r, "download", id, f, 0)
URL(r, id, f, expires) == s3 /\ Access(r, "url", id, f, expires)
Delete(r, id, f) == s3 /\ Access(r, "delete", id, f, 0)

\* GetByID and canAccess pass: meta answers, a link is signed, the others call S3.
GetByID(r) ==
  LET q == req[r] IN
  /\ At(r, "get") /\ db
  /\ q.f \in rows /\ canAccess(q.id, q.f)
  /\ \/ q.op = "meta" /\ Answered(r) /\ UNCHANGED link
     \/ /\ q.op = "url" /\ Answered(r)
        /\ link' = PresignGetURL(q.f, Expiry(q.expires))
     \/ q.op = "download" /\ Goto(r, "getObject") /\ UNCHANGED link
     \/ q.op = "delete" /\ Goto(r, "delObject") /\ UNCHANGED link
  /\ UNCHANGED <<server, meta, rows, objects, created, asked, gone, missed, faulted>>

\* No such row, or another's: 404, 403.
GetDenied(r) ==
  /\ At(r, "get") /\ db
  /\ req[r].f \notin rows \/ ~canAccess(req[r].id, req[r].f)
  /\ Answered(r)
  /\ UNCHANGED <<server, meta, rows, objects, link, created, asked, gone, missed, faulted>>

\* A lookup, an S3 GET or DELETE, or the DELETE statement fails: 500.  A DELETE may
\* have had its effect.
CallErrs(r) ==
  LET f == req[r].f IN
  /\ \/ At(r, "get") /\ db /\ UNCHANGED <<rows, objects>>
     \/ At(r, "getObject") /\ UNCHANGED <<rows, objects>>
     \/ At(r, "delObject") /\ objects' \in {objects, objects \ {objectURL(f)}}
                           /\ UNCHANGED rows
     \/ At(r, "delRow") /\ rows' \in {rows, rows \ {f}} /\ UNCHANGED objects
  /\ Answered(r)
  /\ faulted' = TRUE
  /\ UNCHANGED <<server, meta, link, created, asked, gone, missed>>

\* Without Postgres the method runs on a nil *store.Files and dereferences it:
\* Recover answers 500.
NilStorePanics(r) ==
  /\ At(r, "insert") \/ At(r, "get")
  /\ ~db
  /\ Answered(r)
  /\ UNCHANGED <<server, meta, rows, objects, link, created, asked, gone, missed, faulted>>

\* 200 with the object, or 500 because S3 has none.
GetObject(r) ==
  LET f == req[r].f IN
  /\ At(r, "getObject")
  /\ missed' = IF objectURL(f) \in objects THEN missed ELSE missed \cup {f}
  /\ Answered(r)
  /\ UNCHANGED <<server, meta, rows, objects, link, created, asked, gone, faulted>>

\* S3 answers 204 for an object that is not there, too.
DeleteObject_MissingErrs(r) ==
  LET f == req[r].f IN
  /\ At(r, "delObject")
  /\ objects' = objects \ {objectURL(f)}
  /\ IF objectURL(f) \in objects THEN Goto(r, "delRow") ELSE Answered(r)
  /\ UNCHANGED <<server, meta, rows, link, created, asked, gone, missed, faulted>>
DeleteObject_Named(r) ==
  /\ At(r, "delObject")
  /\ objects' = objects \ {awsCanonicalURI(req[r].f)}
  /\ Goto(r, "delRow")
  /\ UNCHANGED <<server, meta, rows, link, created, asked, gone, missed, faulted>>
DeleteObject_RowFirst(r) ==
  /\ At(r, "delObject")
  /\ rows' = rows \ {req[r].f}
  /\ Goto(r, "delRow")
  /\ UNCHANGED <<server, meta, objects, link, created, asked, gone, missed, faulted>>
DeleteObject(r) ==
  /\ At(r, "delObject")
  /\ objects' = objects \ {objectURL(req[r].f)}
  /\ Goto(r, "delRow")
  /\ UNCHANGED <<server, meta, rows, link, created, asked, gone, missed, faulted>>

\* DeleteByID: 204, or 404 when another request was first.
DeleteByID(r) ==
  LET f == req[r].f
      hit == f \in rows /\ canAccess(req[r].id, f)
  IN /\ At(r, "delRow")
     /\ rows' = IF hit THEN rows \ {f} ELSE rows
     /\ gone' = IF hit THEN gone \cup {f} ELSE gone
     /\ Answered(r)
     /\ UNCHANGED <<server, meta, objects, link, created, asked, missed, faulted>>

--------------------------------------------------------------------------------
(***************************************************************************)
(* The process.                                                            *)
(***************************************************************************)

StartService ==
  /\ \E postgres \in Connect, client \in NewClient : Start(postgres, client)
  /\ faulted' = (faulted \/ ~db')
  /\ UNCHANGED files

ServiceStops ==
  /\ Signal \/ Flushed \/ Drained(InFlight)
  /\ IF phase' = "down" THEN req' = [r \in Requests |-> None] ELSE UNCHANGED req
  /\ UNCHANGED <<meta, rows, objects, link, created, asked, gone, missed, faulted>>

ServiceDies ==
  /\ Dies
  /\ req' = [r \in Requests |-> None]
  /\ faulted' = (faulted \/ InFlight # {})
  /\ UNCHANGED <<meta, rows, objects, link, created, asked, gone, missed>>

Handle(r) ==
  \/ Put(r) \/ PutRefused(r) \/ PutErrs(r) \/ Insert(r) \/ InsertErrs(r)
  \/ GetByID(r) \/ GetDenied(r) \/ CallErrs(r) \/ NilStorePanics(r)
  \/ GetObject(r) \/ DeleteObject(r) \/ DeleteByID(r)

Next ==
  \/ StartService \/ ServiceStops \/ ServiceDies
  \/ \E r \in Requests, id \in Identity, f \in Files :
        \/ \E name \in Names : Upload(r, id, f, name)
        \/ Meta(r, id, f) \/ Download(r, id, f) \/ Delete(r, id, f)
        \/ \E expires \in Expires : URL(r, id, f, expires)
  \/ \E r \in Requests : Handle(r)

Spec == Init /\ [][Next]_vars

--------------------------------------------------------------------------------
(***************************************************************************)
(* Properties.                                                             *)
(***************************************************************************)

\* A file that is listed, or whose upload was answered 201, is listed, stored and
\* downloadable until its owner asks for its deletion: failed calls, panics,
\* restarts and requests of others never take its row or its object.
KeptUntilAsked ==
  \A f \in (rows \cup created) \ asked :
     /\ f \in ListByOwner(meta[f].owner)
     /\ objectURL(f) \in objects /\ f \notin missed

\* A delete answered 204 leaves neither row nor object behind, whatever the name
\* does to the URL and however many deletes ran at once.
DeletedIsGone ==
  \A f \in gone : f \notin rows /\ \A k \in objects : k[1] # f

\* A delete that got as far as S3 ends with the file unlisted, also when an earlier
\* one had removed the object and stopped, unless one of its own calls fails or the
\* process dies: it can always be repeated to the end.
DeleteSettles ==
  [][\A r \in Requests :
       (req[r] # None /\ req[r].at \in {"delObject", "delRow"} /\ req'[r] = None)
          => req[r].f \notin rows' \/ CallErrs(r) \/ phase' = "down"]_vars

\* An object that once had its row is never left without it: a delete that is
\* interrupted leaves a file its owner still sees and can delete again.
NoLostObject ==
  \A f \in created : (\E k \in objects : k[1] = f) => f \in rows

\* The two stores disagree about a file only while a request works on it, unless a
\* call failed or the process died on a request: a shutdown that drains leaves
\* nothing half done.
AgreeUnlessFaulted ==
  ~faulted => \A f \in Files :
     \/ f \in rows <=> \E k \in objects : k[1] = f
     \/ \E r \in InFlight : req[r].f = f

\* However large a number of seconds is asked for, and however it wraps, a link is
\* valid for no more than the maximum and never for a negative time.  A link to a
\* file whose name means itself in a URL leads to the object until the owner asks
\* for deletion.  (A name that a URL rewrites is stored under the rewritten key and
\* its link leads nowhere.)
LinksHold ==
  link # None =>
     /\ link.expiresSec \in 0..(MaxExpiry \div Second)
     /\ (meta[link.f].name = "plain" /\ link.f \notin asked) => link.key \in objects

================================================================================
