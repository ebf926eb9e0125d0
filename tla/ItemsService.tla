------------------------------ MODULE ItemsService ------------------------------
(***************************************************************************)
(* business-service: the write handlers of /v1/business/items.             *)
(*                                                                         *)
(* A request is validated, an update or a removal first looks the item up  *)
(* outside any transaction (findOwned), then one transaction writes the    *)
(* item and its outbox row, and after the commit the handler calls         *)
(* jobs.publish without waiting for it and responds.                       *)
(*                                                                         *)
(* Postgres runs READ COMMITTED and UPDATE / DELETE lock the row, so the   *)
(* statements of a transaction take effect together at its commit.  Its    *)
(* now(), the default of created_at, is read at BEGIN: Begin and Commit    *)
(* are separate steps and commits need not follow the order of created_at. *)
(***************************************************************************)
EXTENDS BusinessDb

CONSTANTS
  EmptyTitle   \* a title that is blank after trim()

VARIABLES
  pc,          \* pc[r]: where the handler of r is
  input,       \* input[r]: the parsed request, once it passed validation
  clock,       \* Postgres' clock
  began,       \* began[r]: now() of r's transaction
  jobCalls,    \* requests whose handler has called jobs.publish
  lastWrite    \* history: the request whose commit last changed an item

serviceVars == <<items, pc, input, clock, began, jobCalls, lastWrite>>

ASSUME EmptyTitleAssumption == EmptyTitle \notin Titles \cup {NoTitle}

Handling == {"new", "find", "begin", "open", "committed"}
Finished == {"rejected", "notFound", "failed", "done"}

Input ==
  [op : {"create"}, item : {NoItem}, tenant : Tenants,
   title : Titles \cup {NoTitle, EmptyTitle}, body : {FALSE}]
  \cup
  [op : {"update"}, item : Items, tenant : Tenants,
   title : Titles \cup {NoTitle, EmptyTitle}, body : BOOLEAN]
  \cup
  [op : {"remove"}, item : Items, tenant : Tenants, title : {NoTitle}, body : {FALSE}]

ServiceTypeOK ==
  /\ DbTypeOK
  /\ pc \in [Requests -> Handling \cup Finished]
  /\ input \in [Requests -> Input \cup {NoRow}]
  /\ clock \in Nat
  /\ began \in [Requests -> Nat]
  /\ jobCalls \subseteq Requests
  /\ lastWrite \in [Items -> Requests \cup {NoRow}]

ServiceInit ==
  /\ DbInit
  /\ pc = [r \in Requests |-> "new"]
  /\ input = [r \in Requests |-> NoRow]
  /\ clock = 0
  /\ began = [r \in Requests |-> 0]
  /\ jobCalls = {}
  /\ lastWrite = [i \in Items |-> NoRow]

--------------------------------------------------------------------------------

Goto(r, l) == pc' = [pc EXCEPT ![r] = l]

\* What create and update require of the request body.
Valid(in) ==
  \/ in.op = "create" /\ in.title \in Titles
  \/ in.op = "update" /\ in.title # EmptyTitle /\ (in.title # NoTitle \/ in.body)
  \/ in.op = "remove"

Receive(r, in) ==
  /\ pc[r] = "new"
  /\ \/ /\ ~Valid(in)
        /\ Goto(r, "rejected")
        /\ UNCHANGED input
     \/ /\ Valid(in)
        /\ Goto(r, IF in.op = "create" THEN "begin" ELSE "find")
        /\ input' = [input EXCEPT ![r] = in]
  /\ UNCHANGED <<items, outbox, clock, began, jobCalls, lastWrite>>

\* requireDb: no database is configured, 503.
Unavailable(r) ==
  /\ pc[r] = "new"
  /\ Goto(r, "rejected")
  /\ UNCHANGED <<items, outbox, input, clock, began, jobCalls, lastWrite>>

\* WHERE id = ... AND tenant_id = ...
Owned_AnyTenant(i, tenant) == items[i] # NoItem
Owned(i, tenant) == items[i] # NoItem /\ items[i].tenant = tenant

\* findOwned: the read that precedes the transaction of update and remove.
FindOwned_Skipped(r) ==
  /\ pc[r] = "find"
  /\ Goto(r, "begin")
  /\ UNCHANGED <<items, outbox, input, clock, began, jobCalls, lastWrite>>
FindOwned(r) ==
  /\ pc[r] = "find"
  /\ Goto(r, IF Owned(input[r].item, input[r].tenant) THEN "begin" ELSE "notFound")
  /\ UNCHANGED <<items, outbox, input, clock, began, jobCalls, lastWrite>>

\* BEGIN: the transaction's now().  Two transactions may read the same instant.
Begin(r) ==
  /\ pc[r] = "begin"
  /\ Goto(r, "open")
  /\ clock' \in {clock, clock + 1}
  /\ began' = [began EXCEPT ![r] = clock']
  /\ UNCHANGED <<items, outbox, input, jobCalls, lastWrite>>

\* An item id that no INSERT has drawn before.
Fresh(i) == items[i] = NoItem /\ \A q \in Rows : outbox[q].item # i

\* The effect of a transaction that writes row (or deletes it) and its event.
Write(r, i, row, type, title) ==
  /\ items' = [items EXCEPT ![i] = row]
  /\ outbox' = [outbox EXCEPT ![r] = NewRow(type, i, input[r].tenant, title, began[r])]
  /\ lastWrite' = [lastWrite EXCEPT ![i] = r]
  /\ Goto(r, "committed")
  /\ UNCHANGED <<input, clock, began, jobCalls>>

CommitCreate(r, i) ==
  /\ pc[r] = "open" /\ input[r].op = "create"
  /\ Fresh(i)
  /\ Write(r, i, [tenant |-> input[r].tenant, title |-> input[r].title],
           "created", input[r].title)

\* SET title only when the request carries one.
Patched(row, title) == IF title = NoTitle THEN row ELSE [row EXCEPT !.title = title]

CommitUpdate(r) ==
  LET i == input[r].item
      row == Patched(items[i], input[r].title)
  IN /\ pc[r] = "open" /\ input[r].op = "update"
     /\ Owned(i, input[r].tenant)
     /\ Write(r, i, row, "updated", row.title)

CommitRemove_NoEvent(r) ==
  /\ pc[r] = "open" /\ input[r].op = "remove"
  /\ Owned(input[r].item, input[r].tenant)
  /\ items' = [items EXCEPT ![input[r].item] = NoItem]
  /\ Goto(r, "committed")
  /\ UNCHANGED <<outbox, lastWrite, input, clock, began, jobCalls>>
CommitRemove(r) ==
  /\ pc[r] = "open" /\ input[r].op = "remove"
  /\ Owned(input[r].item, input[r].tenant)
  /\ Write(r, input[r].item, NoItem, "deleted", NoTitle)

\* The UPDATE or DELETE matched no row: the transaction rolls back, 404.
CommitMiss(r) ==
  /\ pc[r] = "open" /\ input[r].op # "create"
  /\ ~Owned(input[r].item, input[r].tenant)
  /\ Goto(r, "notFound")
  /\ UNCHANGED <<items, outbox, input, clock, began, jobCalls, lastWrite>>

\* jobs.publish is called, not awaited, and the handler responds.
Respond_BeforeCommit(r) ==
  /\ pc[r] \in {"open", "committed"}
  /\ Goto(r, "done")
  /\ jobCalls' = jobCalls \cup {r}
  /\ UNCHANGED <<items, outbox, input, clock, began, lastWrite>>
Respond(r) ==
  /\ pc[r] = "committed"
  /\ Goto(r, "done")
  /\ jobCalls' = jobCalls \cup {r}
  /\ UNCHANGED <<items, outbox, input, clock, began, lastWrite>>

\* A database error or the death of the process: an open transaction is
\* rolled back, a committed one stays and nobody publishes its job.
Fail(r) ==
  /\ pc[r] \in {"find", "begin", "open", "committed"}
  /\ Goto(r, "failed")
  /\ UNCHANGED <<items, outbox, input, clock, began, jobCalls, lastWrite>>

Handle(r) ==
  \/ Unavailable(r)
  \/ \E in \in Input : Receive(r, in)
  \/ FindOwned(r)
  \/ Begin(r)
  \/ \E i \in Items : CommitCreate(r, i)
  \/ CommitUpdate(r)
  \/ CommitRemove(r)
  \/ CommitMiss(r)
  \/ Respond(r)
  \/ Fail(r)

ServiceNext == \E r \in Requests : Handle(r)

ServiceSpec == ServiceInit /\ [][ServiceNext]_<<serviceVars, outbox>>

--------------------------------------------------------------------------------
(***************************************************************************)
(* Safety.                                                                 *)
(***************************************************************************)

\* The outbox is a complete history of business_items: the event of the last
\* commit on an item tells whether it exists and with which tenant and title.
ItemsMatchLastEvent ==
  \A i \in Items :
     LET last == lastWrite[i]
     IN IF items[i] = NoItem
        THEN last = NoRow \/ (last \in Rows /\ outbox[last].event_type = "deleted")
        ELSE /\ last \in Rows
             /\ outbox[last].event_type \in {"created", "updated"}
             /\ outbox[last].item = i
             /\ outbox[last].tenant = items[i].tenant
             /\ outbox[last].title = items[i].title

\* An item is created once and deleted at most once: ids are never reused and a
\* second removal, or an update that lost the race with a removal, finds no row.
\* The created event is never dated after another event of the item: created_at is
\* taken at BEGIN, yet update and remove look the item up before they begin, hence
\* after the creation was committed.
LifeCycle ==
  \A p, q \in Rows : outbox[p].item = outbox[q].item =>
     /\ (outbox[p].event_type = outbox[q].event_type /\ outbox[p].event_type # "updated")
           => p = q
     /\ outbox[p].event_type = "created" => outbox[p].created_at <= outbox[q].created_at

\* A step that changes an item adds, in that step, an event for the item under
\* the tenant the item belongs (or belonged) to: no write escapes the outbox and
\* no request writes an item of another tenant.
WriteIsOwnAndLogged ==
  [][\A i \in Items :
        items'[i] # items[i] =>
           \E r \in Requests :
              /\ outbox[r] = NoRow /\ outbox'[r] # NoRow
              /\ outbox'[r].item = i
              /\ items[i] # NoItem => outbox'[r].tenant = items[i].tenant
              /\ items'[i] # NoItem => outbox'[r].tenant = items'[i].tenant
    ]_<<serviceVars, outbox>>

================================================================================
