------------------------------- MODULE AuditTrail -------------------------------
(***************************************************************************)
(* business-service, the outbox dispatchers and audit-service together:    *)
(* the path a domain write takes from its HTTP request to audit_events.    *)
(* The two sides share business_outbox and nothing else.                   *)
(***************************************************************************)
EXTENDS ItemsService, OutboxDispatcher

vars == <<serviceVars, outbox, dispatcherVars>>

TypeOK == ServiceTypeOK /\ DispatcherTypeOK

Init == ServiceInit /\ DispatcherInit

Next ==
  \/ ServiceNext /\ UNCHANGED dispatcherVars
  \/ DispatcherNext /\ UNCHANGED serviceVars

Spec == Init /\ [][Next]_vars

\* The dispatchers are fair (see OutboxDispatcher); nothing is asked of requests.
FairSpec == Spec /\ Fairness

--------------------------------------------------------------------------------
(***************************************************************************)
(* Safety.                                                                 *)
(***************************************************************************)

\* The event (type, item, tenant, title, time) is what request r did.
Faithful(r, type, item, tenant, title, time) ==
  LET in == input[r]
  IN /\ tenant = in.tenant
     /\ time = began[r]
     /\ \/ in.op = "create" /\ type = "created" /\ title = in.title
        \/ /\ in.op = "update" /\ type = "updated" /\ item = in.item
           /\ in.title # NoTitle => title = in.title
        \/ in.op = "remove" /\ type = "deleted" /\ item = in.item

\* Every audit record is the faithful account of a request whose transaction
\* committed: its operation, item, tenant, title and its transaction's time, as
\* that request wrote them, whatever happened to the item since.
AuditFaithful ==
  \A k \in 1..Len(audit) :
     LET e == audit[k]
     IN /\ pc[e.id] \in {"committed", "done", "failed"}
        /\ Faithful(e.id, e.type, e.item, e.tenant, e.title, e.time)

(***************************************************************************)
(* The inductive invariant: what each side knows about the rows it shares. *)
(***************************************************************************)

\* A handler past validation works on a valid request.
InputValid ==
  \A r \in Requests :
     pc[r] \notin {"new", "rejected"} => input[r] \in Input /\ Valid(input[r])

\* A row is there only after its request's commit, and says what the request did.
RowsFaithful ==
  \A r \in Rows :
     /\ pc[r] \in {"committed", "done", "failed"}
     /\ Faithful(r, outbox[r].event_type, outbox[r].item, outbox[r].tenant,
                 outbox[r].title, outbox[r].created_at)

\* The dispatchers work on committed rows, and mark only what is recorded.
WorkOnRows ==
  /\ \A w \in Workers : todo[w] \subseteq Rows
  /\ \A w \in Workers : marking[w] # NoRow => marking[w] \in Rows /\ Recorded(marking[w])
  /\ strays \subseteq Rows

\* audit_events holds copies of committed rows.
AuditCopiesRows ==
  \A k \in 1..Len(audit) : audit[k].id \in Rows /\ audit[k] = ToEvent(audit[k].id)

\* What the two sides rely on, together: it is preserved by every step.
Inv ==
  /\ TypeOK
  /\ InputValid
  /\ RowsFaithful
  /\ WorkOnRows
  /\ AuditCopiesRows
  /\ PublishedIsAudited
  /\ RecordedOnce

--------------------------------------------------------------------------------
(***************************************************************************)
(* Liveness and refinement.                                                *)
(***************************************************************************)

RecordedIds == {audit[k].id : k \in 1..Len(audit)}

Log == INSTANCE AuditLog
         WITH Writes <- Requests, accepted <- Rows, recorded <- RecordedIds

\* Safety half of the refinement: rows are only ever added, one commit at a time,
\* and an event is recorded at most once and only after its commit.
ImplementsSafeLog == Log!Safe

\* The whole pipeline implements the abstract audit log: what commits is
\* eventually recorded, and nothing is recorded that did not commit.
ImplementsAuditLog == Log!Spec

================================================================================
