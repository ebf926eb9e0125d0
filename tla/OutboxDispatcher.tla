---------------------------- MODULE OutboxDispatcher ----------------------------
(***************************************************************************)
(* The worker's outbox dispatcher and the audit-service it posts to.       *)
(*                                                                         *)
(* Each worker replica polls on its own, with no lock between replicas:    *)
(* it selects a batch of unpublished rows, posts each row as an audit      *)
(* event, and marks the row published when the post succeeded.  A post     *)
(* that fails may still be on its way: it becomes a stray request that     *)
(* audit-service may handle at any later time, or never.  Two strays of    *)
(* one row need not be told apart, for the second insert does nothing.     *)
(***************************************************************************)
EXTENDS BusinessDb, Sequences, FiniteSets

CONSTANTS
  Workers,     \* worker replicas
  Batch        \* LIMIT of the poll query (50)

VARIABLES
  audit,       \* audit_events, in the order of insertion
  todo,        \* todo[w]: rows of w's batch still to be delivered
  marking,     \* marking[w]: the row w has posted and not yet marked
  strays       \* rows whose post failed at the worker and may still arrive

dispatcherVars == <<audit, todo, marking, strays>>

ASSUME BatchAssumption == Batch \in Nat \ {0}

Event ==
  [id : Requests, type : EventTypes, item : Items, tenant : Tenants,
   title : Titles \cup {NoTitle}, time : Nat]

DispatcherTypeOK ==
  /\ audit \in Seq(Event)
  /\ todo \in [Workers -> SUBSET Requests]
  /\ marking \in [Workers -> Requests \cup {NoRow}]
  /\ strays \subseteq Requests

DispatcherInit ==
  /\ audit = <<>>
  /\ todo = [w \in Workers |-> {}]
  /\ marking = [w \in Workers |-> NoRow]
  /\ strays = {}

--------------------------------------------------------------------------------

\* WHERE published_at IS NULL
Unpublished_Cursor ==
  {r \in Rows : /\ ~outbox[r].published
                /\ \A q \in Rows : outbox[q].published =>
                      outbox[q].created_at <= outbox[r].created_at}
Unpublished == {r \in Rows : ~outbox[r].published}

\* ORDER BY created_at LIMIT Batch: S is one of the results the query may return.
IsBatch(S) ==
  /\ S \subseteq Unpublished
  /\ S # {}
  /\ \/ S = Unpublished /\ Cardinality(S) <= Batch
     \/ Cardinality(S) = Batch
  /\ \A r \in S, q \in Unpublished \ S : outbox[r].created_at <= outbox[q].created_at

\* The next row the result set yields.
IsNext(w, r) ==
  /\ r \in todo[w]
  /\ \A q \in todo[w] : outbox[r].created_at <= outbox[q].created_at

\* The audit event of a row: its id is the row's id.  (A deleted event's
\* payload has no title.)
ToEvent_CurrentTitle(r) ==
  LET row == outbox[r]
  IN [id |-> r, type |-> row.event_type, item |-> row.item, tenant |-> row.tenant,
      title |-> IF items[row.item] = NoItem THEN NoTitle ELSE items[row.item].title,
      time |-> row.created_at]
ToEvent(r) ==
  LET row == outbox[r]
  IN [id |-> r, type |-> row.event_type, item |-> row.item, tenant |-> row.tenant,
      title |-> row.title, time |-> row.created_at]

Recorded(r) == \E k \in 1..Len(audit) : audit[k].id = r

\* INSERT ... ON CONFLICT (id) DO NOTHING
Insert_Always(r) == audit' = Append(audit, ToEvent(r))
Insert(r) == audit' = IF Recorded(r) THEN audit ELSE Append(audit, ToEvent(r))

--------------------------------------------------------------------------------

Poll(w) ==
  /\ todo[w] = {}
  /\ \E S \in SUBSET Unpublished :
        IsBatch(S) /\ todo' = [todo EXCEPT ![w] = S]
  /\ UNCHANGED <<outbox, audit, marking, strays>>

\* The post is stored and answered 202.
EmitOk(w, r) ==
  /\ marking[w] = NoRow /\ IsNext(w, r)
  /\ Insert(r)
  /\ marking' = [marking EXCEPT ![w] = r]
  /\ UNCHANGED <<outbox, todo, strays>>

\* The post is refused, answered 5xx or times out; the loop continues.
EmitFail_Ignored(w, r) ==
  /\ marking[w] = NoRow /\ IsNext(w, r)
  /\ marking' = [marking EXCEPT ![w] = r]
  /\ strays' \in {strays, strays \cup {r}}
  /\ UNCHANGED <<outbox, audit, todo>>
EmitFail(w, r) ==
  /\ marking[w] = NoRow /\ IsNext(w, r)
  /\ todo' = [todo EXCEPT ![w] = @ \ {r}]
  /\ strays' \in {strays, strays \cup {r}}
  /\ UNCHANGED <<outbox, audit, marking>>

\* UPDATE ... SET published_at = now() WHERE id = r AND published_at IS NULL
Mark(w) ==
  LET r == marking[w]
  IN /\ r # NoRow
     /\ outbox' = [outbox EXCEPT ![r].published = TRUE]
     /\ todo' = [todo EXCEPT ![w] = @ \ {r}]
     /\ marking' = [marking EXCEPT ![w] = NoRow]
     /\ UNCHANGED <<audit, strays>>

MarkFail(w) ==
  /\ marking[w] # NoRow
  /\ todo' = [todo EXCEPT ![w] = @ \ {marking[w]}]
  /\ marking' = [marking EXCEPT ![w] = NoRow]
  /\ UNCHANGED <<outbox, audit, strays>>

\* The worker dies (and is restarted), or its result set breaks: the rest of
\* the batch is forgotten, a post in progress may still arrive.
Abandon(w) ==
  /\ todo[w] # {}
  /\ todo' = [todo EXCEPT ![w] = {}]
  /\ marking' = [marking EXCEPT ![w] = NoRow]
  /\ \/ UNCHANGED strays
     \/ /\ marking[w] = NoRow
        /\ \E r \in todo[w] : IsNext(w, r) /\ strays' = strays \cup {r}
  /\ UNCHANGED <<outbox, audit>>

\* audit-service handles a post whose sender no longer waits for the answer.
StrayArrives(r) ==
  /\ r \in strays
  /\ Insert(r)
  /\ strays' = strays \ {r}
  /\ UNCHANGED <<outbox, todo, marking>>

StrayLost(r) ==
  /\ r \in strays
  /\ strays' = strays \ {r}
  /\ UNCHANGED <<outbox, audit, todo, marking>>

DispatcherNext ==
  \/ \E w \in Workers : Poll(w) \/ Mark(w) \/ MarkFail(w) \/ Abandon(w)
  \/ \E w \in Workers, r \in Requests : EmitOk(w, r) \/ EmitFail(w, r)
  \/ \E r \in Requests : StrayArrives(r) \/ StrayLost(r)

(***************************************************************************)
(* Fairness.  A dispatcher's ticker keeps firing and its process is        *)
(* restarted when it dies, so it polls; the audit service and the database *)
(* answer again and again, so a row that is posted (marked) over and over  *)
(* is at last posted (marked) with success.                                *)
(***************************************************************************)
Fairness ==
  \A w \in Workers :
     /\ WF_<<outbox, dispatcherVars>>(Poll(w))
     /\ SF_<<outbox, dispatcherVars>>(Mark(w))
     /\ \A r \in Requests : SF_<<outbox, dispatcherVars>>(EmitOk(w, r))

--------------------------------------------------------------------------------
(***************************************************************************)
(* Safety and liveness.                                                    *)
(***************************************************************************)

\* A row is marked published only once audit-service holds its event, however
\* posts, time-outs, crashes and replicas interleave (publishRow emits first and
\* marks second).
PublishedIsAudited == \A r \in Rows : outbox[r].published => Recorded(r)

\* Two replicas posting one row, a retry after a lost answer and a stray arriving
\* late leave a single audit record (ON CONFLICT (id) DO NOTHING).
RecordedOnce ==
  \A j, k \in 1..Len(audit) : audit[j].id = audit[k].id => j = k

\* The outbox drains: every committed row is at last published, although rows
\* become visible out of created_at order and the poll takes the oldest Batch.
OutboxDrains == \A r \in Requests : (r \in Rows) ~> (r \in Rows /\ outbox[r].published)

================================================================================
