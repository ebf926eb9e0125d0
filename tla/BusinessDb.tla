------------------------------- MODULE BusinessDb -------------------------------
(***************************************************************************)
(* The two business tables of app_db: business_items, which only           *)
(* business-service touches, and business_outbox, which business-service   *)
(* writes and the worker's dispatcher reads and marks.                     *)
(*                                                                         *)
(* Every write transaction inserts exactly one outbox row, so a row is     *)
(* named by the request that wrote it; the request stands for its random   *)
(* uuid and for the actor_user_id of its payload.                          *)
(***************************************************************************)
EXTENDS Naturals

CONSTANTS
  Requests,    \* write requests reaching business-service
  Items,       \* item ids (uuid)
  Tenants,     \* tenant ids, the empty tenant included
  Titles,      \* non-empty titles
  NoTitle,     \* an absent title: a PATCH without one, a deleted event
  NoItem,      \* no row of business_items / no id yet
  NoRow        \* no row of business_outbox

VARIABLES
  items,       \* business_items
  outbox       \* business_outbox

EventTypes == {"created", "updated", "deleted"}

ItemRow == [tenant : Tenants, title : Titles]

OutboxRow ==
  [event_type : EventTypes, item : Items, tenant : Tenants,
   title : Titles \cup {NoTitle}, created_at : Nat, published : BOOLEAN]

ASSUME SentinelAssumption ==
  /\ NoTitle \notin Titles
  /\ NoItem \notin Items
  /\ NoItem \notin ItemRow
  /\ NoRow \notin OutboxRow
  /\ NoRow \notin Requests

DbTypeOK ==
  /\ items \in [Items -> ItemRow \cup {NoItem}]
  /\ outbox \in [Requests -> OutboxRow \cup {NoRow}]

DbInit ==
  /\ items = [i \in Items |-> NoItem]
  /\ outbox = [r \in Requests |-> NoRow]

\* The rows that transactions have committed.
Rows == {r \in Requests : outbox[r] # NoRow}

\* The row an INSERT into business_outbox creates: published_at is NULL.
NewRow(type, i, tenant, title, now) ==
  [event_type |-> type, item |-> i, tenant |-> tenant, title |-> title,
   created_at |-> now, published |-> FALSE]

================================================================================
