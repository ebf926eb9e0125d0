--------------------------- MODULE AuditTrail_proofs ---------------------------
(***************************************************************************)
(* Proofs about AuditTrail, for every set of requests, items, tenants,     *)
(* titles and workers and every batch size.                                *)
(*                                                                         *)
(* The inductive invariant Inv is split along the shared table: a step of  *)
(* business-service only adds unpublished rows (OutboxGrows), a step of a  *)
(* dispatcher only sets published flags (OutboxMarks).  Each side keeps    *)
(* its own half of Inv under its own steps, and under the other's by these *)
(* two facts alone.                                                        *)
(***************************************************************************)
EXTENDS AuditTrail, TLAPS

\* The half of Inv about business-service.
ServiceInv == ServiceTypeOK /\ InputValid /\ RowsFaithful

\* The half of Inv about the dispatchers and audit-service.
DispatcherInv ==
  /\ DispatcherTypeOK
  /\ WorkOnRows
  /\ AuditCopiesRows
  /\ PublishedIsAudited
  /\ RecordedOnce

\* What a step of business-service does to the table.
OutboxGrows ==
  /\ outbox' \in [Requests -> OutboxRow \cup {NoRow}]
  /\ \A q \in Rows : outbox'[q] = outbox[q]
  /\ \A q \in Requests \ Rows : outbox'[q] = NoRow \/ outbox'[q].published = FALSE

\* What a step of a dispatcher does to the table.
OutboxMarks ==
  /\ outbox' \in [Requests -> OutboxRow \cup {NoRow}]
  /\ \A q \in Requests : outbox[q] = NoRow => outbox'[q] = NoRow
  /\ \A q \in Requests : outbox[q] # NoRow =>
        /\ outbox'[q] # NoRow
        /\ outbox'[q].event_type = outbox[q].event_type
        /\ outbox'[q].item = outbox[q].item
        /\ outbox'[q].tenant = outbox[q].tenant
        /\ outbox'[q].title = outbox[q].title
        /\ outbox'[q].created_at = outbox[q].created_at

--------------------------------------------------------------------------------
(***************************************************************************)
(* Records.                                                                *)
(***************************************************************************)

\* Every parsed request carries an operation, a tenant and, unless it creates an
\* item, the id of one.
LEMMA InputFields ==
  ASSUME NEW in \in Input
  PROVE  /\ in.op \in {"create", "update", "remove"}
         /\ in.tenant \in Tenants
         /\ in.title \in Titles \cup {NoTitle, EmptyTitle}
         /\ in.op # "create" => in.item \in Items
  BY DEF Input

\* The row an INSERT creates is an unpublished row of business_outbox.
LEMMA NewRowIsRow ==
  ASSUME NEW type \in EventTypes, NEW i \in Items, NEW tenant \in Tenants,
         NEW title \in Titles \cup {NoTitle}, NEW now \in Nat
  PROVE  /\ NewRow(type, i, tenant, title, now) \in OutboxRow
         /\ NewRow(type, i, tenant, title, now) # NoRow
  <1>1. NewRow(type, i, tenant, title, now) \in OutboxRow
    BY DEF NewRow, OutboxRow
  <1>2. QED
    BY <1>1, SentinelAssumption

\* rowToEvent turns a committed row into an audit event with the row's id.
LEMMA ToEventIsEvent ==
  ASSUME DbTypeOK, NEW r \in Rows
  PROVE  ToEvent(r) \in Event /\ ToEvent(r).id = r
  <1>1. r \in Requests /\ outbox[r] \in OutboxRow
    BY DEF Rows, DbTypeOK
  <1>2. QED
    BY <1>1 DEF ToEvent, Event, OutboxRow

\* The patched row is a row: the title only changes to a title.
LEMMA PatchedIsRow ==
  ASSUME NEW row \in ItemRow, NEW title \in Titles \cup {NoTitle}
  PROVE  Patched(row, title) \in ItemRow /\ (title # NoTitle => Patched(row, title).title = title)
  BY DEF Patched, ItemRow

--------------------------------------------------------------------------------
(***************************************************************************)
(* business-service.                                                       *)
(***************************************************************************)

\* The initial state of business-service satisfies its half of the invariant.
LEMMA ServiceInitInv == ServiceInit => ServiceInv
  <1> SUFFICES ASSUME ServiceInit PROVE ServiceInv
    OBVIOUS
  <1>1. ServiceTypeOK
    BY DEF ServiceInit, ServiceTypeOK, DbInit, DbTypeOK, Handling
  <1>2. InputValid
    BY DEF ServiceInit, InputValid
  <1>3. RowsFaithful
    BY DEF ServiceInit, DbInit, RowsFaithful, Rows
  <1>4. QED
    BY <1>1, <1>2, <1>3 DEF ServiceInv

\* A transaction that writes a well-typed item and its event, for a request whose
\* row is not there yet, keeps the invariant and adds one unpublished row.
LEMMA WriteKeeps ==
  ASSUME ServiceInv,
         NEW r \in Requests, pc[r] = "open",
         NEW i \in Items, NEW row \in ItemRow \cup {NoItem},
         NEW type \in EventTypes, NEW title \in Titles \cup {NoTitle},
         Faithful(r, type, i, input[r].tenant, title, began[r]),
         Write(r, i, row, type, title)
  PROVE  ServiceInv' /\ OutboxGrows
  <1> DEFINE new == NewRow(type, i, input[r].tenant, title, began[r])
  <1>1. /\ ServiceTypeOK /\ InputValid /\ RowsFaithful
        /\ input[r] \in Input /\ Valid(input[r])
    BY DEF ServiceInv, InputValid
  <1>2. input[r].tenant \in Tenants /\ began[r] \in Nat
    BY <1>1, InputFields DEF ServiceTypeOK
  <1>3. new \in OutboxRow /\ new # NoRow
    BY <1>2, NewRowIsRow
  <1>4. /\ new.published = FALSE /\ new.event_type = type /\ new.item = i
        /\ new.tenant = input[r].tenant /\ new.title = title /\ new.created_at = began[r]
    BY DEF NewRow
  <1> HIDE DEF new
  <1>5. /\ outbox' = [outbox EXCEPT ![r] = new]
        /\ pc' = [pc EXCEPT ![r] = "committed"]
        /\ items' = [items EXCEPT ![i] = row]
        /\ lastWrite' = [lastWrite EXCEPT ![i] = r]
        /\ UNCHANGED <<input, clock, began, jobCalls>>
    BY DEF Write, Goto, new
  <1>6. outbox[r] = NoRow
    BY <1>1 DEF RowsFaithful, Rows
  <1>7. ServiceTypeOK'
    BY <1>1, <1>3, <1>5 DEF ServiceTypeOK, DbTypeOK, Handling
  <1>8. InputValid'
    BY <1>1, <1>5 DEF InputValid, ServiceTypeOK, Valid
  <1>9. OutboxGrows
    BY <1>1, <1>3, <1>4, <1>5, <1>6 DEF OutboxGrows, Rows, ServiceTypeOK, DbTypeOK
  <1>10. RowsFaithful'
    <2> SUFFICES ASSUME NEW q \in Requests, outbox'[q] # NoRow
                 PROVE  /\ pc'[q] \in {"committed", "done", "failed"}
                        /\ Faithful(q, outbox[q].event_type, outbox[q].item, outbox[q].tenant,
                                    outbox[q].title, outbox[q].created_at)'
      BY DEF RowsFaithful, Rows
    <2>1. CASE q = r
      BY <2>1, <1>1, <1>4, <1>5 DEF Faithful, ServiceTypeOK, DbTypeOK
    <2>2. CASE q # r
      BY <2>2, <1>1, <1>5 DEF Faithful, RowsFaithful, Rows, ServiceTypeOK, DbTypeOK
    <2>3. QED
      BY <2>1, <2>2
  <1>11. QED
    BY <1>7, <1>8, <1>9, <1>10 DEF ServiceInv

\* Every step of business-service keeps its half of the invariant and does nothing
\* to the table but add an unpublished row.
LEMMA ServiceStepInv ==
  ASSUME ServiceInv, ServiceNext
  PROVE  ServiceInv' /\ OutboxGrows
  <1>1. PICK r \in Requests : Handle(r)
    BY DEF ServiceNext
  <1>2. ServiceTypeOK /\ DbTypeOK /\ InputValid /\ RowsFaithful
    BY DEF ServiceInv, ServiceTypeOK
  <1>3. ASSUME pc[r] = "open"
        PROVE  /\ input[r] \in Input /\ Valid(input[r])
               /\ input[r].op # "create" => input[r].item \in Items
    BY <1>2, <1>3, InputFields DEF InputValid
  <1>4. ASSUME UNCHANGED <<items, outbox, lastWrite>>,
               clock' \in Nat, jobCalls' \subseteq Requests,
               began' \in [Requests -> Nat], \A q \in Rows : began'[q] = began[q],
               NEW l \in Handling \cup Finished, Goto(r, l),
               l # "new", l # "rejected",
               UNCHANGED input, input[r] \in Input, Valid(input[r]),
               outbox[r] # NoRow => l \in {"committed", "done", "failed"}
        PROVE  ServiceInv' /\ OutboxGrows
    <2>1. ServiceTypeOK'
      BY <1>2, <1>4 DEF ServiceTypeOK, DbTypeOK, Goto
    <2>2. InputValid'
      BY <1>2, <1>4 DEF ServiceTypeOK, InputValid, Goto, Valid
    <2>3. RowsFaithful'
      BY <1>2, <1>4 DEF ServiceTypeOK, RowsFaithful, Faithful, Rows, Goto
    <2>4. OutboxGrows
      BY <1>2, <1>4 DEF OutboxGrows, Rows, DbTypeOK
    <2>5. QED
      BY <2>1, <2>2, <2>3, <2>4 DEF ServiceInv
  <1>5. ASSUME Unavailable(r) \/ \E in \in Input : Receive(r, in)
        PROVE  ServiceInv' /\ OutboxGrows
    <2>1. /\ pc[r] = "new" /\ UNCHANGED <<items, outbox, clock, began, jobCalls, lastWrite>>
          /\ \/ Goto(r, "rejected") /\ UNCHANGED input
             \/ /\ \E in \in Input : Valid(in) /\ input' = [input EXCEPT ![r] = in]
                /\ \E l \in {"begin", "find"} : Goto(r, l)
      BY <1>5 DEF Unavailable, Receive
    <2>2. r \notin Rows
      BY <1>2, <2>1 DEF RowsFaithful
    <2>3. ServiceTypeOK'
      BY <1>2, <2>1 DEF ServiceTypeOK, DbTypeOK, Goto, Handling, Finished
    <2>4. InputValid'
      BY <1>2, <2>1 DEF ServiceTypeOK, InputValid, Goto, Valid
    <2>5. RowsFaithful'
      BY <1>2, <2>1, <2>2 DEF ServiceTypeOK, RowsFaithful, Faithful, Rows, Goto
    <2>6. OutboxGrows
      BY <1>2, <2>1 DEF OutboxGrows, Rows, DbTypeOK
    <2>7. QED
      BY <2>3, <2>4, <2>5, <2>6 DEF ServiceInv
  <1>6. CASE FindOwned(r)
    BY <1>2, <1>4, <1>6
    DEF FindOwned, InputValid, RowsFaithful, Rows, ServiceTypeOK, Handling, Finished
  <1>7. CASE Begin(r)
    <2>1. /\ pc[r] = "begin" /\ Goto(r, "open")
          /\ clock' \in Nat /\ began' = [began EXCEPT ![r] = clock']
          /\ UNCHANGED <<items, outbox, input, jobCalls, lastWrite>>
      BY <1>2, <1>7 DEF Begin, ServiceTypeOK
    <2>2. r \notin Rows
      BY <1>2, <2>1 DEF RowsFaithful
    <2>3. QED
      BY <1>2, <1>4, <2>1, <2>2
      DEF InputValid, Rows, ServiceTypeOK, Handling
  <1>8. ASSUME NEW i \in Items, CommitCreate(r, i) PROVE ServiceInv' /\ OutboxGrows
    <2> DEFINE row == [tenant |-> input[r].tenant, title |-> input[r].title]
    <2>1. /\ pc[r] = "open" /\ input[r].op = "create"
          /\ Write(r, i, row, "created", input[r].title)
      BY <1>8 DEF CommitCreate
    <2>2. input[r].tenant \in Tenants /\ input[r].title \in Titles
      BY <1>3, <2>1, InputFields DEF Valid
    <2>3. row \in ItemRow
      BY <2>2 DEF ItemRow
    <2>4. Faithful(r, "created", i, input[r].tenant, input[r].title, began[r])
      BY <2>1 DEF Faithful
    <2> HIDE DEF row
    <2>5. QED
      BY <2>1, <2>2, <2>3, <2>4, WriteKeeps DEF EventTypes
  <1>9. CASE CommitUpdate(r)
    <2> DEFINE i == input[r].item
               row == Patched(items[i], input[r].title)
    <2>1. /\ pc[r] = "open" /\ input[r].op = "update"
          /\ Owned(i, input[r].tenant)
          /\ Write(r, i, row, "updated", row.title)
      BY <1>9 DEF CommitUpdate
    <2>2. i \in Items /\ input[r].title \in Titles \cup {NoTitle}
      BY <1>3, <2>1, InputFields DEF Valid
    <2>3. items[i] \in ItemRow
      BY <1>2, <2>1, <2>2 DEF Owned, DbTypeOK
    <2>4. /\ row \in ItemRow
          /\ input[r].title # NoTitle => row.title = input[r].title
      BY <2>2, <2>3, PatchedIsRow
    <2>5. Faithful(r, "updated", i, input[r].tenant, row.title, began[r])
      BY <2>1, <2>4 DEF Faithful
    <2> HIDE DEF row, i
    <2>6. row.title \in Titles
      BY <2>4 DEF ItemRow
    <2>7. QED
      BY <2>1, <2>2, <2>4, <2>5, <2>6, WriteKeeps DEF EventTypes
  <1>10. CASE CommitRemove(r)
    <2> DEFINE i == input[r].item
    <2>1. /\ pc[r] = "open" /\ input[r].op = "remove"
          /\ Write(r, i, NoItem, "deleted", NoTitle)
      BY <1>10 DEF CommitRemove
    <2>2. i \in Items
      BY <1>3, <2>1
    <2>3. Faithful(r, "deleted", i, input[r].tenant, NoTitle, began[r])
      BY <2>1 DEF Faithful
    <2> HIDE DEF i
    <2>4. QED
      BY <2>1, <2>2, <2>3, WriteKeeps DEF EventTypes
  <1>11. CASE CommitMiss(r)
    BY <1>2, <1>3, <1>4, <1>11
    DEF CommitMiss, RowsFaithful, Rows, ServiceTypeOK, Finished
  <1>12. CASE Respond(r)
    BY <1>2, <1>4, <1>12
    DEF Respond, InputValid, ServiceTypeOK, Finished
  <1>13. CASE Fail(r)
    BY <1>2, <1>4, <1>13
    DEF Fail, InputValid, ServiceTypeOK, Finished
  <1>14. QED
    BY <1>1, <1>5, <1>6, <1>7, <1>8, <1>9, <1>10, <1>11, <1>12, <1>13 DEF Handle

\* What a dispatcher does to the table leaves business-service's half alone.
LEMMA MarksKeepServiceInv ==
  ASSUME ServiceInv, OutboxMarks, UNCHANGED serviceVars
  PROVE  ServiceInv'
  <1>1. ServiceTypeOK /\ InputValid /\ RowsFaithful
    BY DEF ServiceInv
  <1>2. UNCHANGED <<items, pc, input, clock, began, jobCalls, lastWrite>>
    BY DEF serviceVars
  <1>3. ServiceTypeOK'
    BY <1>1, <1>2 DEF ServiceTypeOK, DbTypeOK, OutboxMarks
  <1>4. InputValid'
    BY <1>1, <1>2 DEF InputValid, Valid
  <1>5. RowsFaithful'
    BY <1>1, <1>2 DEF RowsFaithful, Rows, Faithful, OutboxMarks
  <1>6. QED
    BY <1>3, <1>4, <1>5 DEF ServiceInv

--------------------------------------------------------------------------------
(***************************************************************************)
(* The dispatchers and audit-service.                                      *)
(***************************************************************************)

\* The initial state of the dispatchers, over an empty table.
LEMMA DispatcherInitInv ==
  ASSUME DbInit, DispatcherInit
  PROVE  DispatcherInv
  <1>1. Len(audit) = 0 /\ Rows = {}
    BY DEF DbInit, DispatcherInit, Rows
  <1>2. DispatcherTypeOK
    BY DEF DispatcherInit, DispatcherTypeOK
  <1>3. WorkOnRows
    BY DEF DispatcherInit, WorkOnRows
  <1>4. AuditCopiesRows /\ PublishedIsAudited /\ RecordedOnce
    BY <1>1 DEF AuditCopiesRows, PublishedIsAudited, RecordedOnce
  <1>5. QED
    BY <1>2, <1>3, <1>4 DEF DispatcherInv

\* Rows that business-service adds are not published: nothing the dispatchers
\* know becomes false.
LEMMA GrowthKeepsDispatcherInv ==
  ASSUME DbTypeOK, DispatcherInv, OutboxGrows, UNCHANGED dispatcherVars
  PROVE  DispatcherInv'
  <1>1. UNCHANGED <<audit, todo, marking, strays>>
    BY DEF dispatcherVars
  <1>2. Rows \subseteq Rows' /\ \A q \in Rows : outbox'[q] = outbox[q]
    BY DEF Rows, OutboxGrows
  <1>3. \A q \in Rows' : outbox'[q].published => q \in Rows
    BY DEF Rows, OutboxGrows
  <1>4. DispatcherTypeOK'
    BY <1>1 DEF DispatcherInv, DispatcherTypeOK
  <1>5. \A r : Recorded(r)' = Recorded(r)
    BY <1>1 DEF Recorded
  <1>6. WorkOnRows'
    BY <1>1, <1>2, <1>5 DEF DispatcherInv, WorkOnRows
  <1>7. AuditCopiesRows'
    BY <1>1, <1>2 DEF DispatcherInv, AuditCopiesRows, ToEvent
  <1>8. PublishedIsAudited'
    BY <1>2, <1>3, <1>5 DEF DispatcherInv, PublishedIsAudited
  <1>9. RecordedOnce'
    BY <1>1 DEF DispatcherInv, RecordedOnce
  <1>10. QED
    BY <1>4, <1>6, <1>7, <1>8, <1>9 DEF DispatcherInv

\* audit-service's insert of a committed row's event: the event is recorded, none
\* is lost, none is recorded twice.
LEMMA InsertKeeps ==
  ASSUME DbTypeOK, DispatcherInv, NEW r \in Rows, Insert(r), UNCHANGED outbox
  PROVE  /\ audit' \in Seq(Event)
         /\ AuditCopiesRows'
         /\ RecordedOnce'
         /\ Recorded(r)'
         /\ \A q : Recorded(q) => Recorded(q)'
  <1>1. audit \in Seq(Event) /\ AuditCopiesRows /\ RecordedOnce
    BY DEF DispatcherInv, DispatcherTypeOK
  <1>2. Rows' = Rows /\ \A q : ToEvent(q)' = ToEvent(q)
    BY DEF Rows, ToEvent
  <1>3. CASE Recorded(r)
    <2>1. audit' = audit
      BY <1>3 DEF Insert
    <2>2. QED
      BY <1>1, <1>2, <1>3, <2>1 DEF AuditCopiesRows, RecordedOnce, Recorded
  <1>4. CASE ~Recorded(r)
    <2> DEFINE e == ToEvent(r)
    <2>1. audit' = Append(audit, e)
      BY <1>4 DEF Insert
    <2>2. e \in Event /\ e.id = r /\ e = ToEvent(r)
      BY ToEventIsEvent
    <2> HIDE DEF e
    <2>3. /\ audit' \in Seq(Event) /\ Len(audit') = Len(audit) + 1
          /\ audit'[Len(audit) + 1] = e
          /\ \A k \in 1..Len(audit) : audit'[k] = audit[k]
      BY <1>1, <2>1, <2>2
    <2>4. Len(audit) \in Nat
      BY <1>1
    <2>5. AuditCopiesRows'
      BY <1>1, <1>2, <2>2, <2>3, <2>4 DEF AuditCopiesRows
    <2>6. RecordedOnce'
      BY <1>4, <2>2, <2>3, <2>4, <1>1 DEF RecordedOnce, Recorded
    <2>7. Recorded(r)' /\ \A q : Recorded(q) => Recorded(q)'
      BY <2>2, <2>3, <2>4 DEF Recorded
    <2>8. QED
      BY <2>3, <2>5, <2>6, <2>7
  <1>5. QED
    BY <1>3, <1>4

\* Every step of a dispatcher or of audit-service keeps the dispatchers' half of
\* the invariant and does nothing to the table but mark rows.
LEMMA DispatcherStepInv ==
  ASSUME DbTypeOK, DispatcherInv, DispatcherNext
  PROVE  DispatcherInv' /\ OutboxMarks
  <1>1. /\ DispatcherTypeOK /\ WorkOnRows /\ AuditCopiesRows
        /\ PublishedIsAudited /\ RecordedOnce
    BY DEF DispatcherInv
  \* Steps that leave the table and audit_events alone.
  <1>2. ASSUME UNCHANGED <<outbox, audit>>,
               todo' \in [Workers -> SUBSET Rows],
               marking' \in [Workers -> Requests \cup {NoRow}],
               \A w \in Workers : marking'[w] \in {marking[w], NoRow},
               strays' \subseteq Rows
        PROVE  DispatcherInv' /\ OutboxMarks
    <2>1. Rows' = Rows /\ \A q : Recorded(q)' = Recorded(q)
      BY <1>2 DEF Rows, Recorded
    <2>2. DispatcherTypeOK'
      BY <1>1, <1>2 DEF DispatcherTypeOK, Rows
    <2>3. WorkOnRows'
      BY <1>1, <1>2, <2>1 DEF WorkOnRows
    <2>4. AuditCopiesRows' /\ PublishedIsAudited' /\ RecordedOnce'
      BY <1>1, <1>2, <2>1
      DEF AuditCopiesRows, PublishedIsAudited, RecordedOnce, ToEvent
    <2>5. OutboxMarks
      BY <1>2 DEF OutboxMarks, DbTypeOK
    <2>6. QED
      BY <2>2, <2>3, <2>4, <2>5 DEF DispatcherInv
  \* Steps that insert the event of a committed row.
  <1>3. ASSUME NEW r \in Rows, Insert(r), UNCHANGED <<outbox, todo>>,
               marking' \in [Workers -> Requests \cup {NoRow}],
               \A w \in Workers : marking'[w] \in {marking[w], r},
               strays' \subseteq strays
        PROVE  DispatcherInv' /\ OutboxMarks
    <2>1. /\ audit' \in Seq(Event) /\ AuditCopiesRows' /\ RecordedOnce'
          /\ Recorded(r)' /\ \A q : Recorded(q) => Recorded(q)'
      BY <1>3, InsertKeeps
    <2>2. Rows' = Rows
      BY <1>3 DEF Rows
    <2>3. DispatcherTypeOK'
      BY <1>1, <1>3, <2>1 DEF DispatcherTypeOK
    <2>4. WorkOnRows'
      BY <1>1, <1>3, <2>1, <2>2 DEF WorkOnRows
    <2>5. PublishedIsAudited'
      BY <1>1, <1>3, <2>1, <2>2 DEF PublishedIsAudited
    <2>6. OutboxMarks
      BY <1>3 DEF OutboxMarks, DbTypeOK
    <2>7. QED
      BY <2>1, <2>3, <2>4, <2>5, <2>6 DEF DispatcherInv
  <1>4. ASSUME NEW w \in Workers, Poll(w) PROVE DispatcherInv' /\ OutboxMarks
    <2>1. PICK S \in SUBSET Unpublished : todo' = [todo EXCEPT ![w] = S]
      BY <1>4 DEF Poll
    <2>2. S \subseteq Rows
      BY DEF Unpublished
    <2>3. QED
      BY <1>1, <1>2, <1>4, <2>1, <2>2 DEF Poll, DispatcherTypeOK, WorkOnRows
  <1>5. ASSUME NEW w \in Workers, Mark(w) PROVE DispatcherInv' /\ OutboxMarks
    <2> DEFINE r == marking[w]
    <2>1. /\ outbox' = [outbox EXCEPT ![r].published = TRUE]
          /\ todo' = [todo EXCEPT ![w] = @ \ {r}]
          /\ marking' = [marking EXCEPT ![w] = NoRow]
          /\ UNCHANGED <<audit, strays>>
      BY <1>5 DEF Mark
    <2>2. r \in Rows /\ Recorded(r) /\ r \in Requests
      BY <1>1, <1>5 DEF Mark, WorkOnRows, Rows
    <2> HIDE DEF r
    <2>3. outbox[r] \in OutboxRow /\ outbox' = [outbox EXCEPT ![r] = [outbox[r] EXCEPT !.published = TRUE]]
      BY <2>1, <2>2 DEF DbTypeOK, Rows
    <2>4. OutboxMarks
      <3> DEFINE row == [outbox[r] EXCEPT !.published = TRUE]
      <3>1. /\ row \in OutboxRow
            /\ row.event_type = outbox[r].event_type /\ row.item = outbox[r].item
            /\ row.tenant = outbox[r].tenant /\ row.title = outbox[r].title
            /\ row.created_at = outbox[r].created_at
        BY <2>3 DEF OutboxRow
      <3>2. outbox' = [outbox EXCEPT ![r] = row]
        BY <2>3
      <3> HIDE DEF row
      <3>3. row # NoRow
        BY <3>1, SentinelAssumption
      <3>4. outbox' \in [Requests -> OutboxRow \cup {NoRow}]
        BY <3>1, <3>2 DEF DbTypeOK
      <3>5. outbox'[r] = row /\ \A q \in Requests \ {r} : outbox'[q] = outbox[q]
        BY <2>2, <3>2 DEF DbTypeOK
      <3>6. outbox[r] # NoRow
        BY <2>2 DEF Rows
      <3>7. QED
        BY <3>1, <3>3, <3>4, <3>5, <3>6 DEF OutboxMarks
    <2>5. Rows' = Rows /\ \A q : Recorded(q)' = Recorded(q)
      BY <2>1, <2>4 DEF Rows, Recorded, OutboxMarks
    <2>6. \A q \in Rows : ToEvent(q)' = ToEvent(q)
      BY <2>4 DEF Rows, ToEvent, OutboxMarks
    <2>7. DispatcherTypeOK'
      BY <1>1, <2>1 DEF DispatcherTypeOK
    <2>8. WorkOnRows'
      BY <1>1, <2>1, <2>5 DEF WorkOnRows, DispatcherTypeOK
    <2>9. AuditCopiesRows' /\ RecordedOnce'
      BY <1>1, <2>1, <2>5, <2>6 DEF AuditCopiesRows, RecordedOnce
    <2>10. PublishedIsAudited'
      BY <1>1, <2>2, <2>3, <2>5 DEF PublishedIsAudited, DbTypeOK
    <2>11. QED
      BY <2>4, <2>7, <2>8, <2>9, <2>10 DEF DispatcherInv
  <1>6. ASSUME NEW w \in Workers, MarkFail(w) PROVE DispatcherInv' /\ OutboxMarks
    BY <1>1, <1>2, <1>6 DEF MarkFail, DispatcherTypeOK, WorkOnRows
  <1>7. ASSUME NEW w \in Workers, Abandon(w) PROVE DispatcherInv' /\ OutboxMarks
    BY <1>1, <1>2, <1>7 DEF Abandon, IsNext, DispatcherTypeOK, WorkOnRows
  <1>8. ASSUME NEW w \in Workers, NEW r \in Requests, EmitOk(w, r)
        PROVE  DispatcherInv' /\ OutboxMarks
    BY <1>1, <1>3, <1>8 DEF EmitOk, IsNext, DispatcherTypeOK, WorkOnRows
  <1>9. ASSUME NEW w \in Workers, NEW r \in Requests, EmitFail(w, r)
        PROVE  DispatcherInv' /\ OutboxMarks
    BY <1>1, <1>2, <1>9 DEF EmitFail, IsNext, DispatcherTypeOK, WorkOnRows
  <1>10. ASSUME NEW r \in Requests, StrayArrives(r) PROVE DispatcherInv' /\ OutboxMarks
    BY <1>1, <1>3, <1>10 DEF StrayArrives, DispatcherTypeOK, WorkOnRows
  <1>11. ASSUME NEW r \in Requests, StrayLost(r) PROVE DispatcherInv' /\ OutboxMarks
    BY <1>1, <1>2, <1>11 DEF StrayLost, DispatcherTypeOK, WorkOnRows
  <1>12. QED
    BY <1>4, <1>5, <1>6, <1>7, <1>8, <1>9, <1>10, <1>11 DEF DispatcherNext

--------------------------------------------------------------------------------
(***************************************************************************)
(* The whole pipeline.                                                     *)
(***************************************************************************)

\* The inductive invariant of business-service, dispatchers and audit-service
\* together holds in every reachable state.
THEOREM InvHolds == Spec => []Inv
  <1>1. Inv <=> ServiceInv /\ DispatcherInv
    BY DEF Inv, TypeOK, ServiceInv, DispatcherInv
  <1>2. Init => Inv
    BY <1>1, ServiceInitInv, DispatcherInitInv DEF Init, ServiceInit
  <1>3. Inv /\ [Next]_vars => Inv'
    <2> SUFFICES ASSUME Inv, [Next]_vars PROVE (ServiceInv /\ DispatcherInv)'
      BY DEF Inv, TypeOK, ServiceInv, DispatcherInv
    <2>1. ServiceInv /\ DispatcherInv /\ DbTypeOK
      BY <1>1 DEF Inv, TypeOK, ServiceTypeOK
    <2>2. CASE ServiceNext /\ UNCHANGED dispatcherVars
      BY <2>1, <2>2, ServiceStepInv, GrowthKeepsDispatcherInv
    <2>3. CASE DispatcherNext /\ UNCHANGED serviceVars
      BY <2>1, <2>3, DispatcherStepInv, MarksKeepServiceInv
    <2>4. CASE UNCHANGED vars
      <3>1. OutboxGrows /\ OutboxMarks
        BY <2>1, <2>4 DEF vars, OutboxGrows, OutboxMarks, Rows, DbTypeOK
      <3>2. UNCHANGED serviceVars /\ UNCHANGED dispatcherVars
        BY <2>4 DEF vars
      <3>3. QED
        BY <2>1, <3>1, <3>2, GrowthKeepsDispatcherInv, MarksKeepServiceInv
    <2>5. QED
      BY <2>2, <2>3, <2>4 DEF Next
  <1>4. QED
    BY <1>2, <1>3, PTL DEF Spec

\* Every variable keeps its type: in particular a committed item always has a
\* proper title and an audit event a committed row's fields.
THEOREM TypeCorrect == Spec => []TypeOK
  BY InvHolds, PTL DEF Inv

\* publishRow marks a row published only once audit-service holds its event, for
\* any number of replicas, crashes and lost answers.
THEOREM PublishedIsAuditedHolds == Spec => []PublishedIsAudited
  BY InvHolds, PTL DEF Inv

\* No interleaving of replicas, retries and late requests records an event twice.
THEOREM RecordedOnceHolds == Spec => []RecordedOnce
  BY InvHolds, PTL DEF Inv

\* Every audit event is the faithful account of a committed request: the event is
\* a copy of its row, and the row was written from the request.
THEOREM AuditFaithfulHolds == Spec => []AuditFaithful
  <1>1. Inv => AuditFaithful
    <2> SUFFICES ASSUME Inv, NEW k \in 1..Len(audit)
                 PROVE  /\ pc[audit[k].id] \in {"committed", "done", "failed"}
                        /\ Faithful(audit[k].id, audit[k].type, audit[k].item,
                                    audit[k].tenant, audit[k].title, audit[k].time)
      BY DEF AuditFaithful
    <2> DEFINE r == audit[k].id
    <2>1. r \in Rows /\ audit[k] = ToEvent(r)
      BY DEF Inv, AuditCopiesRows
    <2>2. /\ pc[r] \in {"committed", "done", "failed"}
          /\ Faithful(r, outbox[r].event_type, outbox[r].item, outbox[r].tenant,
                      outbox[r].title, outbox[r].created_at)
      BY <2>1 DEF Inv, RowsFaithful
    <2>3. /\ audit[k].type = outbox[r].event_type /\ audit[k].item = outbox[r].item
          /\ audit[k].tenant = outbox[r].tenant /\ audit[k].title = outbox[r].title
          /\ audit[k].time = outbox[r].created_at
      BY <2>1 DEF ToEvent
    <2> HIDE DEF r
    <2>4. QED
      BY <2>2, <2>3 DEF r
  <1>2. QED
    BY <1>1, InvHolds, PTL

--------------------------------------------------------------------------------
(***************************************************************************)
(* Refinement.                                                             *)
(***************************************************************************)

\* A step of business-service touches the outbox row of one request.
LEMMA OneRowAtATime ==
  ASSUME ServiceNext
  PROVE  \E r \in Requests : \A q \in Requests \ {r} : DbTypeOK => outbox'[q] = outbox[q]
  <1>1. PICK r \in Requests : Handle(r)
    BY DEF ServiceNext
  <1>2. \/ UNCHANGED outbox
        \/ \E row : outbox' = [outbox EXCEPT ![r] = row]
    BY <1>1 DEF Handle, Unavailable, Receive, FindOwned, Begin, CommitCreate, CommitUpdate,
                CommitRemove, CommitMiss, Respond, Fail, Write
  <1>3. QED
    BY <1>2 DEF DbTypeOK

\* audit-service's insert adds the one event to the recorded ones, or nothing.
LEMMA InsertRecords ==
  ASSUME audit \in Seq(Event), NEW r, ToEvent(r) \in Event, ToEvent(r).id = r, Insert(r)
  PROVE  RecordedIds' = RecordedIds \cup {r}
  <1>1. CASE Recorded(r)
    BY <1>1 DEF Insert, Recorded, RecordedIds
  <1>2. CASE ~Recorded(r)
    <2> DEFINE e == ToEvent(r)
    <2>1. audit' = Append(audit, e) /\ e \in Event /\ e.id = r
      BY <1>2 DEF Insert
    <2> HIDE DEF e
    <2>2. /\ Len(audit) \in Nat /\ Len(audit') = Len(audit) + 1
          /\ audit'[Len(audit) + 1] = e
          /\ \A k \in 1..Len(audit) : audit'[k] = audit[k]
      BY <2>1
    <2>3. QED
      BY <2>1, <2>2 DEF RecordedIds
  <1>3. QED
    BY <1>1, <1>2

\* The pipeline implements the abstract audit log, its liveness apart: a commit is
\* Accept, the first insert of an event is Record, every other step is a stutter.
THEOREM RefinesSafeLog == Spec => ImplementsSafeLog
  <1>1. Init => Log!Init
    BY DEF Init, ServiceInit, DbInit, DispatcherInit, Log!Init, Rows, RecordedIds
  <1>2. Inv /\ [Next]_vars => [Log!Next]_(Log!vars)
    <2> SUFFICES ASSUME Inv, [Next]_vars PROVE [Log!Next]_(Log!vars)
      OBVIOUS
    <2>1. /\ ServiceInv /\ DispatcherInv /\ DbTypeOK /\ audit \in Seq(Event)
          /\ RecordedIds \subseteq Rows
      BY DEF Inv, TypeOK, ServiceTypeOK, ServiceInv, DispatcherInv, DispatcherTypeOK,
             AuditCopiesRows, RecordedIds
    <2>2. CASE ServiceNext /\ UNCHANGED dispatcherVars
      <3>1. RecordedIds' = RecordedIds
        BY <2>2 DEF dispatcherVars, RecordedIds
      <3>2. Rows \subseteq Rows'
        BY <2>1, <2>2, ServiceStepInv DEF OutboxGrows, Rows
      <3>3. PICK r \in Requests : \A q \in Requests \ {r} : outbox'[q] = outbox[q]
        BY <2>1, <2>2, OneRowAtATime
      <3>4. Rows' = Rows \/ (r \notin Rows /\ Rows' = Rows \cup {r})
        BY <3>2, <3>3 DEF Rows
      <3>5. QED
        BY <3>1, <3>4 DEF Log!Next, Log!Accept, Log!vars
    <2>3. CASE DispatcherNext /\ UNCHANGED serviceVars
      <3>1. Rows' = Rows
        BY <2>1, <2>3, DispatcherStepInv DEF OutboxMarks, Rows
      <3>2. \/ UNCHANGED audit
            \/ \E r \in Rows : Insert(r)
        BY <2>1, <2>3
        DEF DispatcherNext, Poll, Mark, MarkFail, Abandon, EmitOk, EmitFail,
            StrayArrives, StrayLost, IsNext, DispatcherInv, WorkOnRows
      <3>3. \/ RecordedIds' = RecordedIds
            \/ \E r \in Rows : RecordedIds' = RecordedIds \cup {r}
        BY <2>1, <3>2, InsertRecords, ToEventIsEvent DEF RecordedIds
      <3>4. QED
        BY <3>1, <3>3 DEF Log!Next, Log!Record, Log!vars, Rows
    <2>4. CASE UNCHANGED vars
      BY <2>4 DEF vars, dispatcherVars, Log!vars, Rows, RecordedIds
    <2>5. QED
      BY <2>2, <2>3, <2>4 DEF Next
  <1>3. QED
    BY <1>1, <1>2, InvHolds, PTL DEF Spec, ImplementsSafeLog, Log!Safe

================================================================================
