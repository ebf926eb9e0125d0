------------------------- MODULE BusinessService_proofs -------------------------
(***************************************************************************)
(* Proofs about business-service, for every set of requests, items,        *)
(* tenants and titles.                                                     *)
(*                                                                         *)
(* What relates the tables to their history is not inductive by itself: it *)
(* depends on what a handler still knows, at its commit, of what it looked *)
(* up before its transaction began.  Located says what that is.  The       *)
(* publisher's half rests on one fact: a job finds the channel open only   *)
(* because another job has opened it.                                      *)
(***************************************************************************)
EXTENDS BusinessService, TLAPS

\* A handler past validation works on a valid request.
InputValid ==
  \A r \in Requests :
     pc[r] \notin {"new", "rejected"} => input[r] \in Input /\ Valid(input[r])

\* A request has its row from its commit on.
RowPhase ==
  \A r \in Requests :
     /\ r \in Rows => pc[r] \in {"committed", "done", "failed"}
     /\ pc[r] \in {"committed", "done"} => r \in Rows

\* No transaction began, and no row is dated, after now.
Times ==
  /\ \A r \in Requests : began[r] <= clock
  /\ \A q \in Rows : outbox[q].created_at <= clock

\* What was deleted is gone.
DeletedGone ==
  \A q \in Rows : outbox[q].event_type = "deleted" => items[outbox[q].item] = NoItem

\* An update or a removal that found its item: the item has had events, so that no
\* INSERT draws its id again, and the transaction began after the item's creation.
Located(r) ==
  pc[r] \in {"begin", "open"} /\ input[r].op # "create" =>
     /\ \E q \in Rows : outbox[q].item = input[r].item
     /\ \A q \in Rows :
           (pc[r] = "open" /\ outbox[q].item = input[r].item /\ outbox[q].event_type = "created")
              => outbox[q].created_at <= began[r]

ServiceInv ==
  /\ ServiceTypeOK
  /\ InputValid
  /\ RowPhase
  /\ Times
  /\ DeletedGone
  /\ \A r \in Requests : Located(r)
  /\ ItemsMatchLastEvent
  /\ LifeCycle

\* jobs.publish has been called by the handlers that are done.
CallsDone == \A r \in jobCalls : pc[r] = "done"

\* The channel and the promise of it: who opened it, and what broke it.
Connection ==
  /\ connecting = "rejected" \/ ch = "closed" => faulted
  /\ ch # "null" => connecting # "null"
  /\ connecting # "null" => \E q \in Requests : pub[q] # "none"

\* A job that may be sent has a channel, and the queue is bound, or another job was
\* there before it.
ReadyToSend ==
  \A r \in Requests : pub[r] = "ready" =>
     /\ ch # "null"
     /\ bound \/ \E q \in Requests \ {r} : pub[q] # "none"

PublisherInv ==
  /\ Jobs!PublisherTypeOK
  /\ CallsDone
  /\ Connection
  /\ ReadyToSend
  /\ JobsAccounted

\* The inductive invariant.
BusinessInv == ServiceInv /\ PublisherInv

--------------------------------------------------------------------------------
(***************************************************************************)
(* Records.                                                                *)
(***************************************************************************)

\* The fields of a parsed request.
LEMMA RequestFields ==
  ASSUME NEW in \in Input
  PROVE  /\ in.op \in {"create", "update", "remove"} /\ in.tenant \in Tenants
         /\ in.title \in Titles \cup {NoTitle, EmptyTitle}
         /\ in.op # "create" => in.item \in Items
  BY DEF Input

\* What an INSERT into business_outbox writes.
LEMMA InsertedRow ==
  ASSUME NEW type \in EventTypes, NEW i \in Items, NEW tenant \in Tenants,
         NEW title \in Titles \cup {NoTitle}, NEW now \in Nat,
         NEW row, row = NewRow(type, i, tenant, title, now)
  PROVE  /\ row \in OutboxRow /\ row # NoRow
         /\ row.event_type = type /\ row.item = i /\ row.tenant = tenant
         /\ row.title = title /\ row.created_at = now
  <1>1. row \in OutboxRow
    BY DEF NewRow, OutboxRow
  <1>2. QED
    BY <1>1, SentinelAssumption DEF NewRow

\* SET title keeps the rest of the item.
LEMMA PatchedRow ==
  ASSUME NEW row \in ItemRow, NEW title \in Titles \cup {NoTitle}
  PROVE  Patched(row, title) \in ItemRow /\ Patched(row, title).tenant = row.tenant
  BY DEF Patched, ItemRow

--------------------------------------------------------------------------------
(***************************************************************************)
(* A handler's step that writes nothing.                                   *)
(***************************************************************************)

LEMMA NoWrite ==
  ASSUME ServiceInv, NEW r \in Requests, NEW l \in Handling \cup Finished, Goto(r, l),
         UNCHANGED <<items, outbox, lastWrite>>,
         clock' \in Nat, clock <= clock', jobCalls' \subseteq Requests,
         began' \in [Requests -> Nat], began'[r] <= clock',
         \A q \in Requests : q # r => began'[q] = began[q],
         input' \in [Requests -> Input \cup {NoRow}],
         \A q \in Requests : q # r => input'[q] = input[q],
         l \notin {"new", "rejected"} => input'[r] \in Input /\ Valid(input'[r]),
         r \in Rows => l \in {"committed", "done", "failed"},
         l \in {"committed", "done"} => r \in Rows,
         Located(r)'
  PROVE  ServiceInv'
<1>1. /\ ServiceTypeOK /\ InputValid /\ RowPhase /\ Times /\ DeletedGone
      /\ \A q \in Requests : Located(q)
      /\ ItemsMatchLastEvent /\ LifeCycle
  BY DEF ServiceInv
<1>2. pc'[r] = l /\ \A q \in Requests : q # r => pc'[q] = pc[q]
  BY <1>1 DEF Goto, ServiceTypeOK
<1>3. Rows' = Rows
  BY DEF Rows
<1>4. ServiceTypeOK'
  BY <1>1 DEF ServiceTypeOK, DbTypeOK, Goto
<1>5. InputValid'
  BY <1>1, <1>2 DEF InputValid, Valid
<1>6. RowPhase'
  BY <1>1, <1>2, <1>3 DEF RowPhase
<1>7. Times'
  <2>1. \A q \in Rows : outbox[q].created_at \in Nat
    BY <1>1 DEF Rows, ServiceTypeOK, DbTypeOK, OutboxRow
  <2>2. QED
    BY <1>1, <1>3, <2>1 DEF Times, ServiceTypeOK
<1>8. DeletedGone' /\ LifeCycle' /\ ItemsMatchLastEvent'
  BY <1>1, <1>3 DEF DeletedGone, LifeCycle, ItemsMatchLastEvent
<1>9. ASSUME NEW q \in Requests PROVE Located(q)'
  <2>1. CASE q = r
    BY <2>1
  <2>2. CASE q # r
    BY <1>1, <1>2, <1>3, <2>2 DEF Located
  <2>3. QED
    BY <2>1, <2>2
<1> QED
  BY <1>4, <1>5, <1>6, <1>7, <1>8, <1>9 DEF ServiceInv

LEMMA ReceiveStep ==
  ASSUME ServiceInv, NEW r \in Requests,
         Unavailable(r) \/ \E in \in Input : Receive(r, in)
  PROVE  ServiceInv'
<1>1. /\ pc[r] = "new" /\ UNCHANGED <<items, outbox, clock, began, jobCalls, lastWrite>>
      /\ \/ Goto(r, "rejected") /\ UNCHANGED input
         \/ \E in \in Input :
              /\ Valid(in) /\ input' = [input EXCEPT ![r] = in]
              /\ Goto(r, IF in.op = "create" THEN "begin" ELSE "find")
  BY DEF Unavailable, Receive
<1>2. /\ r \notin Rows /\ clock \in Nat /\ began[r] <= clock /\ jobCalls \subseteq Requests
      /\ began \in [Requests -> Nat] /\ input \in [Requests -> Input \cup {NoRow}]
      /\ pc \in [Requests -> Handling \cup Finished]
  BY <1>1 DEF ServiceInv, RowPhase, Times, ServiceTypeOK
<1>3. CASE Goto(r, "rejected") /\ UNCHANGED input
  <2>1. Located(r)'
    BY <1>2, <1>3 DEF Located, Goto
  <2>2. QED
    BY <1>1, <1>2, <1>3, <2>1, NoWrite DEF Finished
<1>4. CASE \E in \in Input :
              /\ Valid(in) /\ input' = [input EXCEPT ![r] = in]
              /\ Goto(r, IF in.op = "create" THEN "begin" ELSE "find")
  <2>1. PICK in \in Input :
              /\ Valid(in) /\ input' = [input EXCEPT ![r] = in]
              /\ Goto(r, IF in.op = "create" THEN "begin" ELSE "find")
    BY <1>4
  <2>2. PICK l : l = IF in.op = "create" THEN "begin" ELSE "find"
    OBVIOUS
  <2>3. /\ l \in {"begin", "find"} /\ Goto(r, l) /\ input'[r] = in
        /\ input' \in [Requests -> Input \cup {NoRow}]
        /\ \A q \in Requests : q # r => input'[q] = input[q]
    BY <1>2, <2>1, <2>2
  <2>4. Located(r)'
    BY <1>2, <2>2, <2>3 DEF Located, Goto
  <2>5. QED
    BY <1>1, <1>2, <2>1, <2>3, <2>4, NoWrite DEF Handling
<1> QED
  BY <1>1, <1>3, <1>4

\* findOwned finds an item: it has an event, since items match their last events.
LEMMA FindStep ==
  ASSUME ServiceInv, NEW r \in Requests, FindOwned(r)
  PROVE  ServiceInv'
<1>1. /\ pc[r] = "find" /\ UNCHANGED <<items, outbox, input, clock, began, jobCalls, lastWrite>>
      /\ Goto(r, IF Owned(input[r].item, input[r].tenant) THEN "begin" ELSE "notFound")
  BY DEF FindOwned
<1>2. /\ r \notin Rows /\ clock \in Nat /\ began[r] <= clock /\ jobCalls \subseteq Requests
      /\ began \in [Requests -> Nat] /\ input \in [Requests -> Input \cup {NoRow}]
      /\ pc \in [Requests -> Handling \cup Finished]
      /\ input[r] \in Input /\ Valid(input[r])
  BY <1>1 DEF ServiceInv, RowPhase, Times, ServiceTypeOK, InputValid
<1>3. PICK l : l = IF Owned(input[r].item, input[r].tenant) THEN "begin" ELSE "notFound"
  OBVIOUS
<1>4. pc'[r] = l
  BY <1>1, <1>2, <1>3 DEF Goto
<1>5. Located(r)'
  <2>1. ASSUME l = "begin", input[r].op # "create"
        PROVE  \E q \in Rows : outbox[q].item = input[r].item
    <3>1. input[r].item \in Items /\ items[input[r].item] # NoItem
      BY <1>2, <1>3, <2>1, RequestFields DEF Owned
    <3>2. QED
      BY <3>1 DEF ServiceInv, ItemsMatchLastEvent
  <2>2. QED
    BY <1>1, <1>3, <1>4, <2>1 DEF Located, Rows
<1>6. l \in {"begin", "notFound"} /\ Goto(r, l)
  BY <1>1, <1>3
<1> QED
  BY <1>1, <1>2, <1>5, <1>6, NoWrite DEF Handling, Finished

\* now() of the transaction is no earlier than any row's.
LEMMA BeginStep ==
  ASSUME ServiceInv, NEW r \in Requests, Begin(r)
  PROVE  ServiceInv'
<1>1. /\ pc[r] = "begin" /\ UNCHANGED <<items, outbox, input, jobCalls, lastWrite>>
      /\ Goto(r, "open") /\ clock' \in {clock, clock + 1}
      /\ began' = [began EXCEPT ![r] = clock']
  BY DEF Begin
<1>2. /\ r \notin Rows /\ clock \in Nat /\ jobCalls \subseteq Requests
      /\ began \in [Requests -> Nat] /\ input \in [Requests -> Input \cup {NoRow}]
      /\ pc \in [Requests -> Handling \cup Finished]
      /\ input[r] \in Input /\ Valid(input[r])
  BY <1>1 DEF ServiceInv, RowPhase, ServiceTypeOK, InputValid
<1>3. /\ clock' \in Nat /\ clock <= clock' /\ began'[r] = clock'
      /\ began' \in [Requests -> Nat]
      /\ \A q \in Requests : q # r => began'[q] = began[q]
  BY <1>1, <1>2
<1>4. Located(r)'
  <2>1. \A q \in Rows : outbox[q].created_at <= clock'
    <3>1. \A q \in Rows : outbox[q].created_at \in Nat /\ outbox[q].created_at <= clock
      BY DEF ServiceInv, Times, Rows, ServiceTypeOK, DbTypeOK, OutboxRow
    <3>2. QED
      BY <1>2, <1>3, <3>1
  <2>2. Located(r)
    BY DEF ServiceInv
  <2>3. QED
    BY <1>1, <1>3, <2>1, <2>2 DEF Located, Rows
<1>5. began'[r] <= clock'
  BY <1>3
<1> QED
  BY <1>1, <1>2, <1>3, <1>4, <1>5, NoWrite DEF Handling

LEMMA EndStep ==
  ASSUME ServiceInv, NEW r \in Requests, CommitMiss(r) \/ Respond(r) \/ Fail(r)
  PROVE  ServiceInv'
<1>1. /\ UNCHANGED <<items, outbox, input, clock, began, lastWrite>>
      /\ jobCalls' \subseteq jobCalls \cup {r}
      /\ \/ pc[r] = "open" /\ Goto(r, "notFound")
         \/ pc[r] = "committed" /\ Goto(r, "done")
         \/ pc[r] \in {"find", "begin", "open", "committed"} /\ Goto(r, "failed")
  BY DEF CommitMiss, Respond, Fail
<1>2. /\ clock \in Nat /\ began[r] <= clock /\ jobCalls \subseteq Requests
      /\ began \in [Requests -> Nat] /\ input \in [Requests -> Input \cup {NoRow}]
      /\ pc \in [Requests -> Handling \cup Finished]
      /\ input[r] \in Input /\ Valid(input[r])
      /\ r \in Rows => pc[r] \in {"committed", "done", "failed"}
      /\ pc[r] \in {"committed", "done"} => r \in Rows
  BY <1>1 DEF ServiceInv, RowPhase, Times, ServiceTypeOK, InputValid
<1>3. Located(r)'
  BY <1>1, <1>2 DEF Located, Goto
<1>4. PICK l \in {"notFound", "done", "failed"} :
         /\ Goto(r, l)
         /\ r \in Rows => l \in {"committed", "done", "failed"}
         /\ l \in {"committed", "done"} => r \in Rows
  BY <1>1, <1>2
<1>5. l \in Handling \cup Finished /\ clock <= clock' /\ jobCalls' \subseteq Requests
  BY <1>1, <1>2 DEF Finished
<1> QED
  BY <1>1, <1>2, <1>3, <1>4, <1>5, NoWrite

--------------------------------------------------------------------------------
(***************************************************************************)
(* A commit.                                                               *)
(***************************************************************************)

\* What the three kinds of transaction have in common: r writes row for item i, and
\* an event of the type that belongs to what the row becomes.
Commits(r, i, row, type, title) ==
  /\ pc[r] = "open" /\ i \in Items
  /\ row \in ItemRow \cup {NoItem} /\ type \in EventTypes /\ title \in Titles \cup {NoTitle}
  /\ type = "created" => Fresh(i)
  /\ type # "created" =>
        /\ input[r].op # "create" /\ i = input[r].item
        /\ items[i] \in ItemRow /\ items[i].tenant = input[r].tenant
  /\ type = "deleted" => row = NoItem
  /\ type # "deleted" =>
        row \in ItemRow /\ row.tenant = input[r].tenant /\ row.title = title
  /\ Write(r, i, row, type, title)

\* What a commit does to the tables: one new row, which is the item's last.
LEMMA CommitEffect ==
  ASSUME ServiceInv, NEW r \in Requests, NEW i, NEW row, NEW type, NEW title,
         Commits(r, i, row, type, title)
  PROVE  /\ outbox' \in [Requests -> OutboxRow \cup {NoRow}]
         /\ r \notin Rows /\ Rows' = Rows \cup {r}
         /\ \A q \in Requests : q # r => outbox'[q] = outbox[q]
         /\ outbox'[r].event_type = type /\ outbox'[r].item = i
         /\ outbox'[r].tenant = input[r].tenant /\ outbox'[r].title = title
         /\ outbox'[r].created_at = began[r]
         /\ items' = [items EXCEPT ![i] = row] /\ lastWrite' = [lastWrite EXCEPT ![i] = r]
         /\ Goto(r, "committed") /\ UNCHANGED <<input, clock, began, jobCalls>>
<1>1. /\ i \in Items /\ type \in EventTypes /\ title \in Titles \cup {NoTitle}
      /\ r \notin Rows /\ input[r].tenant \in Tenants /\ began[r] \in Nat
      /\ outbox \in [Requests -> OutboxRow \cup {NoRow}]
  BY RequestFields DEF Commits, ServiceInv, RowPhase, InputValid, ServiceTypeOK, DbTypeOK
<1>2. PICK new : new = NewRow(type, i, input[r].tenant, title, began[r])
  OBVIOUS
<1>3. /\ new \in OutboxRow /\ new # NoRow /\ new.event_type = type /\ new.item = i
      /\ new.tenant = input[r].tenant /\ new.title = title /\ new.created_at = began[r]
  BY <1>1, <1>2, InsertedRow
<1>4. outbox' = [outbox EXCEPT ![r] = new]
  BY <1>2 DEF Commits, Write
<1>5. outbox'[r] = new /\ \A q \in Requests : q # r => outbox'[q] = outbox[q]
  BY <1>1, <1>4
<1>6. Rows' = Rows \cup {r}
  BY <1>3, <1>5 DEF Rows
<1>7. outbox' \in [Requests -> OutboxRow \cup {NoRow}]
  BY <1>1, <1>3, <1>4
<1> QED
  BY <1>1, <1>3, <1>5, <1>6, <1>7 DEF Commits, Write

\* Every request's transaction creates, changes or removes an item in this form.
LEMMA TransactionCommits ==
  ASSUME ServiceInv, NEW r \in Requests,
         (\E i \in Items : CommitCreate(r, i)) \/ CommitUpdate(r) \/ CommitRemove(r)
  PROVE  \E i, row, type, title : Commits(r, i, row, type, title)
<1>1. pc[r] = "open"
  BY DEF CommitCreate, CommitUpdate, CommitRemove
<1>2. /\ input[r] \in Input /\ Valid(input[r])
      /\ items \in [Items -> ItemRow \cup {NoItem}]
  BY <1>1 DEF ServiceInv, InputValid, ServiceTypeOK, DbTypeOK
<1>3. ASSUME NEW i \in Items, CommitCreate(r, i)
      PROVE  \E x, row, type, title : Commits(r, x, row, type, title)
  <2>1. PICK row : row = [tenant |-> input[r].tenant, title |-> input[r].title]
    OBVIOUS
  <2>2. /\ input[r].op = "create" /\ Fresh(i)
        /\ Write(r, i, row, "created", input[r].title)
    BY <1>3, <2>1 DEF CommitCreate
  <2>3. input[r].title \in Titles /\ input[r].tenant \in Tenants
    BY <1>2, <2>2, RequestFields DEF Valid
  <2>4. row \in ItemRow /\ row.tenant = input[r].tenant /\ row.title = input[r].title
    BY <2>1, <2>3 DEF ItemRow
  <2>5. Commits(r, i, row, "created", input[r].title)
    BY <1>1, <2>2, <2>3, <2>4 DEF Commits, EventTypes
  <2>6. QED
    BY <2>5
<1>4. ASSUME CommitUpdate(r)
      PROVE  \E x, row, type, title : Commits(r, x, row, type, title)
  <2>1. PICK i : i = input[r].item
    OBVIOUS
  <2>2. PICK row : row = Patched(items[i], input[r].title)
    OBVIOUS
  <2>3. /\ input[r].op = "update" /\ Owned(i, input[r].tenant)
        /\ Write(r, i, row, "updated", row.title)
    BY <1>4, <2>1, <2>2 DEF CommitUpdate
  <2>4. i \in Items /\ input[r].title \in Titles \cup {NoTitle}
    BY <1>2, <2>1, <2>3, RequestFields DEF Valid
  <2>5. items[i] \in ItemRow /\ items[i].tenant = input[r].tenant
    BY <1>2, <2>3, <2>4 DEF Owned
  <2>6. row \in ItemRow /\ row.tenant = input[r].tenant
    BY <2>2, <2>4, <2>5, PatchedRow
  <2>7. row.title \in Titles
    BY <2>6 DEF ItemRow
  <2>8. Commits(r, i, row, "updated", row.title)
    BY <1>1, <2>1, <2>3, <2>4, <2>5, <2>6, <2>7 DEF Commits, EventTypes
  <2>9. QED
    BY <2>8
<1>5. ASSUME CommitRemove(r)
      PROVE  \E x, row, type, title : Commits(r, x, row, type, title)
  <2>1. PICK i : i = input[r].item
    OBVIOUS
  <2>2. /\ input[r].op = "remove" /\ Owned(i, input[r].tenant)
        /\ Write(r, i, NoItem, "deleted", NoTitle)
    BY <1>5, <2>1 DEF CommitRemove
  <2>3. i \in Items
    BY <1>2, <2>1, <2>2, RequestFields
  <2>4. items[i] \in ItemRow /\ items[i].tenant = input[r].tenant
    BY <1>2, <2>2, <2>3 DEF Owned
  <2>5. Commits(r, i, NoItem, "deleted", NoTitle)
    BY <1>1, <2>1, <2>2, <2>3, <2>4 DEF Commits, EventTypes
  <2>6. QED
    BY <2>5
<1> QED
  BY <1>3, <1>4, <1>5

LEMMA CommitStep ==
  ASSUME ServiceInv, NEW r \in Requests, NEW i, NEW row, NEW type, NEW title,
         Commits(r, i, row, type, title)
  PROVE  ServiceInv'
<1>1. /\ ServiceTypeOK /\ InputValid /\ RowPhase /\ Times /\ DeletedGone
      /\ \A q \in Requests : Located(q)
      /\ ItemsMatchLastEvent /\ LifeCycle
  BY DEF ServiceInv
<1>2. /\ outbox' \in [Requests -> OutboxRow \cup {NoRow}]
      /\ r \notin Rows /\ Rows' = Rows \cup {r}
      /\ \A q \in Requests : q # r => outbox'[q] = outbox[q]
      /\ outbox'[r].event_type = type /\ outbox'[r].item = i
      /\ outbox'[r].tenant = input[r].tenant /\ outbox'[r].title = title
      /\ outbox'[r].created_at = began[r]
      /\ items' = [items EXCEPT ![i] = row] /\ lastWrite' = [lastWrite EXCEPT ![i] = r]
      /\ Goto(r, "committed") /\ UNCHANGED <<input, clock, began, jobCalls>>
  BY CommitEffect
<1>3. /\ pc[r] = "open" /\ i \in Items
      /\ row \in ItemRow \cup {NoItem}
      /\ type \in {"created", "updated", "deleted"}
      /\ type = "created" => items[i] = NoItem /\ \A q \in Rows : outbox[q].item # i
      /\ type # "created" =>
            input[r].op # "create" /\ i = input[r].item /\ items[i] \in ItemRow
      /\ type = "deleted" => row = NoItem
      /\ type # "deleted" =>
            row \in ItemRow /\ row.tenant = input[r].tenant /\ row.title = title
  BY DEF Commits, Fresh, EventTypes
<1>4. /\ pc' \in [Requests -> Handling \cup Finished]
      /\ pc'[r] = "committed" /\ \A q \in Requests : q # r => pc'[q] = pc[q]
  BY <1>1, <1>2 DEF Goto, ServiceTypeOK, Handling
<1>5. \A q \in Rows : outbox'[q] = outbox[q]
  BY <1>2 DEF Rows
<1>6. items'[i] = row /\ \A j \in Items : j # i => items'[j] = items[j]
  BY <1>1, <1>2, <1>3 DEF ServiceTypeOK, DbTypeOK
<1>7. lastWrite'[i] = r /\ \A j \in Items : j # i => lastWrite'[j] = lastWrite[j]
  BY <1>1, <1>2, <1>3 DEF ServiceTypeOK
<1>8. NoItem \notin ItemRow
  BY SentinelAssumption
<1>9. ServiceTypeOK'
  BY <1>1, <1>2, <1>3, <1>4 DEF ServiceTypeOK, DbTypeOK
<1>10. InputValid'
  BY <1>1, <1>2, <1>3, <1>4 DEF InputValid, Valid
<1>11. RowPhase'
  BY <1>1, <1>2, <1>4 DEF RowPhase
<1>12. Times'
  BY <1>1, <1>2, <1>5 DEF Times
<1>13. DeletedGone'
  <2> SUFFICES ASSUME NEW q \in Rows', outbox'[q].event_type = "deleted"
               PROVE  items'[outbox'[q].item] = NoItem
    BY DEF DeletedGone
  <2>1. CASE q = r
    BY <1>2, <1>3, <1>6, <2>1
  <2>2. CASE q \in Rows
    <3>1. outbox[q].item \in Items /\ items[outbox[q].item] = NoItem
      BY <1>1, <1>5, <2>2 DEF DeletedGone, Rows, ServiceTypeOK, DbTypeOK, OutboxRow
    <3>2. outbox[q].item # i
      BY <1>3, <1>8, <2>2, <3>1
    <3>3. QED
      BY <1>5, <1>6, <2>2, <3>1, <3>2
  <2>3. QED
    BY <1>2, <2>1, <2>2
<1>14. ASSUME NEW q \in Requests PROVE Located(q)'
  <2> SUFFICES ASSUME pc'[q] \in {"begin", "open"}, input[q].op # "create"
               PROVE  /\ \E x \in Rows' : outbox'[x].item = input[q].item
                      /\ \A x \in Rows' :
                           (/\ pc'[q] = "open" /\ outbox'[x].item = input[q].item
                            /\ outbox'[x].event_type = "created")
                              => outbox'[x].created_at <= began[q]
    BY <1>2 DEF Located
  <2>1. q # r /\ pc'[q] = pc[q]
    BY <1>4
  <2>2. PICK x \in Rows : outbox[x].item = input[q].item
    BY <1>1, <2>1 DEF Located
  <2>3. x \in Rows' /\ outbox'[x].item = input[q].item
    BY <1>2, <1>5, <2>2
  <2>4. ~(outbox'[r].item = input[q].item /\ outbox'[r].event_type = "created")
    BY <1>2, <1>3, <2>2
  <2>5. QED
    BY <1>1, <1>2, <1>5, <2>1, <2>3, <2>4 DEF Located
<1>15. ItemsMatchLastEvent'
  <2> SUFFICES ASSUME NEW j \in Items
               PROVE  IF items'[j] = NoItem
                      THEN \/ lastWrite'[j] = NoRow
                           \/ /\ lastWrite'[j] \in Rows'
                              /\ outbox'[lastWrite'[j]].event_type = "deleted"
                      ELSE /\ lastWrite'[j] \in Rows'
                           /\ outbox'[lastWrite'[j]].event_type \in {"created", "updated"}
                           /\ outbox'[lastWrite'[j]].item = j
                           /\ outbox'[lastWrite'[j]].tenant = items'[j].tenant
                           /\ outbox'[lastWrite'[j]].title = items'[j].title
    BY DEF ItemsMatchLastEvent
  <2>1. CASE j = i
    BY <1>2, <1>3, <1>6, <1>7, <1>8, <2>1
  <2>2. CASE j # i
    BY <1>1, <1>2, <1>5, <1>6, <1>7, <2>2 DEF ItemsMatchLastEvent
  <2>3. QED
    BY <2>1, <2>2
<1>16. LifeCycle'
  <2>1. \A q \in Rows : outbox[q].created_at \in Nat
    BY <1>1 DEF Rows, ServiceTypeOK, DbTypeOK, OutboxRow
  <2>2. \A q \in Rows : outbox[q].item = i => outbox[q].event_type # "deleted" /\ type # "created"
    BY <1>1, <1>3, <1>8 DEF DeletedGone
  <2>3. \A q \in Rows : outbox[q].item = i /\ outbox[q].event_type = "created"
                           => outbox[q].created_at <= began[r]
    BY <1>1, <1>3, <2>2 DEF Located
  <2>4. began[r] <= began[r]
    BY <1>1 DEF ServiceTypeOK
  <2> SUFFICES ASSUME NEW p \in Rows', NEW q \in Rows', outbox'[p].item = outbox'[q].item
               PROVE  /\ (/\ outbox'[p].event_type = outbox'[q].event_type
                          /\ outbox'[p].event_type # "updated") => p = q
                      /\ outbox'[p].event_type = "created" =>
                            outbox'[p].created_at <= outbox'[q].created_at
    BY DEF LifeCycle
  <2>5. CASE p = r /\ q = r
    BY <1>2, <2>4, <2>5
  <2>6. CASE p = r /\ q \in Rows
    BY <1>2, <1>3, <1>5, <2>2, <2>6
  <2>7. CASE p \in Rows /\ q = r
    BY <1>2, <1>3, <1>5, <2>2, <2>3, <2>7
  <2>8. CASE p \in Rows /\ q \in Rows
    BY <1>1, <1>5, <2>8 DEF LifeCycle
  <2>9. QED
    BY <1>2, <2>5, <2>6, <2>7, <2>8
<1> QED
  BY <1>9, <1>10, <1>11, <1>12, <1>13, <1>14, <1>15, <1>16 DEF ServiceInv

\* A step of a handler keeps the tables and their history in order.
LEMMA HandleStep ==
  ASSUME ServiceInv, NEW r \in Requests, Handle(r)
  PROVE  ServiceInv'
<1>1. CASE Unavailable(r) \/ \E in \in Input : Receive(r, in)
  BY <1>1, ReceiveStep
<1>2. CASE FindOwned(r)
  BY <1>2, FindStep
<1>3. CASE Begin(r)
  BY <1>3, BeginStep
<1>4. CASE (\E i \in Items : CommitCreate(r, i)) \/ CommitUpdate(r) \/ CommitRemove(r)
  <2>1. PICK i, row, type, title : Commits(r, i, row, type, title)
    BY <1>4, TransactionCommits
  <2>2. QED
    BY <2>1, CommitStep
<1>5. CASE CommitMiss(r) \/ Respond(r) \/ Fail(r)
  BY <1>5, EndStep
<1> QED
  BY <1>1, <1>2, <1>3, <1>4, <1>5 DEF Handle

\* So does the end of the process: what was committed stays.
LEMMA StopStep ==
  ASSUME ServiceInv, Stop
  PROVE  ServiceInv'
<1>1. /\ ServiceTypeOK /\ InputValid /\ RowPhase /\ Times /\ DeletedGone
      /\ \A q \in Requests : Located(q)
      /\ ItemsMatchLastEvent /\ LifeCycle
  BY DEF ServiceInv
<1>2. /\ pc' = [r \in Requests |-> IF pc[r] \in Handling \ {"new"} THEN "failed" ELSE pc[r]]
      /\ UNCHANGED <<items, outbox, input, clock, began, jobCalls, lastWrite>>
  BY DEF Stop
<1>3. \A r \in Requests : pc'[r] = pc[r] \/ (pc'[r] = "failed" /\ pc[r] \notin {"new", "rejected", "done"})
  BY <1>2 DEF Handling
<1>4. ServiceTypeOK'
  BY <1>1, <1>2 DEF ServiceTypeOK, DbTypeOK, Finished
<1>5. InputValid' /\ RowPhase'
  BY <1>1, <1>2, <1>3 DEF InputValid, Valid, RowPhase, Rows
<1>6. Times' /\ DeletedGone' /\ ItemsMatchLastEvent' /\ LifeCycle'
  BY <1>1, <1>2 DEF Times, DeletedGone, ItemsMatchLastEvent, LifeCycle, Rows
<1>7. \A q \in Requests : Located(q)'
  BY <1>1, <1>2, <1>3 DEF Located, Rows
<1> QED
  BY <1>4, <1>5, <1>6, <1>7 DEF ServiceInv

--------------------------------------------------------------------------------
(***************************************************************************)
(* The publisher.                                                          *)
(***************************************************************************)

\* A handler's step other than Respond leaves the jobs as they are: done stays done,
\* and nobody else gets there.
LEMMA HandleLeavesJobs ==
  ASSUME ServiceInv, PublisherInv, NEW r \in Requests, Handle(r),
         r \notin jobCalls' \ jobCalls
  PROVE  /\ jobCalls' = jobCalls
         /\ \A q \in Requests : pc'[q] = "done" <=> pc[q] = "done"
         /\ \A q \in Rows : outbox'[q] # NoRow
<1>1. pc \in [Requests -> Handling \cup Finished]
  BY DEF ServiceInv, ServiceTypeOK
<1>2. ~Respond(r)
  <2>1. Respond(r) => r \in jobCalls
    BY DEF Respond
  <2>2. r \in jobCalls => pc[r] = "done"
    BY DEF PublisherInv, CallsDone
  <2>3. QED
    BY <2>1, <2>2 DEF Respond
<1>3. CASE (\E i \in Items : CommitCreate(r, i)) \/ CommitUpdate(r) \/ CommitRemove(r)
  <2>1. PICK i, row, type, title : Commits(r, i, row, type, title)
    BY <1>3, TransactionCommits
  <2>2. /\ r \notin Rows /\ \A q \in Requests : q # r => outbox'[q] = outbox[q]
        /\ pc[r] = "open" /\ Goto(r, "committed") /\ UNCHANGED jobCalls
    BY <2>1, CommitEffect DEF Commits
  <2>3. QED
    BY <1>1, <2>2 DEF Goto, Rows
<1>4. CASE \/ Unavailable(r) \/ (\E in \in Input : Receive(r, in)) \/ FindOwned(r)
           \/ Begin(r) \/ CommitMiss(r) \/ Fail(r)
  <2>1. /\ UNCHANGED <<outbox, jobCalls>> /\ pc[r] # "done"
        /\ \E l : l # "done" /\ Goto(r, l)
    BY <1>4 DEF Unavailable, Receive, FindOwned, Begin, CommitMiss, Fail
  <2>2. QED
    BY <1>1, <2>1 DEF Goto, Rows
<1> QED
  BY <1>2, <1>3, <1>4 DEF Handle

\* A job that is published finds the channel, or waits for it, or opens it; without a
\* broker it is skipped.
LEMMA PublishStep ==
  ASSUME ServiceInv, PublisherInv, NEW r \in Requests, Handle(r),
         r \in jobCalls' \ jobCalls, Jobs!publish(r)
  PROVE  PublisherInv'
<1>1. Respond(r)
  BY CommitEffect, TransactionCommits
  DEF Handle, Unavailable, Receive, FindOwned, Begin, CommitMiss, Fail
<1>2. /\ pc[r] = "committed" /\ pc' = [pc EXCEPT ![r] = "done"] /\ UNCHANGED outbox
      /\ jobCalls' = jobCalls \cup {r}
  BY <1>1 DEF Respond, Goto
<1>3. outbox[r] # NoRow /\ pc \in [Requests -> Handling \cup Finished]
  BY <1>2 DEF ServiceInv, RowPhase, Rows, ServiceTypeOK
<1>4. /\ pub[r] = "none"
      /\ connecting' = IF enabled /\ ch = "null" /\ connecting = "null" THEN "connect" ELSE connecting
      /\ pub' = [pub EXCEPT ![r] = IF ~enabled THEN "skipped"
                                   ELSE IF ch # "null" THEN "ready"
                                   ELSE IF connecting = "rejected" THEN "lost" ELSE "waiting"]
      /\ UNCHANGED <<enabled, ch, bound, faulted>>
  BY DEF Jobs!publish, Jobs!ensureChannel
<1>5. /\ Jobs!PublisherTypeOK /\ CallsDone /\ Connection /\ ReadyToSend /\ JobsAccounted
  BY DEF PublisherInv
<1>6. pub'[r] # "none" /\ \A q \in Requests : q # r => pub'[q] = pub[q]
  BY <1>4, <1>5 DEF Jobs!PublisherTypeOK
<1>7. Jobs!PublisherTypeOK'
  BY <1>4, <1>5 DEF Jobs!PublisherTypeOK
<1>8. CallsDone'
  BY <1>2, <1>3, <1>5 DEF CallsDone, ServiceInv, ServiceTypeOK
<1>9. Connection'
  BY <1>4, <1>5, <1>6 DEF Connection
<1>10. ReadyToSend'
  <2>1. pub'[r] = "ready" => ch # "null" /\ \E q \in Requests \ {r} : pub[q] # "none"
    BY <1>4, <1>5 DEF Connection, Jobs!PublisherTypeOK
  <2>2. QED
    BY <1>4, <1>5, <1>6, <2>1 DEF ReadyToSend
<1>11. JobsAccounted'
  <2>1. pub'[r] = "lost" => faulted
    BY <1>4, <1>5 DEF Connection, Jobs!PublisherTypeOK
  <2>2. pub'[r] # "unrouted"
    BY <1>4, <1>5 DEF Jobs!PublisherTypeOK
  <2>3. pub'[r] = "skipped" <=> ~enabled
    BY <1>4, <1>5 DEF Jobs!PublisherTypeOK
  <2>4. \A q \in Requests : q # r => pc'[q] = pc[q]
    BY <1>2, <1>3
  <2>5. QED
    BY <1>2, <1>3, <1>4, <1>5, <1>6, <2>1, <2>2, <2>3, <2>4 DEF JobsAccounted
<1> QED
  BY <1>7, <1>8, <1>9, <1>10, <1>11 DEF PublisherInv

\* The publisher's own steps.  No job goes back to not having been published, so who
\* was there stays there.
LEMMA PublisherStep ==
  ASSUME PublisherInv, Jobs!PublisherNext, UNCHANGED <<pc, outbox, jobCalls>>
  PROVE  PublisherInv'
<1>1. /\ Jobs!PublisherTypeOK /\ CallsDone /\ Connection /\ ReadyToSend /\ JobsAccounted
  BY DEF PublisherInv
<1>2. CallsDone'
  BY <1>1 DEF CallsDone
<1>3. CASE Jobs!Connected
  BY <1>1, <1>2, <1>3
  DEF Jobs!Connected, Jobs!PublisherTypeOK, PublisherInv, Connection, ReadyToSend, JobsAccounted
<1>4. CASE Jobs!declareTopology
  <2>1. /\ ch = "open" /\ UNCHANGED <<enabled, ch>> /\ connecting' = "resolved" /\ bound' = TRUE
        /\ connecting # "null" /\ faulted' = faulted
        /\ pub' = [r \in Requests |-> IF pub[r] = "waiting" THEN "ready" ELSE pub[r]]
    BY <1>4 DEF Jobs!declareTopology, Jobs!Settle
  <2>2. \A r \in Requests : pub'[r] = pub[r] \/ (pub[r] = "waiting" /\ pub'[r] = "ready")
    BY <2>1
  <2>3. Jobs!PublisherTypeOK'
    BY <1>1, <2>1 DEF Jobs!PublisherTypeOK
  <2>4. Connection' /\ ReadyToSend'
    BY <1>1, <2>1, <2>2 DEF Connection, ReadyToSend
  <2>5. JobsAccounted'
    BY <1>1, <2>1, <2>2 DEF JobsAccounted
  <2>6. QED
    BY <1>2, <2>3, <2>4, <2>5 DEF PublisherInv
<1>5. CASE Jobs!ConnectErrs
  <2>1. /\ connecting # "null" /\ connecting' = "rejected" /\ faulted' = TRUE
        /\ UNCHANGED <<enabled, bound>>
        /\ ch' = IF ch = "null" THEN "null" ELSE "closed"
        /\ pub' = [r \in Requests |-> IF pub[r] = "waiting" THEN "lost" ELSE pub[r]]
    BY <1>5 DEF Jobs!ConnectErrs, Jobs!Settle
  <2>2. \A r \in Requests : pub'[r] = pub[r] \/ (pub[r] = "waiting" /\ pub'[r] = "lost")
    BY <2>1
  <2>3. Jobs!PublisherTypeOK'
    BY <1>1, <2>1 DEF Jobs!PublisherTypeOK
  <2>4. Connection' /\ ReadyToSend'
    BY <1>1, <2>1, <2>2 DEF Connection, ReadyToSend
  <2>5. JobsAccounted'
    BY <1>1, <2>1, <2>2 DEF JobsAccounted
  <2>6. QED
    BY <1>2, <2>3, <2>4, <2>5 DEF PublisherInv
<1>6. CASE Jobs!ChannelCloses
  BY <1>1, <1>2, <1>6
  DEF Jobs!ChannelCloses, Jobs!PublisherTypeOK, PublisherInv, Connection, ReadyToSend,
      JobsAccounted
<1>7. CASE Jobs!WorkerDeclares
  BY <1>1, <1>2, <1>7
  DEF Jobs!WorkerDeclares, Jobs!PublisherTypeOK, PublisherInv, Connection, ReadyToSend,
      JobsAccounted
<1>8. ASSUME NEW r \in Requests, Jobs!Send(r) PROVE PublisherInv'
  <2>1. /\ pub[r] = "ready" /\ UNCHANGED <<enabled, ch, connecting, bound, faulted>>
        /\ pub' = [pub EXCEPT ![r] = IF ch # "open" THEN "lost"
                                     ELSE IF bound THEN "queued" ELSE "unrouted"]
    BY <1>8 DEF Jobs!Send
  <2>2. /\ pub'[r] \in {"lost", "queued", "unrouted"}
        /\ pub'[r] = "lost" => faulted
        /\ pub'[r] = "unrouted" => ~bound
        /\ \A q \in Requests : q # r => pub'[q] = pub[q]
    BY <1>1, <2>1 DEF Jobs!PublisherTypeOK, ReadyToSend, Connection
  <2>3. Jobs!PublisherTypeOK'
    BY <1>1, <2>1 DEF Jobs!PublisherTypeOK
  <2>4. Connection' /\ ReadyToSend'
    BY <1>1, <2>1, <2>2 DEF Connection, ReadyToSend
  <2>5. JobsAccounted'
    BY <1>1, <2>1, <2>2 DEF JobsAccounted, ReadyToSend
  <2>6. QED
    BY <1>2, <2>3, <2>4, <2>5 DEF PublisherInv
<1> QED
  BY <1>3, <1>4, <1>5, <1>6, <1>7, <1>8 DEF Jobs!PublisherNext

--------------------------------------------------------------------------------
(***************************************************************************)
(* The process.                                                            *)
(***************************************************************************)

LEMMA BusinessInductive == BusinessInv /\ [BusinessNext]_processVars => BusinessInv'
<1> SUFFICES ASSUME BusinessInv, [BusinessNext]_processVars PROVE BusinessInv'
  OBVIOUS
<1>1. ServiceInv /\ PublisherInv
  BY DEF BusinessInv
<1>2. ASSUME NEW r \in Requests, HandleAndPublish(r) PROVE BusinessInv'
  <2>1. ServiceInv'
    BY <1>1, <1>2, HandleStep DEF HandleAndPublish
  <2>2. CASE r \in jobCalls' \ jobCalls
    BY <1>1, <1>2, <2>1, <2>2, PublishStep DEF HandleAndPublish, BusinessInv
  <2>3. CASE r \notin jobCalls' \ jobCalls
    <3>1. /\ jobCalls' = jobCalls /\ UNCHANGED <<enabled, ch, connecting, bound, pub, faulted>>
          /\ \A q \in Requests : pc'[q] = "done" <=> pc[q] = "done"
          /\ \A q \in Rows : outbox'[q] # NoRow
      BY <1>1, <1>2, <2>3, HandleLeavesJobs DEF HandleAndPublish, publisherVars
    <3>2. jobCalls \subseteq Requests
      BY <1>1 DEF ServiceInv, ServiceTypeOK
    <3>3. PublisherInv'
      BY <1>1, <3>1, <3>2
      DEF PublisherInv, Jobs!PublisherTypeOK, CallsDone, Connection, ReadyToSend, JobsAccounted,
          Rows
    <3>4. QED
      BY <2>1, <3>3 DEF BusinessInv
  <2>4. QED
    BY <2>2, <2>3
<1>3. CASE Jobs!PublisherNext /\ UNCHANGED <<serviceVars, outbox>>
  <2>1. UNCHANGED <<items, outbox, pc, input, clock, began, jobCalls, lastWrite>>
    BY <1>3 DEF serviceVars
  <2>2. ServiceInv'
    BY <1>1, <2>1
    DEF ServiceInv, ServiceTypeOK, DbTypeOK, InputValid, Valid, RowPhase, Times, DeletedGone,
        Located, ItemsMatchLastEvent, LifeCycle, Rows
  <2>3. QED
    BY <1>1, <1>3, <2>1, <2>2, PublisherStep DEF BusinessInv
<1>4. CASE Stop
  <2>1. ServiceInv'
    BY <1>1, <1>4, StopStep
  <2>2. /\ ch' = "null" /\ connecting' = "null" /\ faulted' = TRUE /\ UNCHANGED <<enabled, bound>>
        /\ pub' = [r \in Requests |-> IF pub[r] \in {"waiting", "ready"} THEN "lost" ELSE pub[r]]
        /\ UNCHANGED <<outbox, jobCalls>>
    BY <1>4 DEF Stop, Jobs!StopPublisher
  <2>3. \A r \in Requests : pub'[r] = pub[r] \/ (pub[r] \in {"waiting", "ready"} /\ pub'[r] = "lost")
    BY <2>2
  <2>4. \A r \in Requests : pc'[r] = "done" <=> pc[r] = "done"
    BY <1>4 DEF Stop, Handling
  <2>5. Jobs!PublisherTypeOK'
    BY <1>1, <2>2 DEF PublisherInv, Jobs!PublisherTypeOK
  <2>6. CallsDone' /\ Connection'
    BY <1>1, <2>2, <2>4
    DEF PublisherInv, CallsDone, Connection, ServiceInv, ServiceTypeOK
  <2>7. ReadyToSend'
    BY <2>2 DEF ReadyToSend
  <2>8. JobsAccounted'
    BY <1>1, <2>2, <2>3, <2>4 DEF PublisherInv, JobsAccounted
  <2>9. QED
    BY <2>1, <2>5, <2>6, <2>7, <2>8 DEF BusinessInv, PublisherInv
<1>5. CASE UNCHANGED processVars
  <2>1. /\ UNCHANGED <<items, outbox, pc, input, clock, began, jobCalls, lastWrite>>
        /\ UNCHANGED <<enabled, ch, connecting, bound, pub, faulted>>
    BY <1>5 DEF processVars, serviceVars, publisherVars
  <2>2. ServiceInv'
    BY <1>1, <2>1
    DEF ServiceInv, ServiceTypeOK, DbTypeOK, InputValid, Valid, RowPhase, Times, DeletedGone,
        Located, ItemsMatchLastEvent, LifeCycle, Rows
  <2>3. PublisherInv'
    BY <1>1, <2>1
    DEF PublisherInv, Jobs!PublisherTypeOK, CallsDone, Connection, ReadyToSend, JobsAccounted
  <2>4. QED
    BY <2>2, <2>3 DEF BusinessInv
<1> QED
  BY <1>2, <1>3, <1>4, <1>5 DEF BusinessNext

LEMMA BusinessInvariant == BusinessSpec => []BusinessInv
<1>1. BusinessInit => BusinessInv
  <2> SUFFICES ASSUME BusinessInit PROVE ServiceInv /\ PublisherInv
    BY DEF BusinessInv
  <2>1. Rows = {}
    BY DEF BusinessInit, ServiceInit, DbInit, Rows
  <2>2. ServiceTypeOK
    BY DEF BusinessInit, ServiceInit, DbInit, ServiceTypeOK, DbTypeOK, Handling
  <2>3. InputValid /\ RowPhase /\ Times /\ DeletedGone /\ LifeCycle
    BY <2>1 DEF BusinessInit, ServiceInit, InputValid, RowPhase, Times, DeletedGone, LifeCycle
  <2>4. ItemsMatchLastEvent /\ \A r \in Requests : Located(r)
    BY <2>1 DEF BusinessInit, ServiceInit, DbInit, ItemsMatchLastEvent, Located
  <2>5. PublisherInv
    BY DEF BusinessInit, ServiceInit, Jobs!PublisherInit, PublisherInv, Jobs!PublisherTypeOK,
           CallsDone, Connection, ReadyToSend, JobsAccounted
  <2>6. QED
    BY <2>2, <2>3, <2>4, <2>5 DEF ServiceInv
<1> QED
  BY <1>1, BusinessInductive, PTL DEF BusinessSpec

\* business_items and business_outbox, the handlers and the publisher keep their
\* types: an item that exists always has a tenant and a proper title.
THEOREM BusinessTypeCorrect == BusinessSpec => []BusinessTypeOK
<1>1. BusinessInv => BusinessTypeOK
  BY DEF BusinessInv, ServiceInv, PublisherInv, BusinessTypeOK
<1> QED
  BY <1>1, BusinessInvariant, PTL

\* However writes race and wherever handlers die, the last event of an item says
\* whether it exists, and with which tenant and title.
THEOREM LastEventTells == BusinessSpec => []ItemsMatchLastEvent
<1>1. BusinessInv => ItemsMatchLastEvent
  BY DEF BusinessInv, ServiceInv
<1> QED
  BY <1>1, BusinessInvariant, PTL

\* An item is created once and deleted at most once, and none of its events is dated
\* before its creation, although created_at is read at BEGIN and commits come in any
\* order.
THEOREM OneLife == BusinessSpec => []LifeCycle
<1>1. BusinessInv => LifeCycle
  BY DEF BusinessInv, ServiceInv
<1> QED
  BY <1>1, BusinessInvariant, PTL

\* A job is published only for a committed event; an answered request's job is lost
\* only to a fault, dropped by a broker that has no queue only when another job had
\* opened the channel, and skipped just where RABBITMQ_URL names no broker.
THEOREM JobsKept == BusinessSpec => []JobsAccounted
<1>1. BusinessInv => JobsAccounted
  BY DEF BusinessInv, PublisherInv
<1> QED
  BY <1>1, BusinessInvariant, PTL

\* A step that changes an item adds the item's event in that step, under the tenant
\* that owns it.
THEOREM WritesLogged == BusinessSpec => WriteIsOwnAndLogged
<1> DEFINE Logged ==
      \A i \in Items :
        items'[i] # items[i] =>
           \E r \in Requests :
              /\ outbox[r] = NoRow /\ outbox'[r] # NoRow
              /\ outbox'[r].item = i
              /\ items[i] # NoItem => outbox'[r].tenant = items[i].tenant
              /\ items'[i] # NoItem => outbox'[r].tenant = items'[i].tenant
<1>1. ASSUME ServiceInv, NEW r \in Requests, Handle(r) PROVE Logged
  <2>1. CASE (\E i \in Items : CommitCreate(r, i)) \/ CommitUpdate(r) \/ CommitRemove(r)
    <3>1. PICK i, row, type, title : Commits(r, i, row, type, title)
      BY <1>1, <2>1, TransactionCommits
    <3>2. /\ r \notin Rows /\ r \in Rows' /\ outbox'[r].item = i
          /\ outbox'[r].tenant = input[r].tenant /\ items' = [items EXCEPT ![i] = row]
      BY <1>1, <3>1, CommitEffect
    <3>3. /\ i \in Items /\ items \in [Items -> ItemRow \cup {NoItem}]
          /\ items[i] # NoItem => items[i].tenant = input[r].tenant
          /\ row # NoItem => row.tenant = input[r].tenant
      BY <1>1, <3>1 DEF Commits, Fresh, ServiceInv, ServiceTypeOK, DbTypeOK
    <3>4. items'[i] = row /\ \A j \in Items : j # i => items'[j] = items[j]
      BY <3>2, <3>3
    <3>5. outbox[r] = NoRow /\ outbox'[r] # NoRow
      BY <3>2 DEF Rows
    <3>6. QED
      BY <3>2, <3>3, <3>4, <3>5
  <2>2. CASE UNCHANGED items
    BY <2>2
  <2>3. QED
    BY <1>1, <2>1, <2>2
    DEF Handle, Unavailable, Receive, FindOwned, Begin, CommitMiss, Respond, Fail
<1>2. BusinessInv /\ [BusinessNext]_processVars => [Logged]_<<serviceVars, outbox>>
  <2> SUFFICES ASSUME BusinessInv, [BusinessNext]_processVars PROVE Logged \/ UNCHANGED <<serviceVars, outbox>>
    OBVIOUS
  <2>1. CASE \E r \in Requests : HandleAndPublish(r)
    BY <1>1, <2>1 DEF BusinessInv, HandleAndPublish
  <2>2. CASE Stop
    BY <2>2 DEF Stop
  <2>3. CASE UNCHANGED processVars
    BY <2>3 DEF processVars
  <2>4. QED
    BY <2>1, <2>2, <2>3 DEF BusinessNext
<1> QED
  BY <1>2, BusinessInvariant, PTL DEF BusinessSpec, WriteIsOwnAndLogged

================================================================================
