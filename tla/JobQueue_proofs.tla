---------------------------- MODULE JobQueue_proofs ----------------------------
(***************************************************************************)
(* Proofs about JobQueue, for every set of messages, jobs and workers,     *)
(* every prefetch and every retry limit.                                   *)
(*                                                                         *)
(* InOnePlace counts; its inductive form Places says the same with sets: a *)
(* message is held by at most one consumer, the held messages and the      *)
(* broker's three sets are disjoint, and together they are what has been   *)
(* published.  AckedHasEffect is not inductive either: the answer is given *)
(* after the insert and reaches the broker later, so AnswerBacked says it  *)
(* already of the answer that is on its way.                               *)
(***************************************************************************)
EXTENDS JobPipeline, BusinessService_proofs, TLAPS, FiniteSetTheorems

Published == {m \in Messages : body[m] # None}

\* What one consumer holds, no other does, nor does the broker.
HeldApart ==
  /\ \A v, w \in Workers : v # w => held[v] \cap held[w] = {}
  /\ \A w \in Workers : held[w] \cap (queue \cup dlq \cup acked) = {}

\* The broker keeps a message in one of its sets.
BrokerApart == queue \cap dlq = {} /\ queue \cap acked = {} /\ dlq \cap acked = {}

\* What is somewhere is what has been published.
Accounted ==
  /\ queue \cup dlq \cup acked \subseteq Published
  /\ \A w \in Workers : held[w] \subseteq Published
  /\ \A m \in Published : m \in queue \cup dlq \cup acked \/ \E w \in Workers : m \in held[w]

Places == HeldApart /\ BrokerApart /\ Accounted

\* An item job is only going to be acknowledged once its row is there.
AnswerBacked ==
  \A w \in Workers :
     (verdict[w] # None /\ verdict[w].answer = "ack") =>
        LET b == body[verdict[w].m] IN b.kind = "item" => effects[b.id] # None

Inv == TypeOK /\ Places /\ AnswerBacked /\ AckedHasEffect

--------------------------------------------------------------------------------
(***************************************************************************)
(* Type correctness.                                                       *)
(***************************************************************************)

\* What a consumer is told about a message it holds keeps the types.
LEMMA AnswerTyped ==
  ASSUME TypeOK, NEW w \in Workers, NEW m \in Messages,
         NEW a \in {"ack", "requeue", "reject"}, CanHandle(w, m), Answer(w, m, a)
  PROVE  /\ verdict' \in [Workers -> Verdict \cup {None}]
         /\ verdict'[w] = [m |-> m, answer |-> a]
         /\ \A v \in Workers : v # w => verdict'[v] = verdict[v]
         /\ \A v \in Workers : verdict'[v] # None => verdict'[v].m \in held[v]
  <1>1. [m |-> m, answer |-> a] \in Verdict
    BY DEF Verdict
  <1>2. verdict' = [verdict EXCEPT ![w] = [m |-> m, answer |-> a]]
    BY DEF Answer
  <1>3. QED
    BY <1>1, <1>2 DEF TypeOK, CanHandle

\* The insert leaves rows that are there alone and writes the one that is missing.
LEMMA RecordWrites ==
  ASSUME TypeOK, NEW m \in Messages, body[m] \in Body, Record(m)
  PROVE  /\ effects' \in [JobIds -> Messages \cup {None}]
         /\ \A j \in JobIds : effects[j] # None => effects'[j] = effects[j]
         /\ \A j \in JobIds : effects'[j] # effects[j] => j = body[m].id /\ effects'[j] = m
         /\ effects'[body[m].id] # None
  <1>1. body[m].id \in JobIds
    BY DEF Body
  <1>2. effects' = [effects EXCEPT ![body[m].id] = IF @ = None THEN m ELSE @]
    BY DEF Record
  <1>3. m # None
    BY JobSentinelAssumption
  <1>4. QED
    BY <1>1, <1>2, <1>3 DEF TypeOK

\* A consumer that goes away keeps the types.
LEMMA ReleaseTyped ==
  ASSUME TypeOK, NEW w \in Workers, Release(w)
  PROVE  /\ queue' \subseteq Messages
         /\ held' \in [Workers -> SUBSET Messages]
         /\ verdict' \in [Workers -> Verdict \cup {None}]
         /\ \A v \in Workers : verdict'[v] # None => verdict'[v].m \in held'[v]
  BY DEF Release, TypeOK

\* A held message has been published.
LEMMA HeldIsPublished ==
  ASSUME TypeOK, Places, NEW w \in Workers, NEW m \in Messages, m \in held[w]
  PROVE  body[m] # None /\ body[m] \in Body
  BY DEF Places, Accounted, Published, TypeOK

\* Every step keeps the types, given that only published messages are held.
LEMMA TypeStep == TypeOK /\ Places /\ [Next]_vars => TypeOK'
<1> SUFFICES ASSUME TypeOK, Places, [Next]_vars PROVE TypeOK'
  OBVIOUS
<1>1. ASSUME NEW m \in Messages, NEW b \in Body, Publish(m, b) PROVE TypeOK'
  BY <1>1 DEF TypeOK, Publish
<1>2. ASSUME NEW w \in Workers, NEW m \in Messages, Deliver(w, m) PROVE TypeOK'
  BY <1>2 DEF TypeOK, Deliver
<1>3. ASSUME NEW w \in Workers, NEW m \in Messages, HandleMalformed(w, m) PROVE TypeOK'
  BY <1>3, AnswerTyped DEF TypeOK, HandleMalformed, broker
<1>4. ASSUME NEW w \in Workers, NEW m \in Messages, HandleOther(w, m) PROVE TypeOK'
  BY <1>4, AnswerTyped DEF TypeOK, HandleOther, broker
<1>5. ASSUME NEW w \in Workers, NEW m \in Messages, HandleItem(w, m) PROVE TypeOK'
  <2>1. body[m] \in Body
    BY <1>5, HeldIsPublished DEF HandleItem, CanHandle
  <2>2. QED
    BY <1>5, <2>1, AnswerTyped, RecordWrites DEF TypeOK, HandleItem, broker
<1>6. ASSUME NEW w \in Workers, NEW m \in Messages, HandleError(w, m) PROVE TypeOK'
  <2>1. body[m] \in Body
    BY <1>6, HeldIsPublished DEF HandleError, CanHandle
  <2>2. PICK a \in {"requeue", "reject"} : Answer(w, m, a)
    BY <1>6 DEF HandleError
  <2>3. effects' \in [JobIds -> Messages \cup {None}]
    BY <1>6, <2>1, RecordWrites DEF TypeOK, HandleError
  <2>4. QED
    BY <1>6, <2>2, <2>3, AnswerTyped DEF TypeOK, HandleError, broker
<1>7. ASSUME NEW w \in Workers, NEW m \in Messages, HandleItemNilStore(w, m) PROVE TypeOK'
  <2>1. Release(w) /\ state' = [state EXCEPT ![w] = "dead"] /\ UNCHANGED <<store, effects>>
    BY <1>7 DEF HandleItemNilStore
  <2>2. QED
    BY <2>1, ReleaseTyped DEF TypeOK, Release
<1>8. ASSUME NEW w \in Workers, Settle(w) PROVE TypeOK'
  <2>1. verdict[w] \in Verdict /\ verdict[w].m \in Messages
    BY <1>8 DEF Settle, TypeOK, Verdict
  <2>2. \A v \in Workers : verdict'[v] # None => v # w /\ verdict'[v] = verdict[v] /\ held'[v] = held[v]
    BY <1>8 DEF Settle, TypeOK
  <2>3. xdeath' \in [Messages -> Nat]
    BY <1>8, <2>1 DEF Settle, TypeOK
  <2>4. QED
    BY <1>8, <2>1, <2>2, <2>3 DEF Settle, TypeOK
<1>9. ASSUME NEW w \in Workers, ChannelCloses(w) PROVE TypeOK'
  <2>1. Release(w) /\ state' = [state EXCEPT ![w] = "stopped"] /\ UNCHANGED <<store, effects>>
    BY <1>9 DEF ChannelCloses
  <2>2. QED
    BY <2>1, ReleaseTyped DEF TypeOK, Release
<1>10. ASSUME NEW w \in Workers, Crash(w) PROVE TypeOK'
  <2>1. Release(w) /\ state' = [state EXCEPT ![w] = "dead"] /\ UNCHANGED <<store, effects>>
    BY <1>10 DEF Crash
  <2>2. QED
    BY <2>1, ReleaseTyped DEF TypeOK, Release
<1>11. ASSUME NEW w \in Workers, NEW connected \in BOOLEAN, Restart(w, connected) PROVE TypeOK'
  BY <1>11 DEF TypeOK, Restart, broker
<1>12. CASE UNCHANGED vars
  BY <1>12 DEF TypeOK, vars, broker
<1>13. QED
  BY <1>1, <1>2, <1>3, <1>4, <1>5, <1>6, <1>7, <1>8, <1>9, <1>10, <1>11, <1>12 DEF Next, handleDelivery

--------------------------------------------------------------------------------
(***************************************************************************)
(* Every message is in one place.                                          *)
(***************************************************************************)

\* A consumer that goes away leaves everything it held to the queue.
LEMMA ReleaseKeepsPlaces ==
  ASSUME TypeOK, Places, NEW w \in Workers, Release(w)
  PROVE  Places'
  <1>1. /\ queue' = queue \cup held[w]
        /\ held'[w] = {} /\ \A v \in Workers : v # w => held'[v] = held[v]
        /\ dlq' = dlq /\ acked' = acked /\ Published' = Published
    BY DEF Release, TypeOK, Published
  <1>2. HeldApart'
    BY <1>1 DEF Places, HeldApart
  <1>3. BrokerApart'
    BY <1>1 DEF Places, HeldApart, BrokerApart
  <1>4. Accounted'
    BY <1>1 DEF Places, Accounted
  <1>5. QED
    BY <1>2, <1>3, <1>4 DEF Places

\* A message that is handed to one consumer leaves the queue.
LEMMA DeliverKeepsPlaces ==
  ASSUME TypeOK, Places, NEW w \in Workers, NEW m \in Messages, Deliver(w, m)
  PROVE  Places'
  <1>1. /\ m \in queue /\ queue' = queue \ {m}
        /\ held'[w] = held[w] \cup {m} /\ \A v \in Workers : v # w => held'[v] = held[v]
        /\ dlq' = dlq /\ acked' = acked /\ Published' = Published
    BY DEF Deliver, TypeOK, Published
  <1>2. HeldApart'
    BY <1>1 DEF Places, HeldApart, BrokerApart
  <1>3. BrokerApart'
    BY <1>1 DEF Places, BrokerApart
  <1>4. Accounted'
    BY <1>1 DEF Places, Accounted
  <1>5. QED
    BY <1>2, <1>3, <1>4 DEF Places

\* An answer moves its message to the one set it names.
LEMMA SettleKeepsPlaces ==
  ASSUME TypeOK, Places, NEW w \in Workers, Settle(w)
  PROVE  Places'
  <1> DEFINE m == verdict[w].m
             a == verdict[w].answer
  <1>1. /\ m \in held[w] /\ a \in {"ack", "requeue", "reject"}
        /\ held'[w] = held[w] \ {m} /\ \A v \in Workers : v # w => held'[v] = held[v]
        /\ acked' = IF a = "ack" THEN acked \cup {m} ELSE acked
        /\ queue' = IF a = "requeue" THEN queue \cup {m} ELSE queue
        /\ dlq' = IF a = "reject" THEN dlq \cup {m} ELSE dlq
        /\ Published' = Published
    BY DEF Settle, TypeOK, Published, Verdict
  <1> HIDE DEF m, a
  <1>2. HeldApart'
    BY <1>1 DEF Places, HeldApart
  <1>3. BrokerApart'
    BY <1>1 DEF Places, HeldApart, BrokerApart
  <1>4. Accounted'
    BY <1>1 DEF Places, Accounted
  <1>5. QED
    BY <1>2, <1>3, <1>4 DEF Places

\* Every step keeps every message in one place.
LEMMA PlacesStep == TypeOK /\ Places /\ [Next]_vars => Places'
<1> SUFFICES ASSUME TypeOK, Places, [Next]_vars PROVE Places'
  OBVIOUS
<1>1. ASSUME NEW m \in Messages, NEW b \in Body, Publish(m, b) PROVE Places'
  <2>1. /\ m \notin Published /\ Published' = Published \cup {m}
        /\ queue' = queue \cup {m} /\ UNCHANGED <<dlq, acked, held>>
    BY <1>1, JobSentinelAssumption DEF Publish, TypeOK, Published
  <2>2. QED
    BY <2>1 DEF Places, HeldApart, BrokerApart, Accounted
<1>2. ASSUME NEW w \in Workers, NEW m \in Messages, Deliver(w, m) PROVE Places'
  BY <1>2, DeliverKeepsPlaces
<1>3. ASSUME NEW w \in Workers, NEW m \in Messages, handleDelivery(w, m) PROVE Places'
  <2>1. CASE HandleItemNilStore(w, m)
    BY <2>1, ReleaseKeepsPlaces DEF HandleItemNilStore
  <2>2. CASE ~HandleItemNilStore(w, m)
    <3>1. UNCHANGED <<broker, held>>
      BY <1>3, <2>2 DEF handleDelivery, HandleMalformed, HandleOther, HandleItem, HandleError
    <3>2. QED
      BY <3>1 DEF broker, Places, HeldApart, BrokerApart, Accounted, Published
  <2>3. QED
    BY <2>1, <2>2
<1>4. ASSUME NEW w \in Workers, Settle(w) PROVE Places'
  BY <1>4, SettleKeepsPlaces
<1>5. ASSUME NEW w \in Workers, ChannelCloses(w) \/ Crash(w) PROVE Places'
  BY <1>5, ReleaseKeepsPlaces DEF ChannelCloses, Crash
<1>6. ASSUME NEW w \in Workers, NEW connected \in BOOLEAN, Restart(w, connected) PROVE Places'
  BY <1>6 DEF Restart, broker, Places, HeldApart, BrokerApart, Accounted, Published
<1>7. CASE UNCHANGED vars
  BY <1>7 DEF vars, broker, Places, HeldApart, BrokerApart, Accounted, Published
<1>8. QED
  BY <1>1, <1>2, <1>3, <1>4, <1>5, <1>6, <1>7 DEF Next

\* The counts of InOnePlace follow from Places.
LEMMA PlacesCount == TypeOK /\ Places => InOnePlace
<1> SUFFICES ASSUME TypeOK, Places, NEW m \in Messages, body[m] # None
             PROVE  Cardinality({w \in Workers : m \in held[w]})
                      + Cardinality({S \in {<<"queue", queue>>, <<"dlq", dlq>>, <<"acked", acked>>} :
                                       m \in S[2]}) = 1
  BY DEF InOnePlace
<1> DEFINE Holders == {w \in Workers : m \in held[w]}
           Kept == {S \in {<<"queue", queue>>, <<"dlq", dlq>>, <<"acked", acked>>} : m \in S[2]}
<1>1. m \in Published
  BY DEF Published
<1>2. CASE m \in queue \cup dlq \cup acked
  <2>1. Holders = {}
    BY <1>2 DEF Places, HeldApart
  <2>2. \E S : Kept = {S}
    <3>1. CASE m \in queue
      <4>1. m \notin dlq /\ m \notin acked
        BY <3>1 DEF Places, BrokerApart
      <4>2. Kept = {<<"queue", queue>>}
        BY <3>1, <4>1
      <4>3. QED
        BY <4>2
    <3>2. CASE m \in dlq
      <4>1. m \notin queue /\ m \notin acked
        BY <3>2 DEF Places, BrokerApart
      <4>2. Kept = {<<"dlq", dlq>>}
        BY <3>2, <4>1
      <4>3. QED
        BY <4>2
    <3>3. CASE m \in acked
      <4>1. m \notin queue /\ m \notin dlq
        BY <3>3 DEF Places, BrokerApart
      <4>2. Kept = {<<"acked", acked>>}
        BY <3>3, <4>1
      <4>3. QED
        BY <4>2
    <3>4. QED
      BY <1>2, <3>1, <3>2, <3>3
  <2>3. Cardinality(Holders) = 0
    BY <2>1, FS_EmptySet
  <2>4. Cardinality(Kept) = 1
    BY <2>2, FS_Singleton
  <2>5. QED
    BY <2>3, <2>4
<1>3. CASE m \notin queue \cup dlq \cup acked
  <2>1. PICK w \in Workers : m \in held[w]
    BY <1>1, <1>3 DEF Places, Accounted
  <2>2. Holders = {w}
    BY <2>1 DEF Places, HeldApart
  <2>3. Kept = {}
    BY <1>3
  <2>4. Cardinality(Holders) = 1
    BY <2>2, FS_Singleton
  <2>5. Cardinality(Kept) = 0
    BY <2>3, FS_EmptySet
  <2>6. QED
    BY <2>4, <2>5
<1>4. QED
  BY <1>2, <1>3

--------------------------------------------------------------------------------
(***************************************************************************)
(* Acknowledged jobs and their rows.                                       *)
(***************************************************************************)

\* Rows are only added, for item jobs of their id: what was backed stays backed.
LEMMA RowsStay ==
  ASSUME TypeOK, Places, AckedHasEffect, [Next]_vars
  PROVE  /\ \A m \in Published : body'[m] = body[m]
         /\ \A j \in JobIds : effects[j] # None => effects'[j] = effects[j]
         /\ \A j \in JobIds : effects'[j] # effects[j] =>
               effects'[j] \in Published /\ body[effects'[j]] = [kind |-> "item", id |-> j]
  <1>1. ASSUME NEW w \in Workers, NEW m \in Messages, m \in held[w], body[m].kind = "item", Record(m)
        PROVE  /\ \A j \in JobIds : effects[j] # None => effects'[j] = effects[j]
               /\ \A j \in JobIds : effects'[j] # effects[j] =>
                     effects'[j] \in Published /\ body[effects'[j]] = [kind |-> "item", id |-> j]
    <2>1. body[m] # None /\ body[m] \in Body
      BY <1>1, HeldIsPublished
    <2>2. body[m] = [kind |-> "item", id |-> body[m].id]
      BY <1>1, <2>1 DEF Body
    <2>3. QED
      BY <1>1, <2>1, <2>2, RecordWrites DEF Published
  <1>2. CASE \E w \in Workers, m \in Messages : HandleItem(w, m) \/ HandleError(w, m)
    <2>1. PICK w \in Workers, m \in Messages : HandleItem(w, m) \/ HandleError(w, m)
      BY <1>2
    <2>2. m \in held[w] /\ body' = body
      BY <2>1 DEF HandleItem, HandleError, CanHandle, broker
    <2>3. UNCHANGED effects \/ (body[m].kind = "item" /\ Record(m))
      BY <2>1 DEF HandleItem, HandleError
    <2>4. QED
      BY <1>1, <2>2, <2>3
  <1>3. CASE \E m \in Messages, b \in Body : Publish(m, b)
    BY <1>3 DEF Publish, TypeOK, Published
  <1>4. CASE ~ \E w \in Workers, m \in Messages : HandleItem(w, m) \/ HandleError(w, m)
    <2>1. UNCHANGED effects
      BY <1>4 DEF Next, handleDelivery, vars, Publish, Deliver, HandleMalformed, HandleOther,
         HandleItemNilStore, Settle, ChannelCloses, Crash, Restart
    <2>2. CASE UNCHANGED body
      BY <2>1, <2>2
    <2>3. CASE ~UNCHANGED body
      <3>1. \E m \in Messages, b \in Body : Publish(m, b)
        BY <1>4, <2>3 DEF Next, handleDelivery, vars, broker, Deliver, HandleMalformed, HandleOther,
           HandleItemNilStore, Settle, ChannelCloses, Crash, Restart, Release
      <3>2. QED
        BY <1>3, <3>1
    <2>4. QED
      BY <2>2, <2>3
  <1>5. QED
    BY <1>2, <1>4

\* Every step keeps the rows behind the answers that are on their way.
LEMMA AnswerBackedStep == Inv /\ [Next]_vars => AnswerBacked'
<1> SUFFICES ASSUME Inv, [Next]_vars,
                    NEW w \in Workers, verdict'[w] # None, verdict'[w].answer = "ack",
                    body'[verdict'[w].m].kind = "item"
             PROVE  effects'[body'[verdict'[w].m].id] # None
  BY DEF AnswerBacked
<1> USE DEF Inv
<1>1. CASE verdict'[w] = verdict[w]
  <2>1. verdict[w].m \in held[w] /\ verdict[w].m \in Messages
    BY <1>1 DEF TypeOK
  <2>2. body[verdict[w].m] \in Body /\ verdict[w].m \in Published
    BY <2>1, HeldIsPublished DEF Published
  <2>3. body'[verdict[w].m] = body[verdict[w].m]
    BY <2>2, RowsStay
  <2>4. effects[body[verdict[w].m].id] # None /\ body[verdict[w].m].id \in JobIds
    BY <1>1, <2>2, <2>3 DEF AnswerBacked, Body
  <2>5. QED
    BY <1>1, <2>3, <2>4, RowsStay
<1>2. CASE verdict'[w] # verdict[w]
  <2>1. PICK v \in Workers, m \in Messages : handleDelivery(v, m) /\ ~HandleItemNilStore(v, m)
    <3>1. ASSUME NEW v \in Workers, Release(v) PROVE FALSE
      BY <1>2, <3>1 DEF Release, TypeOK
    <3>2. ASSUME NEW v \in Workers, Settle(v) PROVE FALSE
      BY <1>2, <3>2 DEF Settle, TypeOK
    <3>3. verdict' # verdict
      BY <1>2
    <3>4. QED
      BY <3>1, <3>2, <3>3 DEF Next, handleDelivery, vars, Publish, Deliver, HandleItemNilStore,
         ChannelCloses, Crash, Restart
  <2>2. PICK a \in {"ack", "requeue", "reject"} : CanHandle(v, m) /\ Answer(v, m, a)
    BY <2>1 DEF handleDelivery, HandleMalformed, HandleOther, HandleItem, HandleError
  <2>3. v = w /\ verdict'[w] = [m |-> m, answer |-> a]
    BY <1>2, <2>2, AnswerTyped
  <2>4. a = "ack" /\ body'[m].kind = "item"
    BY <2>3
  <2>5. body' = body /\ body[m] \in Body
    BY <2>1, <2>2, HeldIsPublished
       DEF handleDelivery, HandleMalformed, HandleOther, HandleItem, HandleError, broker, CanHandle
  <2>6. Record(m)
    <3>1. ~HandleMalformed(w, m) /\ ~HandleOther(w, m)
      BY <2>4, <2>5 DEF HandleMalformed, HandleOther
    <3>2. ~HandleError(w, m)
      <4>1. ASSUME NEW b \in {"requeue", "reject"}, Answer(w, m, b) PROVE FALSE
        <5>1. verdict'[w] = [m |-> m, answer |-> b]
          BY <2>2, <2>3, <4>1, AnswerTyped
        <5>2. QED
          BY <2>3, <2>4, <4>1, <5>1
      <4>2. QED
        BY <4>1 DEF HandleError
    <3>3. QED
      BY <2>1, <2>3, <3>1, <3>2 DEF handleDelivery, HandleItem
  <2>7. QED
    BY <2>3, <2>5, <2>6, RecordWrites
<1>3. QED
  BY <1>1, <1>2

\* Every step keeps acknowledged item jobs backed and rows the work of item jobs.
LEMMA AckedStep == Inv /\ [Next]_vars => AckedHasEffect'
<1> SUFFICES ASSUME Inv, [Next]_vars PROVE AckedHasEffect'
  OBVIOUS
<1> USE DEF Inv
<1>1. ASSUME NEW m \in acked', body'[m].kind = "item" PROVE effects'[body'[m].id] # None
  <2>1. CASE m \in acked
    <3>1. m \in Published /\ body[m] \in Body
      BY <2>1 DEF Places, Accounted, Published, TypeOK
    <3>2. body'[m] = body[m] /\ body[m].id \in JobIds
      BY <3>1, RowsStay DEF Body
    <3>3. QED
      BY <1>1, <2>1, <3>2, RowsStay DEF AckedHasEffect
  <2>2. CASE m \notin acked
    <3>1. PICK w \in Workers : Settle(w)
      BY <1>1, <2>2 DEF Next, handleDelivery, vars, broker, Publish, Deliver, HandleMalformed, HandleOther,
         HandleItem, HandleError, HandleItemNilStore, ChannelCloses, Crash, Restart, Release
    <3>2. verdict[w] # None /\ verdict[w].answer = "ack" /\ verdict[w].m = m /\ UNCHANGED <<body, effects>>
      BY <1>1, <2>2, <3>1 DEF Settle
    <3>3. QED
      BY <1>1, <3>2 DEF AnswerBacked
  <2>3. QED
    BY <2>1, <2>2
<1>2. ASSUME NEW j \in JobIds, effects'[j] # None PROVE body'[effects'[j]] = [kind |-> "item", id |-> j]
  <2>1. CASE effects'[j] = effects[j]
    <3>1. body[effects[j]] = [kind |-> "item", id |-> j] /\ effects[j] \in Messages
      BY <1>2, <2>1 DEF AckedHasEffect, TypeOK
    <3>2. body[effects[j]] \in Body
      BY <3>1 DEF Body, Kinds
    <3>3. effects[j] \in Published
      BY <3>1, <3>2, JobSentinelAssumption DEF Published
    <3>4. QED
      BY <2>1, <3>1, <3>3, RowsStay
  <2>2. CASE effects'[j] # effects[j]
    BY <2>2, RowsStay
  <2>3. QED
    BY <2>1, <2>2
<1>3. QED
  BY <1>1, <1>2 DEF AckedHasEffect

--------------------------------------------------------------------------------
(***************************************************************************)
(* The theorems.                                                           *)
(***************************************************************************)

\* The inductive invariant holds always.
LEMMA Invariance == Spec => []Inv
<1>1. Init => Inv
  <2> SUFFICES ASSUME Init PROVE Inv
    OBVIOUS
  <2>1. TypeOK
    BY DEF Init, TypeOK
  <2>2. Places
    BY DEF Init, Places, HeldApart, BrokerApart, Accounted, Published
  <2>3. AnswerBacked /\ AckedHasEffect
    BY DEF Init, AnswerBacked, AckedHasEffect
  <2>4. QED
    BY <2>1, <2>2, <2>3 DEF Inv
<1>2. Inv /\ [Next]_vars => Inv'
  BY TypeStep, PlacesStep, AnswerBackedStep, AckedStep DEF Inv
<1>3. QED
  BY <1>1, <1>2, PTL DEF Spec

\* The variables of the queue and its consumers keep their types; in particular a
\* worker only answers for a message it holds.
THEOREM TypeCorrect == Spec => []TypeOK
<1>1. Inv => TypeOK
  BY DEF Inv
<1>2. QED
  BY <1>1, Invariance, PTL

\* A published message is always in exactly one place: no message is lost and none
\* is answered twice, for any number of workers and whatever they suffer.
THEOREM OnePlace == Spec => []InOnePlace
<1>1. Inv => InOnePlace
  BY PlacesCount DEF Inv
<1>2. QED
  BY <1>1, Invariance, PTL

\* An acknowledged item job has its row in worker_job_effects, and each row is the
\* work of an item job of its id.
THEOREM AckAfterEffect == Spec => []AckedHasEffect
<1>1. Inv => AckedHasEffect
  BY DEF Inv
<1>2. QED
  BY <1>1, Invariance, PTL

\* The row of a job, once written, is never touched again.
THEOREM FirstWriteStays == Spec => EffectsWrittenOnce
<1>1. Inv /\ [Next]_vars => [\A j \in JobIds : effects[j] # None => effects'[j] = effects[j]]_vars
  BY RowsStay DEF Inv
<1>2. QED
  BY <1>1, Invariance, PTL DEF Spec, EffectsWrittenOnce

--------------------------------------------------------------------------------
(***************************************************************************)
(* The pipeline: business-service and the queue together.                  *)
(***************************************************************************)

\* A step of the pipeline is a step of each of its parts, or leaves it alone.
LEMMA StepOfParts ==
  ASSUME [PipelineNext]_pipelineVars
  PROVE  [BusinessNext]_processVars /\ [Next]_vars
<1>1. ASSUME NEW r \in Requests, HandleAndPublish(r), UNCHANGED vars
      PROVE  [BusinessNext]_processVars /\ [Next]_vars
  BY <1>1 DEF BusinessNext
<1>2. CASE Stop /\ UNCHANGED vars
  BY <1>2 DEF BusinessNext
<1>3. CASE ConnectPublisher
  BY <1>3 DEF ConnectPublisher, BusinessNext, Jobs!PublisherNext
<1>4. ASSUME NEW r \in Requests, SendJob(r)
      PROVE  [BusinessNext]_processVars /\ [Next]_vars
  <2>1. Jobs!Send(r) /\ UNCHANGED <<serviceVars, outbox>>
    BY <1>4 DEF SendJob
  <2>2. BusinessNext
    BY <2>1 DEF BusinessNext, Jobs!PublisherNext
  <2>3. r \in Messages /\ JobOf(r) \in Body
    BY PipelineAssumption DEF JobOf, Body, Kinds
  <2>4. Publish(r, JobOf(r)) \/ UNCHANGED vars
    BY <1>4 DEF SendJob
  <2> QED
    BY <2>2, <2>3, <2>4 DEF Next
<1>5. ASSUME NEW m \in Messages, NEW b \in Body, Enqueue(m, b)
      PROVE  [BusinessNext]_processVars /\ [Next]_vars
  BY <1>5 DEF Enqueue, BusinessNext, Jobs!PublisherNext, Next
<1>6. ASSUME NEW w \in Workers, NEW connected \in BOOLEAN, StartWorker(w, connected)
      PROVE  [BusinessNext]_processVars /\ [Next]_vars
  BY <1>6 DEF StartWorker, BusinessNext, Jobs!PublisherNext, Next
<1>7. CASE Consume
  BY <1>7 DEF Consume, Next
<1>8. CASE UNCHANGED pipelineVars
  BY <1>8 DEF pipelineVars
<1> QED
  BY <1>1, <1>2, <1>3, <1>4, <1>5, <1>6, <1>7, <1>8 DEF PipelineNext

\* Joined to the queue, business-service still does only what it does alone, and what
\* is proved of it holds in the pipeline.
THEOREM PipelineIsBusiness == PipelineSpec => BusinessSpec
<1>1. PipelineInit => BusinessInit
  BY DEF PipelineInit
<1> QED
  BY <1>1, StepOfParts, PTL DEF PipelineSpec, BusinessSpec

\* The queue fed by business-service, and the workers, do only what JobQueue allows.
THEOREM PipelineIsQueue == PipelineSpec => Spec
<1>1. PipelineInit => Init
  BY DEF PipelineInit
<1> QED
  BY <1>1, StepOfParts, PTL DEF PipelineSpec, Spec

\* Every message that is a request's is its job, no other is an item job, and a request
\* whose job the publisher saw routed is the one whose message exists.
Joined ==
  /\ \A m \in Messages : body[m] # None =>
        IF m \in Requests THEN body[m] = JobOf(m) ELSE body[m].kind # "item"
  /\ \A r \in Requests : pub[r] = "queued" <=> body[r] # None

\* Only Send and Publish touch the messages and what the publisher knows of them.
LEMMA JoinedStep == BusinessTypeOK /\ TypeOK /\ Joined /\ [PipelineNext]_pipelineVars => Joined'
<1> SUFFICES ASSUME BusinessTypeOK, TypeOK, Joined, [PipelineNext]_pipelineVars PROVE Joined'
  OBVIOUS
<1>0. pub \in [Requests -> {"none", "skipped", "waiting", "ready", "queued", "unrouted", "lost"}]
  BY DEF BusinessTypeOK, Jobs!PublisherTypeOK
<1>1. ASSUME body' = body, \A r \in Requests : pub'[r] = "queued" <=> pub[r] = "queued"
      PROVE  Joined'
  BY <1>1 DEF Joined
<1>2. ASSUME NEW r \in Requests, HandleAndPublish(r), UNCHANGED vars PROVE Joined'
  <2>1. \A q \in Requests : pub'[q] = "queued" <=> pub[q] = "queued"
    BY <1>0, <1>2 DEF HandleAndPublish, publisherVars, Jobs!publish, Jobs!ensureChannel
  <2> QED
    BY <1>1, <1>2, <2>1 DEF vars, broker
<1>3. CASE Stop /\ UNCHANGED vars
  <2>1. \A q \in Requests : pub'[q] = "queued" <=> pub[q] = "queued"
    BY <1>0, <1>3 DEF Stop, Jobs!StopPublisher
  <2> QED
    BY <1>1, <1>3, <2>1 DEF vars, broker
<1>4. CASE ConnectPublisher
  <2>1. \A q \in Requests : pub'[q] = "queued" <=> pub[q] = "queued"
    BY <1>0, <1>4 DEF ConnectPublisher, Jobs!Connected, Jobs!declareTopology, Jobs!ConnectErrs,
       Jobs!ChannelCloses, Jobs!Settle
  <2> QED
    BY <1>1, <1>4, <2>1 DEF ConnectPublisher, vars, broker
<1>5. ASSUME NEW r \in Requests, SendJob(r) PROVE Joined'
  <2>1. /\ pub[r] = "ready" /\ pub'[r] # "ready"
        /\ \A q \in Requests : q # r => pub'[q] = pub[q]
    BY <1>0, <1>5 DEF SendJob, Jobs!Send
  <2>2. CASE pub'[r] = "queued"
    <3>1. Publish(r, JobOf(r))
      BY <1>5, <2>2 DEF SendJob
    <3>2. r \in Messages /\ JobOf(r) # None
      BY PipelineAssumption, JobSentinelAssumption DEF JobOf, Body, Kinds
    <3>3. body'[r] = JobOf(r) /\ \A m \in Messages : m # r => body'[m] = body[m]
      BY <3>1, <3>2 DEF Publish, TypeOK
    <3> QED
      BY <2>1, <2>2, <3>2, <3>3, PipelineAssumption DEF Joined
  <2>3. CASE pub'[r] # "queued"
    <3>1. body' = body
      BY <1>5, <2>3 DEF SendJob, vars, broker
    <3> QED
      BY <1>1, <2>1, <2>3, <3>1
  <2> QED
    BY <2>2, <2>3
<1>6. ASSUME NEW m \in Messages, NEW b \in Body, Enqueue(m, b) PROVE Joined'
  <2>1. /\ m \notin Requests /\ b.kind # "item" /\ pub' = pub
        /\ body'[m] = b /\ \A n \in Messages : n # m => body'[n] = body[n]
    BY <1>6 DEF Enqueue, Publish, Jobs!WorkerDeclares, TypeOK
  <2> QED
    BY <2>1, PipelineAssumption DEF Joined
<1>7. ASSUME NEW w \in Workers, NEW connected \in BOOLEAN, StartWorker(w, connected) PROVE Joined'
  BY <1>1, <1>7 DEF StartWorker, Restart, broker, Jobs!WorkerDeclares
<1>8. CASE Consume
  <2>1. body' = body
    BY <1>8 DEF Consume, handleDelivery, vars, broker, Deliver, HandleMalformed, HandleOther,
       HandleItem, HandleError, HandleItemNilStore, Settle, ChannelCloses, Crash, Release
  <2> QED
    BY <1>1, <1>8, <2>1 DEF Consume, processVars, publisherVars
<1>9. CASE UNCHANGED pipelineVars
  BY <1>1, <1>9 DEF pipelineVars, processVars, publisherVars, vars, broker
<1> QED
  BY <1>2, <1>3, <1>4, <1>5, <1>6, <1>7, <1>8, <1>9 DEF PipelineNext

\* What holds of the parts, and of their joint, holds of the pipeline.
LEMMA PipelineInvariance == PipelineSpec => [](BusinessInv /\ Inv /\ Joined)
<1>1. PipelineInit => Joined
  BY PipelineAssumption DEF PipelineInit, BusinessInit, Jobs!PublisherInit, Init, Joined
<1>2. BusinessInv => BusinessTypeOK
  BY DEF BusinessInv, ServiceInv, PublisherInv, BusinessTypeOK
<1>3. Inv => TypeOK
  BY DEF Inv
<1> QED
  BY <1>1, <1>2, <1>3, PipelineIsBusiness, PipelineIsQueue, BusinessInvariant, Invariance, JoinedStep,
     PTL DEF PipelineSpec

\* business-service, the broker and the workers keep their types together.
THEOREM PipelineTypeCorrect == PipelineSpec => []PipelineTypeOK
<1>1. BusinessInv /\ Inv => PipelineTypeOK
  BY DEF BusinessInv, ServiceInv, PublisherInv, BusinessTypeOK, Inv, PipelineTypeOK
<1> QED
  BY <1>1, PipelineInvariance, PTL

\* A row of worker_job_effects is the request's own.
LEMMA EffectIsOwn ==
  ASSUME Inv, Joined, NEW j \in JobIds, effects[j] # None
  PROVE  j \in Requests /\ effects[j] = j /\ body[j] # None
<1>1. effects[j] \in Messages /\ body[effects[j]] = [kind |-> "item", id |-> j]
  BY DEF Inv, TypeOK, AckedHasEffect
<1>2. body[effects[j]] # None
  <2>1. [kind |-> "item", id |-> j] \in Body
    BY DEF Body, Kinds
  <2> QED
    BY <1>1, <2>1, JobSentinelAssumption
<1>3. effects[j] \in Requests /\ body[effects[j]] = JobOf(effects[j])
  BY <1>1, <1>2 DEF Joined
<1>4. effects[j] = j
  BY <1>1, <1>3 DEF JobOf
<1> QED
  BY <1>2, <1>3, <1>4

\* A side-effect always belongs to a committed and answered write.
THEOREM EffectsAreOfWrites == PipelineSpec => []EffectOfCommittedWrite
<1>1. BusinessInv /\ Inv /\ Joined => EffectOfCommittedWrite
  <2> SUFFICES ASSUME BusinessInv, Inv, Joined, NEW j \in JobIds, effects[j] # None
               PROVE  /\ j \in Requests /\ effects[j] = j
                      /\ outbox[j] # NoRow /\ pc[j] = "done"
    BY DEF EffectOfCommittedWrite
  <2>1. j \in Requests /\ effects[j] = j /\ body[j] # None
    BY EffectIsOwn
  <2>2. pub[j] = "queued"
    BY <2>1 DEF Joined
  <2>3. JobsAccounted
    BY DEF BusinessInv, PublisherInv
  <2> QED
    BY <2>1, <2>2, <2>3 DEF JobsAccounted
<1> QED
  BY <1>1, PipelineInvariance, PTL

\* No answered request's job disappears between the handler and the worker except with
\* a connection, the process, a missing queue or a RABBITMQ_URL that names no broker.
THEOREM JobsEndToEnd == PipelineSpec => []JobEndToEnd
<1>1. BusinessInv /\ Inv /\ Joined => JobEndToEnd
  <2> SUFFICES ASSUME BusinessInv, Inv, Joined, NEW r \in Requests, pc[r] = "done",
                      pub[r] \notin {"waiting", "ready", "unrouted"},
                      ~(pub[r] = "lost" /\ faulted),
                      ~(pub[r] = "skipped" /\ ~enabled),
                      r \notin queue, \A w \in Workers : r \notin held[w]
               PROVE  (r \in acked /\ effects[r] = r) \/ r \in dlq
    BY DEF JobEndToEnd
  <2>1. JobsAccounted /\ BusinessTypeOK
    BY DEF BusinessInv, ServiceInv, PublisherInv, BusinessTypeOK
  <2>2. pub[r] = "queued"
    BY <2>1 DEF JobsAccounted, BusinessTypeOK, Jobs!PublisherTypeOK
  <2>3. r \in Messages /\ r \in JobIds
    BY PipelineAssumption
  <2>4. body[r] = JobOf(r) /\ r \in Published
    BY <2>2, <2>3 DEF Joined, Published
  <2>5. r \in dlq \cup acked
    BY <2>4 DEF Inv, Places, Accounted
  <2>6. CASE r \in acked
    <3>1. effects[r] # None
      BY <2>4, <2>6 DEF Inv, AckedHasEffect, JobOf
    <3> QED
      BY <2>3, <2>6, <3>1, EffectIsOwn
  <2> QED
    BY <2>5, <2>6
<1> QED
  BY <1>1, PipelineInvariance, PTL

================================================================================
