-------------------------------- MODULE JobQueue --------------------------------
(***************************************************************************)
(* The platform job queue: the RabbitMQ work queue and its dead-letter     *)
(* queue, the worker's consumer, its job router and worker_job_effects.    *)
(*                                                                         *)
(* RabbitMQ is external and modelled from how the consumer uses it: an     *)
(* unacknowledged message returns to the queue when its channel goes away, *)
(* a nack with requeue puts it back unchanged, a nack without requeue      *)
(* dead-letters it and only then adds to its x-death header.  The order of *)
(* the queue is left open: several consumers and requeues disturb it.      *)
(***************************************************************************)
EXTENDS Naturals, FiniteSets

CONSTANTS
  Messages,         \* messages published to the work queue
  JobIds,           \* job ids
  Workers,          \* worker processes, one consumer each
  Prefetch,         \* unacknowledged messages a consumer may hold
  MaxRetries,       \* RABBITMQ_MAX_RETRIES
  None

VARIABLES
  body,      \* body[m]: the message, None before it is published
  queue,     \* ready messages of ting.jobs.platform
  held,      \* held[w]: messages delivered to w and not acknowledged
  verdict,   \* verdict[w]: what w will answer for the message it just handled
  state,     \* state[w]: running, consumer stopped, process dead (killed or panicked)
  store,     \* store[w]: the process connected to Postgres when it started
  xdeath,    \* xdeath[m]: total count of m's x-death header
  dlq,       \* messages of ting.jobs.platform.dlq
  acked,     \* acknowledged messages
  effects    \* worker_job_effects: the message a job's row was written for

broker == <<body, queue, xdeath, dlq, acked>>
vars == <<broker, held, verdict, state, store, effects>>

ASSUME JobQueueAssumption ==
  /\ Prefetch \in Nat \ {0}
  /\ MaxRetries \in Nat

\* item: business.item.* with its item_id; noItem: business.item.* without one;
\* other: ping and unknown types; malformed: ParseJob refuses it.
Kinds == {"item", "noItem", "other", "malformed"}

Body == [kind : Kinds, id : JobIds]

Verdict == [m : Messages, answer : {"ack", "requeue", "reject"}]

ASSUME JobSentinelAssumption == None \notin Messages \cup Body \cup Verdict

TypeOK ==
  /\ body \in [Messages -> Body \cup {None}]
  /\ queue \subseteq Messages /\ dlq \subseteq Messages /\ acked \subseteq Messages
  /\ held \in [Workers -> SUBSET Messages]
  /\ verdict \in [Workers -> Verdict \cup {None}]
  /\ \A w \in Workers : verdict[w] # None => verdict[w].m \in held[w]
  /\ state \in [Workers -> {"running", "stopped", "dead"}]
  /\ store \in [Workers -> BOOLEAN]
  /\ xdeath \in [Messages -> Nat]
  /\ effects \in [JobIds -> Messages \cup {None}]

Init ==
  /\ body = [m \in Messages |-> None]
  /\ queue = {} /\ dlq = {} /\ acked = {}
  /\ held = [w \in Workers |-> {}]
  /\ verdict = [w \in Workers |-> None]
  /\ state \in [Workers -> {"running", "dead"}]
  /\ store \in [Workers -> BOOLEAN]
  /\ xdeath = [m \in Messages |-> 0]
  /\ effects = [j \in JobIds |-> None]

--------------------------------------------------------------------------------

\* A publisher puts a message on the exchange; the binding queues it.
Publish(m, b) ==
  /\ body[m] = None
  /\ body' = [body EXCEPT ![m] = b]
  /\ queue' = queue \cup {m}
  /\ UNCHANGED <<xdeath, dlq, acked, held, verdict, state, store, effects>>

\* The broker hands a ready message to a consumer (auto-ack is off).
Deliver(w, m) ==
  /\ state[w] = "running" /\ m \in queue /\ Cardinality(held[w]) < Prefetch
  /\ queue' = queue \ {m}
  /\ held' = [held EXCEPT ![w] = @ \cup {m}]
  /\ UNCHANGED <<body, xdeath, dlq, acked, verdict, state, store, effects>>

--------------------------------------------------------------------------------
(***************************************************************************)
(* handleDelivery: parse, route, answer.  A worker handles one message at  *)
(* a time; the answer is a step of its own, for the worker may die or lose *)
(* its channel after the handler's insert.                                 *)
(***************************************************************************)

CanHandle(w, m) == state[w] = "running" /\ m \in held[w] /\ verdict[w] = None

Answer(w, m, a) == verdict' = [verdict EXCEPT ![w] = [m |-> m, answer |-> a]]

deathCount(m) == xdeath[m]

Requeues(m) == deathCount(m) + 1 < MaxRetries

\* ParseJob fails.
HandleMalformed(w, m) ==
  /\ CanHandle(w, m) /\ body[m].kind = "malformed"
  /\ Answer(w, m, "reject")
  /\ UNCHANGED <<broker, held, state, store, effects>>

\* Effects.Record: INSERT ... ON CONFLICT (job_id) DO NOTHING.
Record(m) == effects' = [effects EXCEPT ![body[m].id] = IF @ = None THEN m ELSE @]

\* ping and unknown job types.
HandleOther(w, m) ==
  /\ CanHandle(w, m) /\ body[m].kind = "other"
  /\ Answer(w, m, "ack")
  /\ UNCHANGED <<broker, held, state, store, effects>>

HandleItem(w, m) ==
  /\ CanHandle(w, m) /\ body[m].kind = "item" /\ store[w]
  /\ Record(m)
  /\ Answer(w, m, "ack")
  /\ UNCHANGED <<broker, held, state, store>>

\* The handler returns an error: no item_id, or the insert failed or its answer
\* was lost, in which case the row may be there.
HandleError_Acked(w, m) ==
  /\ CanHandle(w, m)
  /\ body[m].kind = "noItem" \/ (body[m].kind = "item" /\ store[w])
  /\ Answer(w, m, "ack")
  /\ UNCHANGED <<broker, held, state, store, effects>>
HandleError(w, m) ==
  /\ CanHandle(w, m)
  /\ body[m].kind = "noItem" \/ (body[m].kind = "item" /\ store[w])
  /\ Answer(w, m, IF Requeues(m) THEN "requeue" ELSE "reject")
  /\ UNCHANGED effects \/ (body[m].kind = "item" /\ Record(m))
  /\ UNCHANGED <<broker, held, state, store>>

\* Everything a consumer holds goes back to the queue.
Release(w) ==
  /\ queue' = queue \cup held[w]
  /\ held' = [held EXCEPT ![w] = {}]
  /\ verdict' = [verdict EXCEPT ![w] = None]
  /\ UNCHANGED <<body, xdeath, dlq, acked>>

\* Without Postgres main passes a nil *store.Effects: in the router's interface
\* it is not nil, so Record runs on it and dereferences it.  Nothing recovers
\* the consumer's goroutine: the process dies.
HandleItemNilStore(w, m) ==
  /\ CanHandle(w, m) /\ body[m].kind = "item" /\ ~store[w]
  /\ state' = [state EXCEPT ![w] = "dead"]
  /\ Release(w)
  /\ UNCHANGED <<store, effects>>

\* Ack or Nack reaches the broker.
Settle_KeepsVerdict(w) ==
  LET v == verdict[w] IN
  /\ v # None /\ state[w] = "running"
  /\ held' = [held EXCEPT ![w] = @ \ {v.m}]
  /\ acked' = IF v.answer = "ack" THEN acked \cup {v.m} ELSE acked
  /\ queue' = IF v.answer = "requeue" THEN queue \cup {v.m} ELSE queue
  /\ dlq' = IF v.answer = "reject" THEN dlq \cup {v.m} ELSE dlq
  /\ xdeath' = IF v.answer = "reject" THEN [xdeath EXCEPT ![v.m] = @ + 1] ELSE xdeath
  /\ UNCHANGED <<body, verdict, state, store, effects>>
Settle_AcksToo(w) ==
  LET v == verdict[w] IN
  /\ v # None /\ state[w] = "running"
  /\ held' = [held EXCEPT ![w] = @ \ {v.m}]
  /\ verdict' = [verdict EXCEPT ![w] = None]
  /\ acked' = acked \cup {v.m}
  /\ queue' = IF v.answer = "requeue" THEN queue \cup {v.m} ELSE queue
  /\ dlq' = IF v.answer = "reject" THEN dlq \cup {v.m} ELSE dlq
  /\ xdeath' = IF v.answer = "reject" THEN [xdeath EXCEPT ![v.m] = @ + 1] ELSE xdeath
  /\ UNCHANGED <<body, state, store, effects>>
Settle(w) ==
  LET v == verdict[w] IN
  /\ v # None /\ state[w] = "running"
  /\ held' = [held EXCEPT ![w] = @ \ {v.m}]
  /\ verdict' = [verdict EXCEPT ![w] = None]
  /\ acked' = IF v.answer = "ack" THEN acked \cup {v.m} ELSE acked
  /\ queue' = IF v.answer = "requeue" THEN queue \cup {v.m} ELSE queue
  /\ dlq' = IF v.answer = "reject" THEN dlq \cup {v.m} ELSE dlq
  /\ xdeath' = IF v.answer = "reject" THEN [xdeath EXCEPT ![v.m] = @ + 1] ELSE xdeath
  /\ UNCHANGED <<body, state, store, effects>>

--------------------------------------------------------------------------------

\* The AMQP channel closes: Run returns, startConsumers logs it, nobody
\* subscribes again and the process keeps serving /readyz.
ChannelCloses(w) ==
  /\ state[w] = "running"
  /\ state' = [state EXCEPT ![w] = "stopped"]
  /\ Release(w)
  /\ UNCHANGED <<store, effects>>

Crash(w) ==
  /\ state[w] \in {"running", "stopped"}
  /\ state' = [state EXCEPT ![w] = "dead"]
  /\ Release(w)
  /\ UNCHANGED <<store, effects>>

\* The supervisor starts a dead process again; db.Connect succeeds or does not.
Restart(w, connected) ==
  /\ state[w] = "dead"
  /\ state' = [state EXCEPT ![w] = "running"]
  /\ store' = [store EXCEPT ![w] = connected]
  /\ UNCHANGED <<broker, held, verdict, effects>>

handleDelivery(w, m) ==
  \/ HandleMalformed(w, m) \/ HandleOther(w, m) \/ HandleItem(w, m)
  \/ HandleError(w, m) \/ HandleItemNilStore(w, m)

Next ==
  \/ \E m \in Messages, b \in Body : Publish(m, b)
  \/ \E w \in Workers, m \in Messages : Deliver(w, m) \/ handleDelivery(w, m)
  \/ \E w \in Workers : Settle(w) \/ ChannelCloses(w) \/ Crash(w)
  \/ \E w \in Workers, connected \in BOOLEAN : Restart(w, connected)

Spec == Init /\ [][Next]_vars

(***************************************************************************)
(* Fairness.  The broker delivers a message that stays ready to a consumer *)
(* that keeps having room for it; where room comes and goes it promises    *)
(* nothing, for a requeued message returns near the head of the queue.  A  *)
(* live consumer handles what it holds and answers, and an insert that is  *)
(* tried over and over succeeds at last.                                   *)
(***************************************************************************)
Fairness ==
  \A w \in Workers :
     /\ WF_vars(Settle(w))
     /\ WF_vars(\E m \in Messages : handleDelivery(w, m))
     /\ \A m \in Messages : WF_vars(Deliver(w, m)) /\ SF_vars(HandleItem(w, m))

FairSpec == Spec /\ Fairness

--------------------------------------------------------------------------------
(***************************************************************************)
(* Properties.                                                             *)
(***************************************************************************)

\* No item job is acknowledged before its side-effect is in worker_job_effects,
\* whatever crashes, lost channels and redeliveries come between, and a row there
\* is the work of an item job of that id.
AckedHasEffect ==
  /\ \A m \in acked : body[m].kind = "item" => effects[body[m].id] # None
  /\ \A j \in JobIds : effects[j] # None => body[effects[j]] = [kind |-> "item", id |-> j]

\* The consumer loses no message and answers none twice: a published message is
\* ready, held by one consumer, dead-lettered or acknowledged, and only one of
\* these, through requeues, closed channels, crashes and panics.
InOnePlace ==
  \A m \in Messages : body[m] # None =>
     Cardinality({w \in Workers : m \in held[w]})
        + Cardinality({S \in {<<"queue", queue>>, <<"dlq", dlq>>, <<"acked", acked>>} : m \in S[2]})
        = 1

\* Redeliveries, and two messages that carry one job id, never touch the row that
\* the first of them wrote.
EffectsWrittenOnce ==
  [][\A j \in JobIds : effects[j] # None => effects'[j] = effects[j]]_vars

Unsettled == queue \cup UNION {held[w] : w \in Workers}

ConsumersStay == <>[](\A w \in Workers : state[w] = "running" /\ store[w])


\* "DLQ on exhaustion", "Requeue attempts before DLQ": a job whose handler fails every
\* time it is tried is not tried for ever.
FailingJobIsGivenUp ==
  ConsumersStay =>
     \A m \in Messages : (m \in queue /\ body[m].kind = "noItem") ~> (m \in dlq)

================================================================================
