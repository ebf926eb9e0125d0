------------------------------ MODULE JobPipeline ------------------------------
(***************************************************************************)
(* From a write of an item to its side-effect: business-service, the       *)
(* broker and the workers together.                                        *)
(*                                                                         *)
(* The job of a request is a message of its own: randomUUID gives it an id *)
(* no other has, its type is business.item.* and its payload carries the   *)
(* item's id.  Other messages come from cmd/enqueue-job, which sends no    *)
(* payload.                                                                *)
(***************************************************************************)
EXTENDS BusinessService, JobQueue

ASSUME PipelineAssumption == Requests \subseteq Messages \cap JobIds

JobOf(r) == [kind |-> "item", id |-> r]

pipelineVars == <<processVars, vars>>

PipelineTypeOK == BusinessTypeOK /\ TypeOK

\* A worker that consumes has declared the queue.
PipelineInit ==
  /\ BusinessInit /\ Init
  /\ (\E w \in Workers : state[w] = "running") => bound

\* ch.publish: on an open channel the exchange routes the job to the queue, if the
\* queue is bound.
SendJob(r) ==
  /\ Jobs!Send(r)
  /\ IF pub'[r] = "queued" THEN Publish(r, JobOf(r)) ELSE UNCHANGED vars
  /\ UNCHANGED <<serviceVars, outbox>>

\* The publisher's connection.
ConnectPublisher ==
  /\ Jobs!Connected \/ Jobs!declareTopology \/ Jobs!ConnectErrs \/ Jobs!ChannelCloses
  /\ UNCHANGED <<serviceVars, outbox, vars>>

\* cmd/enqueue-job declares the topology and publishes a job without payload.
Enqueue(m, b) ==
  /\ m \notin Requests /\ b.kind # "item"
  /\ Publish(m, b)
  /\ Jobs!WorkerDeclares
  /\ UNCHANGED <<serviceVars, outbox>>

\* consumer.Run declares the topology before it consumes.
StartWorker(w, connected) ==
  /\ Restart(w, connected)
  /\ Jobs!WorkerDeclares
  /\ UNCHANGED <<serviceVars, outbox>>

Consume ==
  /\ \/ \E w \in Workers, m \in Messages : Deliver(w, m) \/ handleDelivery(w, m)
     \/ \E w \in Workers : Settle(w) \/ ChannelCloses(w) \/ Crash(w)
  /\ UNCHANGED processVars

PipelineNext ==
  \/ \E r \in Requests : HandleAndPublish(r) /\ UNCHANGED vars
  \/ Stop /\ UNCHANGED vars
  \/ ConnectPublisher
  \/ \E r \in Requests : SendJob(r)
  \/ \E m \in Messages, b \in Body : Enqueue(m, b)
  \/ \E w \in Workers, connected \in BOOLEAN : StartWorker(w, connected)
  \/ Consume

PipelineSpec == PipelineInit /\ [][PipelineNext]_pipelineVars

\* The queue's fairness; nothing is assumed of business-service.
FairPipelineSpec == PipelineSpec /\ Fairness

--------------------------------------------------------------------------------

\* A side-effect is that of a write that was committed and answered: its row names the
\* request's own job, the event is in the outbox, and nothing enqueued by hand makes
\* one.  Through redeliveries it stays one row.
EffectOfCommittedWrite ==
  \A j \in JobIds : effects[j] # None =>
     /\ j \in Requests /\ effects[j] = j
     /\ outbox[j] # NoRow /\ pc[j] = "done"

\* What becomes of the job of an answered request: it waits to be sent, or was lost
\* with a connection or with the process, or no queue was bound for it yet; or it is
\* in the work queue or at a worker, or it is acknowledged and has its side-effect, or
\* in the DLQ.  Where RABBITMQ_URL names no broker it was skipped.
JobEndToEnd ==
  \A r \in Requests : pc[r] = "done" =>
     \/ pub[r] \in {"waiting", "ready", "unrouted"}
     \/ pub[r] = "lost" /\ faulted
     \/ r \in queue \/ \E w \in Workers : r \in held[w]
     \/ r \in acked /\ effects[r] = r
     \/ r \in dlq
     \/ pub[r] = "skipped" /\ ~enabled

================================================================================
