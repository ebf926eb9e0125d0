----------------------------- MODULE BusinessService -----------------------------
(***************************************************************************)
(* business-service as a process: the item handlers and the job publisher  *)
(* they call after their commit, which stop together.                      *)
(***************************************************************************)
EXTENDS ItemsService

VARIABLES enabled, ch, connecting, bound, pub, faulted

Jobs == INSTANCE JobPublisher

publisherVars == <<enabled, ch, connecting, bound, pub, faulted>>
processVars == <<serviceVars, outbox, publisherVars>>

BusinessTypeOK == ServiceTypeOK /\ Jobs!PublisherTypeOK

BusinessInit == ServiceInit /\ Jobs!PublisherInit

\* A step of a handler; the one that calls jobs.publish runs it up to its await.
HandleAndPublish(r) ==
  /\ Handle(r)
  /\ IF r \in jobCalls' \ jobCalls
     THEN Jobs!publish(r) ELSE UNCHANGED publisherVars

\* The process ends and a new one starts: what it was handling is gone.
Stop ==
  /\ pc' = [r \in Requests |-> IF pc[r] \in Handling \ {"new"} THEN "failed" ELSE pc[r]]
  /\ Jobs!StopPublisher
  /\ UNCHANGED <<items, outbox, input, clock, began, jobCalls, lastWrite>>

BusinessNext ==
  \/ \E r \in Requests : HandleAndPublish(r)
  \/ Jobs!PublisherNext /\ UNCHANGED <<serviceVars, outbox>>
  \/ Stop

BusinessSpec == BusinessInit /\ [][BusinessNext]_processVars

--------------------------------------------------------------------------------

\* Jobs and events belong together although no transaction spans them: a job exists
\* only for a request whose event is committed, and the job of an answered request is
\* in the queue, or on its way there, unless the connection failed or closed or the
\* process ended: waiting for one shared connection loses none.  On a new broker,
\* whose queue is not yet bound, only a job that found the connection another job
\* had opened can be dropped.  Without a broker in RABBITMQ_URL all jobs are skipped,
\* and only then.
JobsAccounted ==
  \A r \in Requests :
     /\ pub[r] # "none" => outbox[r] # NoRow /\ pc[r] = "done"
     /\ pc[r] = "done" => pub[r] # "none"
     /\ pub[r] = "lost" => faulted
     /\ pub[r] = "skipped" <=> pc[r] = "done" /\ ~enabled
     /\ pub[r] = "unrouted" => \E q \in Requests \ {r} : pub[q] # "none"

==================================================================================
