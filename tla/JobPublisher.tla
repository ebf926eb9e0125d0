------------------------------ MODULE JobPublisher ------------------------------
(***************************************************************************)
(* business-service's JobPublisher: one AMQP channel, opened by the first  *)
(* publish and shared by all, and the jobs that wait for it.  Nobody waits *)
(* for a publish and its errors are only logged.                           *)
(*                                                                         *)
(* JavaScript runs a call up to its next await: ensureChannel is entered   *)
(* when publish is called, the rest of publish when what it awaited        *)
(* settles.  The broker (external) drops a message no queue is bound for.  *)
(***************************************************************************)
CONSTANT Requests   \* each publishes at most one job

VARIABLES
  enabled,     \* RABBITMQ_URL names a broker: it is neither empty nor a placeholder
  ch,          \* this.ch: null, open, or closed by the broker or the connection
  connecting,  \* this.connecting: null, a promise (connect, declare) or its outcome
  bound,       \* broker: the platform queue is bound to the exchange
  pub,         \* pub[r]: the publish of r's job
  faulted      \* history: a connection failed or closed, or the process ended

publisherVars == <<enabled, ch, connecting, bound, pub, faulted>>

PublisherTypeOK ==
  /\ enabled \in BOOLEAN
  /\ ch \in {"null", "open", "closed"}
  /\ connecting \in {"null", "connect", "declare", "resolved", "rejected"}
  /\ bound \in BOOLEAN
  /\ pub \in [Requests -> {"none", "skipped", "waiting", "ready", "queued", "unrouted", "lost"}]
  /\ faulted \in BOOLEAN

PublisherInit ==
  /\ enabled \in BOOLEAN
  /\ ch = "null"
  /\ connecting = "null"
  /\ bound \in BOOLEAN
  /\ pub = [r \in Requests |-> "none"]
  /\ faulted = FALSE

--------------------------------------------------------------------------------

Settle(from, to) == [r \in Requests |-> IF pub[r] = from THEN to ELSE pub[r]]

\* ensureChannel up to its await.
ensureChannel_NotAwaited(r) ==
  /\ pub[r] = "none"
  /\ connecting' = IF ch = "null" /\ connecting = "null" THEN "connect" ELSE connecting
  /\ pub' = [pub EXCEPT ![r] = IF ch = "null" THEN "lost" ELSE "ready"]
  /\ UNCHANGED <<ch, bound, faulted>>
ensureChannel(r) ==
  /\ pub[r] = "none"
  /\ connecting' = IF ch = "null" /\ connecting = "null" THEN "connect" ELSE connecting
  /\ pub' = [pub EXCEPT ![r] =
               IF ch # "null" THEN "ready"
               ELSE IF connecting = "rejected" THEN "lost" ELSE "waiting"]
  /\ UNCHANGED <<ch, bound, faulted>>

\* publish up to its await: without a broker it returns at once.
publish(r) ==
  /\ \/ enabled /\ ensureChannel(r)
     \/ /\ ~enabled /\ pub[r] = "none"
        /\ pub' = [pub EXCEPT ![r] = "skipped"]
        /\ UNCHANGED <<ch, connecting, bound, faulted>>
  /\ UNCHANGED enabled

\* The connection and its channel are there; the topology is next.
Connected ==
  /\ connecting = "connect"
  /\ connecting' = "declare"
  /\ ch' = "open"
  /\ UNCHANGED <<enabled, bound, pub, faulted>>

declareTopology ==
  /\ connecting = "declare" /\ ch = "open"
  /\ connecting' = "resolved"
  /\ bound' = TRUE
  /\ pub' = Settle("waiting", "ready")
  /\ UNCHANGED <<enabled, ch, faulted>>

\* connect() rejects: the promise is kept, and with it the failure.
ConnectErrs ==
  /\ connecting \in {"connect", "declare"}
  /\ connecting' = "rejected"
  /\ ch' = IF ch = "null" THEN "null" ELSE "closed"
  /\ pub' = Settle("waiting", "lost")
  /\ faulted' = TRUE
  /\ UNCHANGED <<enabled, bound>>

\* The broker or the network closes the channel: this.ch stays.
ChannelCloses ==
  /\ ch = "open" /\ connecting = "resolved"
  /\ ch' = "closed"
  /\ faulted' = TRUE
  /\ UNCHANGED <<enabled, connecting, bound, pub>>

\* The rest of publish: ch.publish, which throws on a closed channel.
Send(r) ==
  /\ pub[r] = "ready"
  /\ pub' = [pub EXCEPT ![r] =
               IF ch # "open" THEN "lost" ELSE IF bound THEN "queued" ELSE "unrouted"]
  /\ UNCHANGED <<enabled, ch, connecting, bound, faulted>>

\* The worker declares the same topology when it starts.
WorkerDeclares ==
  /\ bound' = TRUE
  /\ UNCHANGED <<enabled, ch, connecting, pub, faulted>>

\* onModuleDestroy, or the death of the process, and a new process.
StopPublisher ==
  /\ ch' = "null"
  /\ connecting' = "null"
  /\ pub' = [r \in Requests |-> IF pub[r] \in {"waiting", "ready"} THEN "lost" ELSE pub[r]]
  /\ faulted' = TRUE
  /\ UNCHANGED <<enabled, bound>>

PublisherNext ==
  \/ Connected \/ declareTopology \/ ConnectErrs \/ ChannelCloses \/ WorkerDeclares
  \/ \E r \in Requests : Send(r)

================================================================================
