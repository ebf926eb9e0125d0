------------------------------- MODULE HttpServer -------------------------------
(***************************************************************************)
(* The life of a service process as httpx.Server and main see it: started  *)
(* with whatever dependencies answered, stopped by a signal in two stages  *)
(* that share one deadline of 15 seconds, or killed.                       *)
(*                                                                         *)
(* On a signal Run first flushes the log and trace exporters, while the    *)
(* listener still accepts; only then does http.Shutdown close the listener *)
(* and wait for the requests in flight.  When the deadline ends the wait,  *)
(* Shutdown returns an error, main returns and the requests die with it.   *)
(***************************************************************************)

VARIABLES
  phase,   \* down, up, flushing (otelShutdown), draining (http.Shutdown)
  db,      \* db.Connect succeeded when the process started
  s3       \* storage.NewClient made a client when the process started

server == <<phase, db, s3>>

ServerTypeOK ==
  /\ phase \in {"down", "up", "flushing", "draining"}
  /\ db \in BOOLEAN /\ s3 \in BOOLEAN

ServerInit == phase = "down" /\ db = FALSE /\ s3 = FALSE

\* The listener takes new requests.
Accepting_Always == TRUE
Accepting == phase \in {"up", "flushing"}

\* Requests in flight run on.
Serving == phase # "down"

\* What db.Connect and the migrations, and storage.NewClient, may come to.
Connect == {"connected", "unreachable", "migrationsFailed"}
NewClient == {"client", "notConfigured", "unreachable"}

\* main: a failed db.Connect is only logged, S3 that is not configured leaves a nil
\* client.  Failed migrations and an S3 endpoint that does not answer (as a missing
\* internal token and a failed exporter) end main: the process stays down.
Start(postgres, client) ==
  /\ phase = "down"
  /\ postgres \in Connect \ {"migrationsFailed"}
  /\ client \in NewClient \ {"unreachable"}
  /\ phase' = "up"
  /\ db' = (postgres = "connected")
  /\ s3' = (client = "client")

\* SIGINT or SIGTERM: Run goes on to otelShutdown.
Signal ==
  /\ phase = "up"
  /\ phase' = "flushing"
  /\ UNCHANGED <<db, s3>>

\* otelShutdown returned, its error logged: http.Shutdown closes the listener.
Flushed ==
  /\ phase = "flushing"
  /\ phase' = "draining"
  /\ UNCHANGED <<db, s3>>

\* http.Shutdown returns because no request is in flight any more.
Drained_NotWaiting(inFlight) ==
  /\ phase = "draining"
  /\ phase' = "down"
  /\ UNCHANGED <<db, s3>>
Drained(inFlight) ==
  /\ phase = "draining" /\ inFlight = {}
  /\ phase' = "down"
  /\ UNCHANGED <<db, s3>>

\* The deadline ends the wait with requests in flight, or ListenAndServe fails, or
\* the process is killed.
Dies ==
  /\ phase # "down"
  /\ phase' = "down"
  /\ UNCHANGED <<db, s3>>

================================================================================
