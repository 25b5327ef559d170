------------------------------ MODULE Lifecycle ------------------------------
(***************************************************************************)
(* The life of one process: cmd/simpletrack-analytics-service/main.go and  *)
(* the assembly and teardown in internal/runtime.  main builds the runtime *)
(* stage by stage; each stage may open a handle, and may fail before or    *)
(* after it has.  Then three goroutines run: main in its select, the HTTP  *)
(* server, and (when ingestion is enabled) the queue worker.  Signals, a   *)
(* failing listener and a failing worker race for the select.              *)
(***************************************************************************)
EXTENDS Naturals, Sequences, SequencesExt

CONSTANTS
    IngestionEnabled,   \* cfg.IngestionEnabled
    DirectBus,          \* cfg.EventBus = "direct": the in-memory bus has no closer
    Optional,           \* the other optional stages this deployment turns on
    MaxRequests,        \* bound on HTTP requests in flight
    EarlyShutdownLost   \* Shutdown has no effect on a server that is not listening yet

ASSUME ConfigAssumption ==
    /\ IngestionEnabled \in BOOLEAN /\ DirectBus \in BOOLEAN /\ EarlyShutdownLost \in BOOLEAN
    /\ Optional \subseteq {"geo", "query_reader", "property_catalog"}
    /\ MaxRequests \in Nat

VARIABLES
    main,       \* where main is
    built,      \* stages of runtime.New that succeeded
    open,       \* the handles that are open, each named after the stage that opened it
    closers,    \* New's closers, later Runtime.closers
    slice,      \* the closers of the function at work: New's own, or newIngestionProcessor's
    server,     \* the goroutine in App.Listen
    stopping,   \* App.Shutdown has reached the server
    requests,   \* HTTP requests that Shutdown waits for
    worker,     \* the goroutine in Processor.Run
    signalled   \* ctx.Done()

startup == <<built, open, closers, slice>>
goroutines == <<server, requests, worker>>
vars == <<main, startup, goroutines, stopping, signalled>>

----------------------------------------------------------------------------
Ingestion == <<"mysql", "clickhouse", "writer", "processor">>

WhenOn(s) == IF s \in Optional THEN <<s>> ELSE <<>>

\* runtime.New in order; newIngestionProcessor is its last part.
Stages ==
    <<"resolver">> \o WhenOn("geo") \o <<"bus", "kafka_sources", "tracker">>
    \o WhenOn("query_reader") \o WhenOn("property_catalog") \o <<"app">>
    \o (IF IngestionEnabled THEN Ingestion ELSE <<>>)

\* The stages that open a file, a client or a connection, and add a closer for it.
Opening ==
    {"geo", "query_reader", "property_catalog", "mysql", "clickhouse"}
        \cup (IF DirectBus THEN {} ELSE {"bus"})

\* Those that open it through GORM: openClickHouseQuery and openMySQL.
ThroughGorm == {"query_reader", "property_catalog", "mysql"}

\* The stage New is at.
Stage == Stages[built + 1]

Building == main = "build" /\ built < Len(Stages)

Init ==
    /\ main = "build"
    /\ built = 0
    /\ open = {}
    /\ closers = <<>> /\ slice = <<>>
    /\ server = "none"
    /\ stopping = FALSE
    /\ requests = 0
    /\ worker = "none"
    /\ signalled = FALSE

\* A stage opens its handle.  The probe of openMySQL is closed again on either outcome.
StageOpens ==
    /\ Building /\ Stage \in Opening \ open
    /\ open' = open \cup {Stage}
    /\ UNCHANGED <<main, built, closers, slice, goroutines, stopping, signalled>>

\* Mutant: the worker is started as soon as its processor exists.
StageSucceedsStartingWorker ==
    /\ Building /\ (Stage \in Opening => Stage \in open)
    /\ built' = built + 1
    /\ slice' = IF Stage \in Opening THEN Append(slice, Stage) ELSE slice
    /\ closers' = IF Stage \in Range(Ingestion) /\ Stage # "processor" THEN closers ELSE slice'
    /\ worker' = IF Stage = "processor" THEN "idle" ELSE worker
    /\ UNCHANGED <<main, open, server, requests, stopping, signalled>>

\* It succeeds.  newIngestionProcessor appends to its own slice, which New has only once it
\* returns.
StageSucceeds ==
    /\ Building /\ (Stage \in Opening => Stage \in open)
    /\ built' = built + 1
    /\ slice' = IF Stage \in Opening THEN Append(slice, Stage) ELSE slice
    /\ closers' = IF Stage \in Range(Ingestion) /\ Stage # "processor" THEN closers ELSE slice'
    /\ UNCHANGED <<main, open, goroutines, stopping, signalled>>

\* Mutant: newIngestionProcessor returns nil next to its error, and New takes it over.
ReturnErrorAlone ==
    /\ closers' = IF Stage \in Range(Ingestion) THEN <<>> ELSE slice
    /\ main' = "undo"

\* The error travels to New together with the closers there are so far (worker.go:26-50,
\* runtime.go:141-144); New closes them.
ReturnError ==
    /\ closers' = slice
    /\ main' = "undo"

\* It fails before it has opened anything, or closes what it had opened: a ping that is not
\* answered, a missing table, a migration or a constructor that fails.
StageFails ==
    /\ Building
    /\ open' = open \ {Stage}
    /\ ReturnError
    /\ UNCHANGED <<built, slice, goroutines, stopping, signalled>>

\* GORM has opened a pool and gorm.Open or db.DB() fails: the functions return without
\* closing it (runtime.go:451-457, worker.go:290-296).
StageAbandonsPool ==
    /\ Building /\ Stage \in open \cap ThroughGorm
    /\ ReturnError
    /\ UNCHANGED <<built, open, slice, goroutines, stopping, signalled>>

\* closeAll closes the last of the closers first ...
CloseNext ==
    /\ main \in {"undo", "closing"}
    /\ \E i \in 1..Len(closers) :
          /\ closers[i] \in open /\ \A j \in (i + 1)..Len(closers) : closers[j] \notin open
          /\ open' = open \ {closers[i]}
    /\ UNCHANGED <<main, built, closers, slice, goroutines, stopping, signalled>>

\* ... and ends: New returns the error to log.Fatalf, or main returns.
CloseEnds ==
    /\ main \in {"undo", "closing"} /\ Range(closers) \cap open = {}
    /\ main' = IF main = "undo" THEN "failed" ELSE "closed"
    /\ UNCHANGED <<startup, goroutines, stopping, signalled>>

\* NotifyContext, Runtime.Start and the Listen goroutine.
Start ==
    /\ main = "build" /\ built = Len(Stages)
    /\ main' = "select"
    /\ server' = "starting"
    /\ worker' = IF IngestionEnabled THEN "idle" ELSE "none"
    /\ UNCHANGED <<startup, stopping, requests, signalled>>

\* The process is alive past startup.
Running == main \in {"select", "shutdown", "shutdown_wait", "await_server", "closing"}

Signal ==
    /\ Running /\ ~signalled
    /\ signalled' = TRUE
    /\ UNCHANGED <<main, startup, goroutines, stopping>>

----------------------------------------------------------------------------
(* The HTTP server: App.Listen and the handlers (external, Fiber).         *)

Listen ==
    /\ Running /\ server = "starting"
    /\ \/ server' = IF stopping THEN "stopped" ELSE "listening"
       \/ server' = "failed"
    /\ UNCHANGED <<main, startup, stopping, requests, worker, signalled>>

Request ==
    /\ Running /\ server = "listening" /\ ~stopping /\ requests < MaxRequests
    /\ requests' = requests + 1
    /\ UNCHANGED <<main, startup, server, stopping, worker, signalled>>

RequestDone ==
    /\ Running /\ requests > 0
    /\ requests' = requests - 1
    /\ UNCHANGED <<main, startup, server, stopping, worker, signalled>>

\* A stopping server returns nil from Listen; a broken one an error.
ServerReturns ==
    /\ Running /\ server = "listening"
    /\ \/ stopping /\ server' = "stopped"
       \/ server' = "failed"
    /\ UNCHANGED <<main, startup, stopping, requests, worker, signalled>>

----------------------------------------------------------------------------
(* The queue worker: Processor.Run (external, analytics-core).             *)

\* It takes an event and writes it, which uses MySQL and ClickHouse.
WorkerTakes ==
    /\ Running /\ worker = "idle" /\ ~signalled
    /\ worker' = "writing"
    /\ UNCHANGED <<main, startup, server, stopping, requests, signalled>>

WorkerWrites ==
    /\ Running /\ worker = "writing"
    /\ worker' = "idle"
    /\ UNCHANGED <<main, startup, server, stopping, requests, signalled>>

\* Run returns: cancelled, or with an error.
WorkerReturns ==
    /\ Running
    /\ \/ worker = "idle" /\ signalled /\ worker' = "cancelled"
       \/ worker \in {"idle", "writing"} /\ worker' = "failed"
    /\ UNCHANGED <<main, startup, server, stopping, requests, signalled>>

----------------------------------------------------------------------------
(* main's select.                                                          *)

\* main returns into the deferred Close.
Return == main' = "closing"

\* log.Fatalf exits at once: the deferred Close does not run.
Fatal == main' = "fatal"

\* Branch 1: Listen returned.
ServerBranch ==
    /\ main = "select" /\ server \in {"stopped", "failed"}
    /\ IF server = "failed" THEN Fatal ELSE Return
    /\ UNCHANGED <<startup, goroutines, stopping, signalled>>

\* Mutant: the select does not watch the worker's terminal error.
WorkerBranchIgnored ==
    /\ main = "select" /\ worker = "cancelled"
    /\ main' = "shutdown"
    /\ UNCHANGED <<startup, goroutines, stopping, signalled>>

\* Branch 2: the worker returned, with an error or cancelled.
WorkerBranch ==
    /\ main = "select" /\ worker \in {"cancelled", "failed"}
    /\ IF worker = "failed" THEN Fatal ELSE main' = "shutdown"
    /\ UNCHANGED <<startup, goroutines, stopping, signalled>>

\* Mutant: the runtime is closed at once on a signal.
SignalBranchClosing ==
    /\ main = "select" /\ signalled
    /\ Return
    /\ UNCHANGED <<startup, goroutines, stopping, signalled>>

\* Mutant: the cancelled context is taken to stop the server too.
SignalBranchWaiting ==
    /\ main = "select" /\ signalled
    /\ main' = "await_server"
    /\ UNCHANGED <<startup, goroutines, stopping, signalled>>

\* Branch 3: a signal arrived.
SignalBranch ==
    /\ main = "select" /\ signalled
    /\ main' = "shutdown_wait"
    /\ UNCHANGED <<startup, goroutines, stopping, signalled>>

\* App.Shutdown tells the server to stop and returns when its requests are done.
\* Where it has no effect before the listener is bound, it returns at once.
ShutdownCalled ==
    /\ main \in {"shutdown", "shutdown_wait"} /\ ~stopping
    /\ stopping' = (EarlyShutdownLost => server # "starting")
    /\ IF stopping' THEN UNCHANGED main
       ELSE IF main = "shutdown" THEN Return ELSE main' = "await_server"
    /\ UNCHANGED <<startup, goroutines, signalled>>

ShutdownReturns ==
    /\ main \in {"shutdown", "shutdown_wait"} /\ stopping /\ requests = 0
    /\ IF main = "shutdown" THEN Return ELSE main' = "await_server"
    /\ UNCHANGED <<startup, goroutines, stopping, signalled>>

\* <-serverErr, then the deferred Close.
AwaitServer ==
    /\ main = "await_server" /\ server \in {"stopped", "failed"}
    /\ Return
    /\ UNCHANGED <<startup, goroutines, stopping, signalled>>

Ended == main \in {"failed", "closed", "fatal"}

MainSteps ==
    \/ StageOpens \/ StageSucceeds \/ StageFails \/ StageAbandonsPool \/ Start
    \/ CloseNext \/ CloseEnds
    \/ ServerBranch \/ WorkerBranch \/ SignalBranch
    \/ ShutdownCalled \/ ShutdownReturns \/ AwaitServer

Next ==
    \/ MainSteps
    \/ Signal
    \/ Listen \/ Request \/ RequestDone \/ ServerReturns
    \/ WorkerTakes \/ WorkerWrites \/ WorkerReturns

Spec == Init /\ [][Next]_vars

\* main runs; Listen binds or fails and, when told to, returns.  Nothing obliges a client to
\* send, an operator to signal or a dependency to fail, and nothing ends a handler:
\* fiber.New sets no ReadTimeout (handler.go:76), Shutdown has no deadline (main.go:59, 65)
\* and a catalog query to MySQL no timeout.  main never waits for the worker.
FairSpec ==
    /\ Spec
    /\ WF_vars(MainSteps) /\ WF_vars(Listen) /\ WF_vars(stopping /\ ServerReturns)

----------------------------------------------------------------------------
TypeOK ==
    /\ main \in {"build", "undo", "failed", "select", "shutdown", "shutdown_wait",
                 "await_server", "closing", "closed", "fatal"}
    /\ built \in 0..Len(Stages) /\ (main \in {"undo", "failed"} => built < Len(Stages))
    /\ open \subseteq Opening
    /\ closers \in Seq(Opening) /\ slice \in Seq(Opening)
    /\ server \in {"none", "starting", "listening", "stopped", "failed"}
    /\ stopping \in BOOLEAN /\ signalled \in BOOLEAN
    /\ requests \in 0..MaxRequests
    /\ worker \in {"none", "idle", "writing", "cancelled", "failed"}
    /\ main = "build" => server = "none" /\ worker = "none"

\* What was opened by any stage is closed when the startup fails at a later one, in New or
\* in newIngestionProcessor, and when the process returns; all that can stay open is the
\* pool of the failing stage itself, if GORM could not hand it over (worker.go:26-50;
\* runtime.go:130-145, 454-457).
ReleasedAtEnd ==
    /\ main = "failed" => open \subseteq {Stage} \cap ThroughGorm
    /\ main = "closed" => open = {}

\* No HTTP handler is still running on resources that have been closed: main returns
\* into its deferred Close only after Shutdown has drained the server (main.go:59-70).
HandlersDrainedFirst == requests > 0 => Range(closers) \subseteq open


\* main is in a Shutdown that waits for handlers.
WaitsForHandlers == main \in {"shutdown", "shutdown_wait"} /\ stopping /\ requests > 0

\* The process does not go on collecting once its ingestion worker has failed
\* (main.go:41-42): it ends, or has stopped accepting requests and waits for a handler that
\* never returns.
WorkerFailureEnds == (worker = "failed" /\ Running) ~> (Ended \/ []WaitsForHandlers)

\* A signal ends the process (main.go:35-36) unless a handler that was in flight never
\* returns; there is no other way for main to be kept.
SignalEnds == signalled ~> (Ended \/ []WaitsForHandlers)
=============================================================================
