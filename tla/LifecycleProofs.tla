---------------------------- MODULE LifecycleProofs ----------------------------
(***************************************************************************)
(* One process, with any optional stages and any number of requests: the   *)
(* types; that what a stage has opened is closed again when a later stage  *)
(* fails or the process returns; and, as long as Shutdown always reaches   *)
(* the server, that nothing is closed under an HTTP handler.               *)
(***************************************************************************)
EXTENDS Lifecycle, TLAPS

StageNames == {"resolver", "geo", "bus", "kafka_sources", "tracker", "query_reader",
               "property_catalog", "app", "mysql", "clickhouse", "writer", "processor"}

LEMMA WhenOnType ==
    /\ WhenOn("geo") \in Seq(StageNames) /\ WhenOn("query_reader") \in Seq(StageNames)
    /\ WhenOn("property_catalog") \in Seq(StageNames)
<1>1. ASSUME NEW s \in StageNames
      PROVE  WhenOn(s) \in Seq(StageNames)
    BY DEF WhenOn
<1> QED
    BY <1>1 DEF StageNames

LEMMA PartsType ==
    /\ Ingestion \in Seq(StageNames) /\ <<"resolver">> \in Seq(StageNames)
    /\ <<"bus", "kafka_sources", "tracker">> \in Seq(StageNames) /\ <<"app">> \in Seq(StageNames)
    /\ <<>> \in Seq(StageNames)
BY DEF Ingestion, StageNames

LEMMA StagesType == Stages \in Seq(StageNames)
BY WhenOnType, PartsType DEF Stages

LEMMA LastOfConcat ==
    ASSUME NEW S, NEW s \in Seq(S), NEW t \in Seq(S), Len(t) > 0
    PROVE  Len(s \o t) > 0 /\ (s \o t)[Len(s \o t)] = t[Len(t)]
<1>1. Len(s \o t) = Len(s) + Len(t) /\ Len(s) \in Nat /\ Len(t) \in Nat
    OBVIOUS
<1>2. Len(s) + Len(t) \in 1..(Len(s) + Len(t)) /\ Len(s) + Len(t) > Len(s)
    BY <1>1
<1>3. (s \o t)[Len(s) + Len(t)] = t[Len(s) + Len(t) - Len(s)]
    BY <1>1, <1>2
<1> QED
    BY <1>1, <1>3

\* New has its closers back by the last stage.
LEMMA LastStage == Len(Stages) > 0 /\ Stages[Len(Stages)] \in {"app", "processor"}
<1> DEFINE First == <<"resolver">> \o WhenOn("geo") \o <<"bus", "kafka_sources", "tracker">>
                       \o WhenOn("query_reader") \o WhenOn("property_catalog")
           Worker == IF IngestionEnabled THEN Ingestion ELSE <<>>
<1>1. First \in Seq(StageNames)
    BY WhenOnType, PartsType
<1>2. Stages = First \o <<"app">> \o Worker
    BY DEF Stages
<1> HIDE DEF First
<1>3. First \o <<"app">> \in Seq(StageNames) /\ <<"app">> \in Seq(StageNames)
    BY <1>1, PartsType
<1>4. CASE IngestionEnabled
    <2>1. Worker = Ingestion /\ Worker \in Seq(StageNames)
        BY <1>4, PartsType
    <2>2. Len(Ingestion) = 4 /\ Ingestion[4] = "processor" /\ Len(Ingestion) > 0
        BY DEF Ingestion
    <2> DEFINE Before == First \o <<"app">>
    <2>3. Before \in Seq(StageNames) /\ Ingestion \in Seq(StageNames) /\ Stages = Before \o Ingestion
        BY <1>2, <1>3, <2>1
    <2> HIDE DEF Before, Worker
    <2>4. Len(Before \o Ingestion) > 0
          /\ (Before \o Ingestion)[Len(Before \o Ingestion)] = Ingestion[Len(Ingestion)]
        BY <2>2, <2>3, LastOfConcat, Zenon
    <2> QED
        BY <2>2, <2>3, <2>4
<1>5. CASE ~IngestionEnabled
    <2>1. Worker = <<>>
        BY <1>5
    <2> HIDE DEF Worker
    <2>2. Stages = First \o <<"app">>
        BY <1>2, <1>3, <2>1
    <2>3. Len(<<"app">>) = 1 /\ <<"app">>[1] = "app"
        OBVIOUS
    <2> QED
        BY <1>1, <1>3, <2>2, <2>3, LastOfConcat
<1> QED
    BY <1>4, <1>5

\* What the slice of the function at work, and later the runtime, owns of what is open: all
\* of it, but for the handle of the stage that is being tried or has failed.
Owned ==
    /\ main = "build" =>
          /\ open \subseteq Range(slice) \cup (IF built < Len(Stages) THEN {Stage} ELSE {})
          /\ Range(slice) \subseteq open
          /\ built = Len(Stages) => closers = slice
    /\ main \in {"undo", "failed"} => open \subseteq Range(closers) \cup ({Stage} \cap ThroughGorm)
    /\ main \in {"failed", "closed"} => Range(closers) \cap open = {}
    /\ main \notin {"build", "undo", "failed"} => open \subseteq Range(closers)
    /\ main \in {"select", "shutdown", "shutdown_wait", "await_server", "fatal"} =>
          Range(closers) \subseteq open
    /\ main \in {"build", "undo", "failed"} => requests = 0 /\ ~stopping

IInv == TypeOK /\ Owned

----------------------------------------------------------------------------
LEMMA InitIInv == Init => IInv
<1> SUFFICES ASSUME Init
             PROVE  IInv
    OBVIOUS
<1>1. Len(Stages) \in Nat /\ Len(Stages) > 0 /\ MaxRequests \in Nat
    BY StagesType, LastStage, ConfigAssumption
<1>2. closers = <<>> /\ slice = <<>> /\ slice \in Seq(Opening) /\ Range(slice) = {}
    BY DEF Init, Range
<1>3. stopping \in BOOLEAN /\ signalled \in BOOLEAN /\ ~stopping
    BY Zenon DEF Init
<1>4. TypeOK
    BY <1>1, <1>2, <1>3 DEF Init, TypeOK
<1>5. Owned
    BY <1>1, <1>2, <1>3 DEF Init, Owned
<1> QED
    BY <1>4, <1>5 DEF IInv

LEMMA AppendRange ==
    ASSUME NEW S, NEW s \in Seq(S), NEW e \in S
    PROVE  Append(s, e) \in Seq(S) /\ Range(Append(s, e)) = Range(s) \cup {e}
<1>1. Append(s, e) \in Seq(S) /\ DOMAIN Append(s, e) = 1..(Len(s) + 1) /\ Len(s) \in Nat
      /\ DOMAIN s = 1..Len(s)
    OBVIOUS
<1>2. Append(s, e)[Len(s) + 1] = e /\ \A i \in 1..Len(s) : Append(s, e)[i] = s[i]
    OBVIOUS
<1> QED
    BY <1>1, <1>2 DEF Range

\* A stage opens its handle or succeeds.
LEMMA StageStep ==
    ASSUME IInv, StageOpens \/ StageSucceeds
    PROVE  IInv'
<1>1. /\ main = "build" /\ main' = main /\ built < Len(Stages) /\ Len(Stages) \in Nat
      /\ built \in Nat /\ slice \in Seq(Opening) /\ closers \in Seq(Opening)
      /\ open \subseteq Opening
    BY StagesType DEF StageOpens, StageSucceeds, Building, IInv, TypeOK
<1>2. CASE StageOpens
    BY <1>1, <1>2 DEF StageOpens, IInv, TypeOK, Owned, Stage, goroutines
<1>3. CASE StageSucceeds
    <2>1. /\ built' = built + 1 /\ built' \in 0..Len(Stages) /\ open' = open
          /\ Stage \in Opening => Stage \in open
        BY <1>1, <1>3 DEF StageSucceeds
    <2>2. slice' \in Seq(Opening) /\ Range(slice') = Range(slice) \cup ({Stage} \cap Opening)
        <3>1. CASE Stage \in Opening
            BY <1>1, <1>3, <3>1, AppendRange DEF StageSucceeds
        <3>2. CASE Stage \notin Opening
            BY <1>1, <1>3, <3>2 DEF StageSucceeds
        <3> QED
            BY <3>1, <3>2
    <2>3. closers' \in Seq(Opening)
        BY <1>1, <1>3, <2>2 DEF StageSucceeds
    <2>4. built' = Len(Stages) => closers' = slice'
        <3>1. built' = Len(Stages) => Stage \in {"app", "processor"}
            BY <1>1, <2>1, LastStage DEF Stage
        <3>2. Range(Ingestion) = {"mysql", "clickhouse", "writer", "processor"}
            BY DEF Range, Ingestion
        <3> QED
            BY <1>3, <3>1, <3>2 DEF StageSucceeds
    <2>5. open' \subseteq Range(slice') /\ Range(slice') \subseteq open'
        BY <1>1, <2>1, <2>2 DEF IInv, Owned
    <2>6. TypeOK'
        BY <1>1, <1>3, <2>1, <2>2, <2>3 DEF StageSucceeds, IInv, TypeOK, goroutines, Opening
    <2>7. Owned'
        BY <1>1, <1>3, <2>4, <2>5 DEF StageSucceeds, IInv, Owned, goroutines
    <2> QED
        BY <2>6, <2>7 DEF IInv
<1> QED
    BY <1>2, <1>3

\* A stage fails: New has the closers of all stages before it.
LEMMA FailStep ==
    ASSUME IInv, StageFails \/ StageAbandonsPool
    PROVE  IInv'
<1>1. /\ main = "build" /\ main' = "undo" /\ closers' = slice /\ built < Len(Stages)
      /\ UNCHANGED <<built, slice, server, requests, worker, stopping, signalled>>
      /\ Stage' = Stage
    BY DEF StageFails, StageAbandonsPool, Building, ReturnError, goroutines, Stage
<1>2. open' \subseteq Opening /\ open' \subseteq Range(closers') \cup ({Stage} \cap ThroughGorm)
    BY <1>1 DEF StageFails, StageAbandonsPool, IInv, TypeOK, Owned
<1>3. TypeOK'
    BY <1>1, <1>2 DEF IInv, TypeOK, Opening
<1>4. Owned'
    BY <1>1, <1>2 DEF IInv, Owned, ThroughGorm
<1> QED
    BY <1>3, <1>4 DEF IInv

\* closeAll closes nothing but closers, and ends with all of them closed.
LEMMA CloseStep ==
    ASSUME IInv, CloseNext \/ CloseEnds
    PROVE  IInv'
<1>1. CASE CloseNext
    <2>1. /\ main \in {"undo", "closing"} /\ open' \subseteq open
          /\ Range(closers) \cup (open' \ open) = Range(closers)
          /\ UNCHANGED <<main, built, closers, slice, server, requests, worker, stopping, signalled>>
        BY <1>1 DEF CloseNext, goroutines
    <2>2. Stage' = Stage
        BY <2>1 DEF Stage
    <2> QED
        BY <2>1, <2>2 DEF IInv, TypeOK, Owned, Opening
<1>2. CASE CloseEnds
    <2>1. /\ main \in {"undo", "closing"} /\ main' = (IF main = "undo" THEN "failed" ELSE "closed")
          /\ Range(closers) \cap open = {}
          /\ UNCHANGED <<built, open, closers, slice, server, requests, worker, stopping, signalled>>
        BY <1>2 DEF CloseEnds, startup, goroutines
    <2>2. Stage' = Stage
        BY <2>1 DEF Stage
    <2> QED
        BY <2>1, <2>2 DEF IInv, TypeOK, Owned, Opening
<1> QED
    BY <1>1, <1>2

\* main runs, and goes on towards its end.
LEMMA SelectStep ==
    ASSUME IInv, Start \/ ServerBranch \/ WorkerBranch \/ SignalBranch
                    \/ ShutdownCalled \/ ShutdownReturns \/ AwaitServer
    PROVE  IInv'
<1>1. stopping' \in BOOLEAN /\ (Start => stopping' = stopping)
    BY ConfigAssumption DEF Start, ServerBranch, WorkerBranch, SignalBranch,
       ShutdownCalled, ShutdownReturns, AwaitServer, IInv, TypeOK
<1>2. /\ main' \in {"select", "shutdown", "shutdown_wait", "await_server", "closing", "fatal"}
      /\ UNCHANGED <<built, open, closers, slice, requests, signalled>>
      /\ server' \in {server, "starting"} /\ worker' \in {worker, "idle", "none"}
    BY DEF Start, ServerBranch, WorkerBranch, SignalBranch, ShutdownCalled, ShutdownReturns,
       AwaitServer, Return, Fatal, startup, goroutines
<1>3. \/ main = "build" /\ built = Len(Stages)
      \/ main \in {"select", "shutdown", "shutdown_wait", "await_server"}
    BY DEF Start, ServerBranch, WorkerBranch, SignalBranch, ShutdownCalled, ShutdownReturns,
       AwaitServer
<1>4. open \subseteq Range(closers) /\ Range(closers) \subseteq open
    BY <1>3 DEF IInv, Owned
<1>5. TypeOK'
    BY <1>1, <1>2 DEF IInv, TypeOK, Opening
<1>6. Owned'
    BY <1>2, <1>4 DEF Owned
<1> QED
    BY <1>5, <1>6 DEF IInv

\* The other goroutines.
OthersNext ==
    \/ Signal \/ Listen \/ Request \/ RequestDone \/ ServerReturns
    \/ WorkerTakes \/ WorkerWrites \/ WorkerReturns

LEMMA OthersStep ==
    ASSUME IInv, OthersNext
    PROVE  IInv' /\ Running /\ UNCHANGED <<main, built, open, closers, slice, stopping>>
<1>1. /\ Running /\ UNCHANGED <<main, built, open, closers, slice, stopping>>
      /\ main \in {"select", "shutdown", "shutdown_wait", "await_server", "closing"}
    BY DEF OthersNext, Signal, Listen, Request, RequestDone, ServerReturns, WorkerTakes,
       WorkerWrites, WorkerReturns, Running, startup, goroutines
<1>2. requests' \in 0..MaxRequests
    BY ConfigAssumption DEF OthersNext, Signal, Listen, Request, RequestDone, ServerReturns,
       WorkerTakes, WorkerWrites, WorkerReturns, IInv, TypeOK, goroutines
<1>3. server' \in {"none", "starting", "listening", "stopped", "failed"}
    BY DEF OthersNext, Signal, Listen, Request, RequestDone, ServerReturns, WorkerTakes,
       WorkerWrites, WorkerReturns, IInv, TypeOK, goroutines
<1>4. worker' \in {"none", "idle", "writing", "cancelled", "failed"}
    BY DEF OthersNext, Signal, Listen, Request, RequestDone, ServerReturns, WorkerTakes,
       WorkerWrites, WorkerReturns, IInv, TypeOK, goroutines
<1>5. signalled' \in BOOLEAN
    BY DEF OthersNext, Signal, Listen, Request, RequestDone, ServerReturns, WorkerTakes,
       WorkerWrites, WorkerReturns, IInv, TypeOK, goroutines
<1>6. TypeOK'
    BY <1>1, <1>2, <1>3, <1>4, <1>5 DEF IInv, TypeOK, Opening
<1>7. Owned'
    BY <1>1 DEF IInv, Owned
<1> QED
    BY <1>1, <1>6, <1>7 DEF IInv

LEMMA InvStep == ASSUME IInv, [Next]_vars PROVE IInv'
<1>1. CASE UNCHANGED vars
    <2>1. Stage' = Stage /\ Opening' = Opening
        BY <1>1 DEF vars, startup, Stage, Opening
    <2> QED
        BY <1>1, <2>1 DEF vars, startup, goroutines, IInv, TypeOK, Owned
<1> QED
    BY <1>1, StageStep, FailStep, CloseStep, SelectStep, OthersStep DEF Next, MainSteps, OthersNext

LEMMA IInvInvariant == Spec => []IInv
BY InitIInv, InvStep, PTL DEF Spec

\* The types.
THEOREM TypeCorrect == Spec => []TypeOK
BY IInvInvariant, PTL DEF IInv

\* A startup that fails at any stage, and a process that returns, leave nothing open but, at
\* most, the pool of the failing stage that GORM could not hand over.
THEOREM EndReleases == Spec => []ReleasedAtEnd
<1>1. IInv => ReleasedAtEnd
    BY DEF IInv, Owned, ReleasedAtEnd
<1> QED
    BY <1>1, IInvInvariant, PTL

----------------------------------------------------------------------------
\* Who may still be running when main returns.
Draining ==
    /\ main = "select" => ~stopping /\ server # "stopped"
    /\ main = "await_server" => stopping /\ requests = 0
    /\ main \in {"closing", "closed"} => requests = 0
    /\ main = "closing" => stopping
    /\ main = "build" => server = "none"

LEMMA DrainingInit == Init => Draining
BY DEF Init, Draining

\* main returns only after the server has drained.
LEMMA DrainingMain ==
    ASSUME IInv, Draining, ~EarlyShutdownLost, MainSteps
    PROVE  Draining'
<1>1. CASE StageOpens \/ StageSucceeds \/ StageFails \/ StageAbandonsPool
    BY <1>1 DEF StageOpens, StageSucceeds, StageFails, StageAbandonsPool, Building, ReturnError,
       goroutines, Draining
<1>2. CASE Start
    BY <1>2 DEF Start, startup, Draining, IInv, Owned
<1>3. CASE CloseNext \/ CloseEnds
    BY <1>3 DEF CloseNext, CloseEnds, startup, goroutines, Draining
<1>4. CASE ServerBranch \/ WorkerBranch \/ SignalBranch
    BY <1>4 DEF ServerBranch, WorkerBranch, SignalBranch, Return, Fatal, startup, goroutines, Draining
<1>5. CASE ShutdownCalled
    <2>1. stopping'
        BY <1>5 DEF ShutdownCalled
    <2> QED
        BY <1>5, <2>1 DEF ShutdownCalled, startup, goroutines, Draining
<1>6. CASE ShutdownReturns \/ AwaitServer
    BY <1>6 DEF ShutdownReturns, AwaitServer, Return, startup, goroutines, Draining
<1> QED
    BY <1>1, <1>2, <1>3, <1>4, <1>5, <1>6 DEF MainSteps

LEMMA DrainingOthers ==
    ASSUME IInv, Draining, OthersNext
    PROVE  Draining'
<1>1. Running /\ UNCHANGED <<main, stopping>>
    BY OthersStep
<1>2. ASSUME main \in {"await_server", "closing"}
      PROVE  requests' = 0
    <2>1. stopping /\ requests = 0
        BY <1>2 DEF Draining
    <2>2. ~Request /\ ~RequestDone
        BY <2>1 DEF Request, RequestDone
    <2> QED
        BY <2>1, <2>2 DEF OthersNext, Signal, Listen, ServerReturns, WorkerTakes, WorkerWrites,
           WorkerReturns, goroutines
<1>3. main = "select" => server' # "stopped"
    BY DEF OthersNext, Signal, Listen, Request, RequestDone, ServerReturns, WorkerTakes,
       WorkerWrites, WorkerReturns, Draining, goroutines
<1> QED
    BY <1>1, <1>2, <1>3 DEF Running, Draining

\* A Shutdown that cannot be lost drains the server before anything is closed.
THEOREM DrainedFirst ==
    ASSUME ~EarlyShutdownLost
    PROVE  Spec => []HandlersDrainedFirst
<1>1. IInv /\ Draining /\ [Next]_vars => Draining'
    <2>1. IInv /\ Draining /\ UNCHANGED vars => Draining'
        BY DEF vars, goroutines, Draining
    <2> QED
        BY <2>1, DrainingMain, DrainingOthers DEF Next, OthersNext
<1>2. IInv /\ Draining => HandlersDrainedFirst
    BY DEF IInv, TypeOK, Owned, Draining, HandlersDrainedFirst
<1> QED
    BY <1>1, <1>2, DrainingInit, IInvInvariant, PTL DEF Spec
=============================================================================
