------------------------------- MODULE Assembly -------------------------------
(***************************************************************************)
(* One deployment of the service over its starts, crashes and restarts:    *)
(* config.LoadFromEnv, runtime.New with the startup schema of worker.go    *)
(* (ClickHouse tables, MySQL tables), and then the two things the schema   *)
(* is for, the acceptance of events and their ingestion by the same        *)
(* process.  What lies outside (databases, brokers, files) can fail at     *)
(* every step, and DDL that failed may have run.                           *)
(*                                                                         *)
(* The stages of runtime.New that touch no schema are in Lifecycle, the    *)
(* steps of a request in Collect, those of a write in DynamicTableWriter.  *)
(***************************************************************************)
EXTENDS Configuration

CONSTANTS
    Environments,   \* the environments a deployment may have
    RouteKey        \* RouteKey[s]: the table family of scope s; source types share it

ASSUME EnvironmentsAssumption == Environments \subseteq Settings

VARIABLES
    env,            \* the environment of this deployment
    phase,          \* how far the process is
    at,             \* the startup source and table the schema steps are at
    fault,          \* why the last start failed
    tables,         \* the tables ClickHouse has: <<family, kind>>
    metadata,       \* the tables MySQL has
    queue           \* the scopes of the events that were acknowledged, not ingested

vars == <<env, phase, at, fault, tables, metadata, queue>>

Checkpoints == {"event_status", "property_status", "catalog"}
Starting == {"load", "assemble", "catalog_reader", "app", "writer", "create", "validate"}
                \cup Checkpoints
Phases   == Starting \cup {"refused", "failed", "serving"}
Kinds    == {"event", "property"}
Families == {RouteKey[s] : s \in Scopes}

\* The tables an event of scope s is written to.
Family(s) == {<<RouteKey[s], "event">>}
                \cup (IF env.indexing THEN {<<RouteKey[s], "property">>} ELSE {})

First == [source |-> 1, kind |-> "event"]
Table == <<RouteKey[ScopeOf[env.sources[at.source]]], at.kind>>

----------------------------------------------------------------------------
\* Nothing else ever looks at a schema: it may then as well be empty.
Init ==
    /\ env \in Environments
    /\ phase = "load"
    /\ at = First
    /\ fault = "none"
    /\ tables \in IF env.ingestion THEN SUBSET (Families \X Kinds) ELSE {{}}
    /\ metadata \in IF env.ingestion \/ env.query THEN SUBSET Checkpoints ELSE {{}}
    /\ queue = {}

Goes(label) == phase' = label /\ at' = First /\ UNCHANGED fault
Fails(why)  == phase' = "failed" /\ at' = First /\ fault' = why

\* main: log.Fatal on an environment that config refuses.
Load ==
    /\ phase = "load"
    /\ Goes(IF LoadFromEnv(env) THEN "assemble" ELSE "refused")
    /\ UNCHANGED <<env, tables, metadata, queue>>

\* A stage of runtime.New that looks at the environment alone goes on to the next one, or
\* fails for one of faults.
Checks(faults, next) ==
    /\ \/ \E why \in faults : Fails(why)
       \/ faults = {} /\ Goes(next)
    /\ UNCHANGED <<env, tables, metadata, queue>>

Refused == Fails("outside") /\ UNCHANGED <<env, tables, metadata, queue>>

\* runtime.New up to the query reader.
Assemble ==
    /\ phase = "assemble"
    /\ \/ Checks(AssembleFaults(env), IF env.query /\ env.mysql THEN "catalog_reader" ELSE "app")
       \/ Refused

\* A MySQL table is migrated, or required if required says so, or taken for granted.
Provides(table, required, next) ==
    /\ \/ /\ env.mysqlMigrate
          /\ metadata' = metadata \cup {table} /\ Goes(next)
       \/ /\ env.mysqlMigrate
          /\ metadata' \in {metadata, metadata \cup {table}} /\ Fails("outside")
       \/ /\ ~env.mysqlMigrate /\ (required => table \in metadata)
          /\ UNCHANGED metadata /\ Goes(next)
       \/ /\ ~env.mysqlMigrate /\ required
          /\ UNCHANGED metadata /\ Fails("schema")
    /\ UNCHANGED <<env, tables, queue>>

\* newPropertyCatalogReader
ReadCatalog == phase = "catalog_reader" /\ Provides("catalog", TRUE, "app")

\* collectapi.NewApp; the catalog may have been migrated by then.
BuildApp ==
    /\ phase = "app"
    /\ Checks(AppFaults(env), IF env.ingestion THEN "writer" ELSE "serving")

\* newIngestionProcessor opens MySQL and ClickHouse, newEventWriter builds its router.
OpenWriter ==
    /\ phase = "writer"
    /\ \/ Checks(WriterFaults(env), IF env.autoMigrate THEN "create" ELSE "validate")
       \/ Refused

\* The position of createClickHouseTables and validateClickHouseTables.
Exhausted == at.source > Len(env.sources)
Skipped   == env.sources[at.source] \notin Enabled
Onward    == [source |-> at.source + 1, kind |-> "event"]
Following == IF at.kind = "event" /\ env.indexing THEN [at EXCEPT !.kind = "property"] ELSE Onward

Advances(position) == at' = position /\ UNCHANGED <<phase, fault>>

\* A disabled source gets no tables, and needs none.
Skip ==
    /\ phase \in {"create", "validate"} /\ ~Exhausted /\ Skipped
    /\ Advances(Onward)
    /\ UNCHANGED <<env, tables, metadata, queue>>

\* CREATE TABLE IF NOT EXISTS; with an error it may have run, without one it may
\* not be visible yet.
CreateTable ==
    /\ phase = "create" /\ ~Exhausted /\ ~Skipped
    /\ tables' \in {tables, tables \cup {Table}}
    /\ Advances(Following) \/ Fails("outside")
    /\ UNCHANGED <<env, metadata, queue>>

\* Mutant: tables the process has just asked for are not looked for again.
CreatedTrusted ==
    /\ phase = "create" /\ Exhausted
    /\ Goes("event_status")
    /\ UNCHANGED <<env, tables, metadata, queue>>

\* Created or not, the tables are looked for.
Created ==
    /\ phase = "create" /\ Exhausted
    /\ Goes("validate")
    /\ UNCHANGED <<env, tables, metadata, queue>>

\* requireClickHouseTable: the query fails, finds nothing, or finds the table.
ValidateTable ==
    /\ phase = "validate" /\ ~Exhausted /\ ~Skipped
    /\ \/ Fails("outside")
       \/ Table \notin tables /\ Fails("schema")
       \/ Table \in tables /\ Advances(Following)
    /\ UNCHANGED <<env, tables, metadata, queue>>

Validated ==
    /\ phase = "validate" /\ Exhausted
    /\ Goes("event_status")
    /\ UNCHANGED <<env, tables, metadata, queue>>

\* newEventWriter: of the MySQL tables only the catalog is ever required.
AfterEventStatus ==
    IF env.indexing THEN "property_status" ELSE IF env.cataloging THEN "catalog" ELSE "serving"
AfterPropertyStatus == IF env.cataloging THEN "catalog" ELSE "serving"

GuardEvents     == phase = "event_status" /\ Provides("event_status", FALSE, AfterEventStatus)
GuardProperties == phase = "property_status"
                      /\ Provides("property_status", FALSE, AfterPropertyStatus)
CatalogProperties == phase = "catalog" /\ Provides("catalog", TRUE, "serving")

----------------------------------------------------------------------------
Acknowledges(a) ==
    /\ a.err = "nil"
    /\ Bound(env) => OnSurface(a.source, env.ingestion, Listed(env))
    /\ queue' = queue \cup {ScopeOf[a.source]}

\* A collect request is answered 202: its write key resolves, in the sources of the
\* environment or to whatever the control plane holds at the time.
Accept ==
    /\ phase = "serving"
    /\ \E k \in Keys :
          IF env.resolver = "memory" THEN Acknowledges(ResolveInMemory(env, k))
          ELSE \E h \in Holdings : Acknowledges(Verdict(k, h))
    /\ UNCHANGED <<env, phase, at, fault, tables, metadata>>

\* The MySQL tables a write goes through.
Guards == {"event_status"} \cup (IF env.indexing THEN {"property_status"} ELSE {})
                           \cup (IF env.cataloging THEN {"catalog"} ELSE {})

Ingesting == phase = "serving" /\ env.ingestion

\* The worker ingests an event; in http mode the table writer creates what is missing.
Ingest(s) ==
    /\ Ingesting /\ s \in queue
    /\ IF env.resolver = "http" THEN tables' = tables \cup Family(s)
       ELSE Family(s) \subseteq tables /\ UNCHANGED tables
    /\ Guards \subseteq metadata
    /\ queue' = queue \ {s}
    /\ UNCHANGED <<env, phase, at, fault, metadata>>

\* It fails and the event stays; some of its tables may have been created.
IngestFails(s) ==
    /\ Ingesting /\ s \in queue /\ env.resolver = "http"
    /\ \E created \in SUBSET Family(s) : tables' = tables \cup created
    /\ UNCHANGED <<env, phase, at, fault, metadata, queue>>

\* Mutant: the record of the last start outlives it.
RestartKeepsFault ==
    /\ phase' = "load" /\ at' = First
    /\ queue' = IF env.bus = "direct" THEN {} ELSE queue
    /\ UNCHANGED <<env, fault, tables, metadata>>

\* The process ends, by itself or by a crash, and is started again.  An in-memory
\* bus goes with it, Redis and Kafka keep what they took.
Restart ==
    /\ phase' = "load" /\ at' = First /\ fault' = "none"
    /\ queue' = IF env.bus = "direct" THEN {} ELSE queue
    /\ UNCHANGED <<env, tables, metadata>>

Schema == ReadCatalog \/ Skip \/ CreateTable \/ Created \/ ValidateTable \/ Validated
             \/ GuardEvents \/ GuardProperties \/ CatalogProperties

Next ==
    \/ Load \/ Assemble \/ BuildApp \/ OpenWriter \/ Schema \/ Accept
    \/ \E s \in Scopes : Ingest(s) \/ IngestFails(s)
    \/ Restart

Spec == Init /\ [][Next]_vars

----------------------------------------------------------------------------
TypeOK ==
    /\ env \in Settings
    /\ phase \in Phases
    /\ at \in [source : Nat \ {0}, kind : Kinds]
    /\ fault \in {"none", "sources", "endpoint", "modes", "prefix", "routes", "outside", "schema"}
    /\ tables \subseteq Families \X Kinds
    /\ metadata \subseteq Checkpoints
    /\ queue \subseteq Scopes
    /\ fault # "none" <=> phase = "failed"

\* What LoadFromEnv lets through, runtime.New never refuses for the modes it combines:
\* a bus and its security settings, a resolver, read routes and their credentials.  The
\* checks of config (config.go:213-265) are repeated in four packages and agree with them
\* (runtime.go:161-176, 347, 541; kafka_bus.go:74; handler.go:138; http_resolver.go:60).
\* What it may still refuse are values config never looks at: sources, the endpoint,
\* route paths and the table prefix.
AcceptedModesAssemble == fault # "modes"

\* Whenever the process ingests, every event it or an earlier process acknowledged
\* has the tables its write needs, unless there is no startup source at all and the
\* writer is to create them: validation, schema gate and property_catalog check
\* cover each other across crashes (worker.go:216-218, "Otherwise /collect can
\* return 202 while queue messages are repeatedly retried").
AckedHasTables ==
    Ingesting =>
       /\ env.cataloging => "catalog" \in metadata
       /\ \A s \in queue : env.sources = <<>> \/ Family(s) \subseteq tables

\* A process in memory mode answers for every write key as an up-to-date reading of
\* the one source listed for it would, and knows no other key.
MemoryAnswers ==
    phase = "serving" /\ env.resolver = "memory" =>
       \A k \in Keys \cup {BlankKey} :
          LET listed == {d \in Listed(env) : KeyOf[d] = k} IN
          /\ listed = {} => ResolveInMemory(env, k) = Verdict(k, Missing)
          /\ \A d \in listed : ResolveInMemory(env, k) = Verdict(k, d)

\* An acknowledged event goes away only by being ingested, whatever crashes, unless
\* the operator asked for the in-memory bus (config.go:211-212, "Refuse a startup
\* mode that would acknowledge /collect without a durable enqueue path").
AckedSurvives ==
    [][\A s \in queue \ queue' :
          \/ env.allowInMemoryBus
          \/ Ingesting /\ Ingesting' /\ Family(s) \subseteq tables' /\ Guards \subseteq metadata]_vars
=============================================================================
