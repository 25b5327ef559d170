---------------------------- MODULE AssemblyProofs ----------------------------
(***************************************************************************)
(* For every environment, every list of startup sources and every schema:  *)
(* the modes that config accepts assemble, the in-memory resolver answers  *)
(* like the sources it was built from, acknowledged events survive, and    *)
(* whenever the process ingests they have their tables.                    *)
(*                                                                         *)
(* The inductive invariant carries the checks of one stage of startup to   *)
(* the stages after it: what was validated up to the current source, and   *)
(* that the queue holds events of validated sources only.                  *)
(***************************************************************************)
EXTENDS Assembly, TLAPS

----------------------------------------------------------------------------
\* The tables of startup source i, if it needs any.
Covered(i) == env.sources[i] \in Enabled => Family(ScopeOf[env.sources[i]]) \subseteq tables

Accepted  == phase \notin {"load", "refused"} \/ queue # {} => LoadFromEnv(env)
Faultless == phase \notin {"load", "refused", "assemble", "failed"} => AssembleFaults(env) = {}
Writes    == phase \in {"writer", "create", "validate"} \cup Checkpoints => env.ingestion

\* validateClickHouseTables, up to where it is.
ValidatedSoFar ==
    phase = "validate" =>
       /\ \A i \in DOMAIN env.sources : i < at.source => Covered(i)
       /\ at.kind = "property" => /\ env.indexing
                                  /\ <<RouteKey[ScopeOf[env.sources[at.source]]], "event">> \in tables

SurfaceCovered ==
    env.ingestion /\ phase \in Checkpoints \cup {"serving"} =>
       \A i \in DOMAIN env.sources : Covered(i)

CatalogThere == Ingesting /\ env.cataloging => "catalog" \in metadata

QueueCovered ==
    env.ingestion => \A s \in queue : env.sources = <<>> \/ Family(s) \subseteq tables

IInv ==
    /\ TypeOK
    /\ Accepted
    /\ Faultless
    /\ Writes
    /\ ValidatedSoFar
    /\ SurfaceCovered
    /\ CatalogThere
    /\ QueueCovered
    /\ AcceptedModesAssemble

----------------------------------------------------------------------------
(* Configuration alone.                                                    *)

\* The guards of config and the guards of the packages behind it agree on the modes.
LEMMA LoadedAssembles ==
    ASSUME NEW cfg \in Settings, LoadFromEnv(cfg)
    PROVE  /\ AssembleFaults(cfg) \subseteq {"sources", "endpoint", "prefix"}
           /\ AppFaults(cfg) \subseteq {"routes"}
           /\ WriterFaults(cfg) \subseteq {"prefix"}
<1>1. ~ModesFault(cfg)
    BY DEF LoadFromEnv, BusLoads, KafkaSecurityLoads, ReadRoutesLoad, ResolverLoads,
       ModesFault, Settings
<1>2. ~CredentialsFault(cfg)
    BY DEF LoadFromEnv, ReadRoutesLoad, CredentialsFault
<1> QED
    BY <1>1, <1>2 DEF AssembleFaults, AppFaults, WriterFaults, Where

\* Two listed sources with one write key are the same.
LEMMA ListedUnique ==
    ASSUME NEW cfg, Indexable(cfg.sources), NEW d \in Listed(cfg), NEW e \in Listed(cfg),
           KeyOf[d] = KeyOf[e]
    PROVE  d = e /\ d \in Valid
BY DEF Indexable, Listed

\* The in-memory resolver answers for a listed source, and for nothing else.
LEMMA MemoryResolves ==
    ASSUME NEW cfg, Indexable(cfg.sources), NEW k
    PROVE  /\ {d \in Listed(cfg) : KeyOf[d] = k} = {} =>
                 ResolveInMemory(cfg, k) = Refuse("not_found")
           /\ \A d \in Listed(cfg) : KeyOf[d] = k =>
                 ResolveInMemory(cfg, k) = IF d \in Enabled THEN Answer(d, "nil") ELSE Refuse("disabled")
<1> DEFINE indexed == {d \in Listed(cfg) : KeyOf[d] = k}
<1>1. CASE indexed = {}
    BY <1>1 DEF ResolveInMemory
<1>2. ASSUME NEW d \in indexed
      PROVE  ResolveInMemory(cfg, k) = IF d \in Enabled THEN Answer(d, "nil") ELSE Refuse("disabled")
    <2>1. indexed = {d}
        BY <1>2, ListedUnique
    <2>2. (CHOOSE x \in indexed : TRUE) = d
        BY <2>1
    <2>3. CASE d \in Enabled
        BY <2>1, <2>2, <2>3 DEF ResolveInMemory
    <2>4. CASE d \notin Enabled
        BY <2>1, <2>4 DEF ResolveInMemory
    <2> QED
        BY <2>3, <2>4
<1> QED
    BY <1>1, <1>2

----------------------------------------------------------------------------
(* Each stage of startup.                                                  *)

LEMMA InitInv == Init => IInv
BY EnvironmentsAssumption
   DEF Init, IInv, TypeOK, Accepted, Faultless, Writes, ValidatedSoFar, SurfaceCovered,
   CatalogThere, QueueCovered, AcceptedModesAssemble, Phases, Starting, Checkpoints, Kinds,
   Ingesting, First

\* A failed start says nothing of the schema.
LEMMA FailsStep ==
    ASSUME IInv, NEW why \in {"sources", "endpoint", "prefix", "routes", "outside", "schema"}, Fails(why),
           phase \notin {"load", "refused"},
           UNCHANGED <<env, queue>>, tables \subseteq tables', tables' \subseteq Families \X Kinds,
           metadata' \subseteq Checkpoints
    PROVE  IInv'
<1>1. TypeOK'
    BY DEF IInv, TypeOK, Fails, Phases, Starting, First, Kinds
<1>2. Accepted' /\ Faultless' /\ Writes' /\ ValidatedSoFar' /\ SurfaceCovered' /\ CatalogThere'
      /\ AcceptedModesAssemble'
    BY DEF IInv, Fails, Accepted, Faultless, Writes, ValidatedSoFar, SurfaceCovered, CatalogThere,
       AcceptedModesAssemble, Checkpoints, Ingesting
<1>3. QueueCovered'
    BY DEF IInv, QueueCovered, Family
<1> QED
    BY <1>1, <1>2, <1>3 DEF IInv

LEMMA LoadStep == ASSUME IInv, Load PROVE IInv'
<1>1. TypeOK'
    BY DEF IInv, TypeOK, Load, Goes, Phases, Starting, First, Kinds
<1>2. Accepted' /\ Faultless' /\ Writes' /\ ValidatedSoFar' /\ SurfaceCovered' /\ CatalogThere'
      /\ AcceptedModesAssemble'
    BY DEF IInv, Load, Goes, Accepted, Faultless, Writes, ValidatedSoFar, SurfaceCovered,
       CatalogThere, AcceptedModesAssemble, Checkpoints, Ingesting
<1>3. QueueCovered'
    BY DEF IInv, Load, QueueCovered, Family
<1> QED
    BY <1>1, <1>2, <1>3 DEF IInv

\* Going on to the next stage, before the schema has been validated.
LEMMA GoesEarly ==
    ASSUME IInv, NEW label \in {"catalog_reader", "app", "writer", "serving", "create", "validate"},
           Goes(label), AssembleFaults(env) = {},
           phase \in {"assemble", "catalog_reader", "app", "writer"},
           label \in {"writer", "create", "validate"} => env.ingestion,
           label = "serving" => ~env.ingestion,
           UNCHANGED <<env, tables, queue>>, metadata' \subseteq Checkpoints
    PROVE  IInv'
<1>1. TypeOK'
    BY DEF IInv, TypeOK, Goes, Phases, Starting, First, Kinds
<1>2. Accepted' /\ Faultless' /\ Writes' /\ SurfaceCovered' /\ CatalogThere'
      /\ AcceptedModesAssemble'
    BY DEF IInv, Goes, Accepted, Faultless, Writes, SurfaceCovered,
       CatalogThere, AcceptedModesAssemble, Checkpoints, Ingesting
<1>3. ValidatedSoFar'
    <2>1. DOMAIN env.sources \subseteq Nat \ {0}
        BY DEF IInv, TypeOK, Settings
    <2> QED
        BY <2>1 DEF Goes, First, ValidatedSoFar
<1>4. QueueCovered'
    BY DEF IInv, QueueCovered, Family
<1> QED
    BY <1>1, <1>2, <1>3, <1>4 DEF IInv

\* A stage that looks at the environment alone never fails for the modes.
LEMMA ChecksStep ==
    ASSUME IInv, NEW faults \in SUBSET {"sources", "endpoint", "prefix", "routes"}, NEW label,
           Checks(faults, label), phase \in {"assemble", "app", "writer"},
           faults = {} => /\ label \in {"catalog_reader", "app", "writer", "serving", "create", "validate"}
                          /\ AssembleFaults(env) = {}
                          /\ label \in {"writer", "create", "validate"} => env.ingestion
                          /\ label = "serving" => ~env.ingestion
    PROVE  IInv'
<1>1. UNCHANGED <<env, queue, tables, metadata>> /\ tables \subseteq Families \X Kinds
      /\ metadata \subseteq Checkpoints
    BY DEF Checks, IInv, TypeOK
<1>2. CASE \E why \in faults : Fails(why)
    BY <1>1, <1>2, FailsStep
<1>3. CASE faults = {} /\ Goes(label)
    BY <1>1, <1>3, GoesEarly
<1> QED
    BY <1>2, <1>3 DEF Checks

LEMMA RefusedStep == ASSUME IInv, phase \in {"assemble", "writer"}, Refused PROVE IInv'
BY FailsStep DEF Refused, IInv, TypeOK

\* The environment of a process that is past main's log.Fatal.
LEMMA LoadedFaults ==
    ASSUME IInv, phase \notin {"load", "refused"}
    PROVE  /\ AssembleFaults(env) \subseteq {"sources", "endpoint", "prefix"}
           /\ AppFaults(env) \subseteq {"routes"}
           /\ WriterFaults(env) \subseteq {"prefix"}
BY LoadedAssembles DEF IInv, TypeOK, Accepted

LEMMA AssembleStep == ASSUME IInv, Assemble PROVE IInv'
<1> DEFINE next == IF env.query /\ env.mysql THEN "catalog_reader" ELSE "app"
<1>1. CASE Checks(AssembleFaults(env), next)
    <2>1. phase = "assemble" /\ next \in {"catalog_reader", "app"}
        BY DEF Assemble
    <2>2. AssembleFaults(env) \in SUBSET {"sources", "endpoint", "prefix", "routes"}
        BY <2>1, LoadedFaults
    <2> HIDE DEF next
    <2> QED
        BY <1>1, <2>1, <2>2, ChecksStep
<1>2. CASE Refused
    BY <1>2, RefusedStep DEF Assemble
<1> QED
    BY <1>1, <1>2 DEF Assemble

LEMMA BuildAppStep == ASSUME IInv, BuildApp PROVE IInv'
<1> DEFINE next == IF env.ingestion THEN "writer" ELSE "serving"
<1>1. phase = "app" /\ Checks(AppFaults(env), next) /\ next \in {"writer", "serving"}
      /\ (next = "writer" => env.ingestion) /\ (next = "serving" => ~env.ingestion)
    BY DEF BuildApp
<1>2. AppFaults(env) \in SUBSET {"sources", "endpoint", "prefix", "routes"}
      /\ AssembleFaults(env) = {}
    BY <1>1, LoadedFaults DEF IInv, Faultless
<1> HIDE DEF next
<1> QED
    BY <1>1, <1>2, ChecksStep

LEMMA OpenWriterStep == ASSUME IInv, OpenWriter PROVE IInv'
<1> DEFINE next == IF env.autoMigrate THEN "create" ELSE "validate"
<1>1. CASE Checks(WriterFaults(env), next)
    <2>1. phase = "writer" /\ next \in {"create", "validate"} /\ env.ingestion
        BY DEF OpenWriter, IInv, Writes
    <2>2. WriterFaults(env) \in SUBSET {"sources", "endpoint", "prefix", "routes"}
          /\ AssembleFaults(env) = {}
        BY <2>1, LoadedFaults DEF IInv, Faultless
    <2> HIDE DEF next
    <2> QED
        BY <1>1, <2>1, <2>2, ChecksStep
<1>2. CASE Refused
    BY <1>2, RefusedStep DEF OpenWriter
<1> QED
    BY <1>1, <1>2 DEF OpenWriter

\* Going on from one MySQL table to the next, or to serving.
LEMMA GoesOn ==
    ASSUME IInv, NEW label \in Checkpoints \cup {"serving"}, Goes(label), phase \in Checkpoints,
           UNCHANGED <<env, tables, queue>>, metadata' \subseteq Checkpoints,
           label = "serving" /\ env.cataloging => "catalog" \in metadata'
    PROVE  IInv'
<1>1. TypeOK'
    BY DEF IInv, TypeOK, Goes, Phases, Starting, First, Kinds, Checkpoints
<1>2. Accepted' /\ Faultless' /\ Writes' /\ ValidatedSoFar' /\ CatalogThere'
      /\ AcceptedModesAssemble'
    BY DEF IInv, Goes, Accepted, Faultless, Writes, ValidatedSoFar, CatalogThere,
       AcceptedModesAssemble, Checkpoints, Ingesting
<1>3. SurfaceCovered' /\ QueueCovered'
    BY DEF IInv, Goes, SurfaceCovered, Covered, QueueCovered, Family, Checkpoints
<1> QED
    BY <1>1, <1>2, <1>3 DEF IInv

LEMMA ProvidesStep ==
    ASSUME IInv, NEW table \in Checkpoints, NEW required \in BOOLEAN, NEW label,
           Provides(table, required, label), phase \in {"catalog_reader"} \cup Checkpoints,
           phase = "catalog_reader" => label = "app",
           phase \in Checkpoints => label \in Checkpoints \cup {"serving"},
           phase \in Checkpoints /\ label = "serving" /\ env.cataloging =>
              table = "catalog" /\ required
    PROVE  IInv'
<1>1. UNCHANGED <<env, tables, queue>> /\ metadata' \subseteq Checkpoints /\ tables \subseteq Families \X Kinds
    BY DEF Provides, IInv, TypeOK
<1>2. \/ Fails("outside") \/ Fails("schema")
      \/ Goes(label) /\ (required => table \in metadata')
    BY DEF Provides
<1>3. CASE Fails("outside") \/ Fails("schema")
    BY <1>1, <1>3, FailsStep DEF Checkpoints
<1>4. CASE Goes(label) /\ (required => table \in metadata')
    <2>1. CASE phase = "catalog_reader"
        <3>1. AssembleFaults(env) = {}
            BY <2>1 DEF IInv, Faultless
        <3> QED
            BY <1>1, <1>4, <2>1, <3>1, GoesEarly
    <2>2. CASE phase \in Checkpoints
        BY <1>1, <1>4, <2>2, GoesOn
    <2> QED
        BY <2>1, <2>2
<1> QED
    BY <1>2, <1>3, <1>4

LEMMA MetadataSteps ==
    ASSUME IInv, ReadCatalog \/ GuardEvents \/ GuardProperties \/ CatalogProperties
    PROVE  IInv'
<1>1. CASE ReadCatalog
    BY <1>1, ProvidesStep DEF ReadCatalog, Checkpoints
<1>2. CASE GuardEvents
    <2>1. AfterEventStatus \in Checkpoints \cup {"serving"}
          /\ (AfterEventStatus = "serving" => ~env.cataloging)
        BY DEF AfterEventStatus, Checkpoints
    <2> QED
        BY <1>2, <2>1, ProvidesStep DEF GuardEvents, Checkpoints
<1>3. CASE GuardProperties
    <2>1. AfterPropertyStatus \in Checkpoints \cup {"serving"}
          /\ (AfterPropertyStatus = "serving" => ~env.cataloging)
        BY DEF AfterPropertyStatus, Checkpoints
    <2> QED
        BY <1>3, <2>1, ProvidesStep DEF GuardProperties, Checkpoints
<1>4. CASE CatalogProperties
    BY <1>4, ProvidesStep DEF CatalogProperties, Checkpoints
<1> QED
    BY <1>1, <1>2, <1>3, <1>4

----------------------------------------------------------------------------
(* The loops over the startup sources.                                     *)

LEMMA SourcesType ==
    ASSUME IInv
    PROVE  /\ env.sources \in Seq(Docs) /\ env.indexing \in BOOLEAN /\ env.ingestion \in BOOLEAN
           /\ DOMAIN env.sources = 1..Len(env.sources) /\ Len(env.sources) \in Nat
           /\ at.source \in Nat \ {0} /\ at.kind \in Kinds
           /\ at = [source |-> at.source, kind |-> at.kind]
           /\ ~Exhausted => at.source \in DOMAIN env.sources /\ env.sources[at.source] \in Docs
BY DEF IInv, TypeOK, Settings, Exhausted

\* A step of the create loop; nothing has been validated yet.
LEMMA CreateSteps ==
    ASSUME IInv, phase = "create", Skip \/ CreateTable \/ Created
    PROVE  IInv'
<1>1. UNCHANGED <<env, metadata, queue>> /\ env.ingestion
    BY DEF Skip, CreateTable, Created, IInv, Writes
<1>2. tables \subseteq tables' /\ tables' \subseteq Families \X Kinds
    <2>1. CASE CreateTable
        <3>1. Table \in Families \X Kinds
            BY <2>1, SourcesType, ScopeOfAssumption DEF CreateTable, Table, Families
        <3> QED
            BY <2>1, <3>1 DEF CreateTable, IInv, TypeOK
    <2> QED
        BY <2>1 DEF Skip, Created, IInv, TypeOK
<1>3. \/ Fails("outside")
      \/ \E position \in {Onward, Following} : Advances(position)
      \/ Goes("validate")
    BY DEF Skip, CreateTable, Created
<1>4. QueueCovered'
    BY <1>1, <1>2 DEF IInv, QueueCovered, Family
<1>5. CASE Fails("outside")
    BY <1>1, <1>2, <1>5, FailsStep DEF IInv, TypeOK
<1>6. ASSUME NEW position \in {Onward, Following}, Advances(position)
      PROVE  IInv'
    <2>1. position \in [source : Nat \ {0}, kind : Kinds]
        BY <1>6, SourcesType DEF Onward, Following, Kinds
    <2>2. TypeOK'
        BY <1>1, <1>2, <1>6, <2>1 DEF IInv, TypeOK, Advances
    <2> QED
        BY <1>1, <1>4, <1>6, <2>2
        DEF IInv, Advances, Accepted, Faultless, Writes, ValidatedSoFar, SurfaceCovered,
            CatalogThere, AcceptedModesAssemble, Checkpoints, Ingesting
<1>7. CASE Goes("validate")
    <2>1. TypeOK'
        BY <1>1, <1>2, <1>7 DEF IInv, TypeOK, Goes, First, Kinds, Phases, Starting
    <2>2. ValidatedSoFar'
        BY <1>1, <1>7, SourcesType DEF Goes, First, ValidatedSoFar
    <2> QED
        BY <1>1, <1>4, <1>7, <2>1, <2>2
        DEF IInv, Goes, Accepted, Faultless, Writes, SurfaceCovered,
            CatalogThere, AcceptedModesAssemble, Checkpoints, Ingesting
<1> QED
    BY <1>3, <1>5, <1>6, <1>7

\* Moving on in the validation loop, with the current source covered if it is left.
LEMMA ValidateAdvances ==
    ASSUME IInv, phase = "validate", ~Exhausted, NEW position \in {Onward, Following},
           Advances(position), UNCHANGED <<env, tables, metadata, queue>>,
           position.kind = "event" => position = Onward /\ Covered(at.source),
           position.kind = "property" => /\ position.source = at.source /\ env.indexing
                                         /\ <<RouteKey[ScopeOf[env.sources[at.source]]], "event">> \in tables
    PROVE  IInv'
<1>1. position \in [source : Nat \ {0}, kind : Kinds]
    BY SourcesType DEF Onward, Following, Kinds
<1>2. TypeOK'
    BY <1>1 DEF IInv, TypeOK, Advances
<1>3. \A i \in DOMAIN env.sources : i < position.source => Covered(i)
    <2> SUFFICES ASSUME NEW i \in DOMAIN env.sources, i < position.source
                 PROVE  Covered(i)
        OBVIOUS
    <2>1. i < at.source \/ (i = at.source /\ position.kind = "event")
        <3>1. position.source \in {at.source, at.source + 1}
            BY SourcesType DEF Onward, Following
        <3>2. position.kind = "property" => position.source = at.source
            OBVIOUS
        <3> QED
            BY <1>1, <3>1, <3>2, SourcesType DEF Kinds
    <2> QED
        BY <2>1 DEF IInv, ValidatedSoFar
<1>4. ValidatedSoFar'
    BY <1>3 DEF ValidatedSoFar, Advances, Covered, Family
<1> QED
    BY <1>2, <1>4
    DEF IInv, Advances, Accepted, Faultless, Writes, SurfaceCovered, Covered, Family,
        CatalogThere, QueueCovered, AcceptedModesAssemble, Checkpoints, Ingesting

LEMMA ValidateSteps ==
    ASSUME IInv, phase = "validate", Skip \/ ValidateTable \/ Validated
    PROVE  IInv'
<1>1. UNCHANGED <<env, tables, metadata, queue>> /\ env.ingestion
    BY DEF Skip, ValidateTable, Validated, IInv, Writes
<1>2. CASE Skip
    <2>1. Covered(at.source)
        BY <1>2 DEF Skip, Skipped, Covered
    <2> QED
        BY <1>1, <1>2, <2>1, ValidateAdvances DEF Skip, Onward
<1>3. CASE ValidateTable
    <2>1. CASE Fails("outside") \/ Fails("schema")
        BY <1>1, <2>1, FailsStep DEF IInv, TypeOK
    <2>2. CASE Table \in tables /\ Advances(Following)
        <3>1. CASE at.kind = "event" /\ env.indexing
            <4>1. Following.kind = "property" /\ Following.source = at.source
                BY <3>1, SourcesType DEF Following
            <4>2. <<RouteKey[ScopeOf[env.sources[at.source]]], "event">> \in tables
                BY <2>2, <3>1 DEF Table
            <4> QED
                BY <1>1, <1>3, <2>2, <3>1, <4>1, <4>2, ValidateAdvances DEF ValidateTable
        <3>2. CASE ~(at.kind = "event" /\ env.indexing)
            <4>1. Following = Onward /\ Onward.kind = "event"
                BY <3>2 DEF Following, Onward
            <4>2. Covered(at.source)
                BY <2>2, <3>2, SourcesType DEF Table, Covered, Family, Kinds, IInv, ValidatedSoFar
            <4> QED
                BY <1>1, <1>3, <2>2, <4>1, <4>2, ValidateAdvances DEF ValidateTable
        <3> QED
            BY <3>1, <3>2
    <2> QED
        BY <1>3, <2>1, <2>2 DEF ValidateTable
<1>4. CASE Validated
    <2>1. \A i \in DOMAIN env.sources : Covered(i)
        BY <1>4, SourcesType DEF Validated, Exhausted, IInv, ValidatedSoFar
    <2>2. TypeOK'
        BY <1>1, <1>4 DEF Validated, IInv, TypeOK, Goes, First, Kinds, Phases, Starting, Checkpoints
    <2>3. SurfaceCovered' /\ QueueCovered'
        BY <1>1, <2>1 DEF SurfaceCovered, Covered, Family, IInv, QueueCovered
    <2> QED
        BY <1>1, <1>4, <2>2, <2>3
        DEF Validated, IInv, Goes, Accepted, Faultless, Writes, ValidatedSoFar,
            CatalogThere, AcceptedModesAssemble, Checkpoints, Ingesting
<1> QED
    BY <1>2, <1>3, <1>4

----------------------------------------------------------------------------
(* A serving process.                                                      *)

LEMMA FaultlessMeans ==
    ASSUME NEW cfg \in Settings, AssembleFaults(cfg) = {}
    PROVE  /\ cfg.resolver = "memory" => Indexable(cfg.sources)
           /\ cfg.resolver \in {"memory", "http"}
<1>1. ~SourcesFault(cfg) /\ ~ModesFault(cfg)
    BY DEF AssembleFaults, Where
<1> QED
    BY <1>1 DEF SourcesFault, ModesFault, Settings

\* An event is acknowledged for a document, and for one on the validated surface.
LEMMA AcceptedSource ==
    ASSUME IInv, phase = "serving", NEW k \in Keys, NEW h \in Holdings, NEW a,
           a = IF env.resolver = "memory" THEN ResolveInMemory(env, k) ELSE Verdict(k, h),
           a.err = "nil", Bound(env) => OnSurface(a.source, env.ingestion, Listed(env))
    PROVE  /\ a.source \in Docs
           /\ env.ingestion /\ env.sources # <<>> =>
                 \E i \in DOMAIN env.sources :
                    env.sources[i] \in Enabled /\ ScopeOf[env.sources[i]] = ScopeOf[a.source]
<1>1. AssembleFaults(env) = {} /\ env \in Settings
    BY DEF IInv, TypeOK, Faultless
<1>2. Listed(env) \subseteq Docs
    BY SourcesType DEF Listed
<1>3. CASE env.resolver = "memory"
    <2>1. Indexable(env.sources)
        BY <1>1, <1>3, FaultlessMeans
    <2>2. PICK d \in Listed(env) : KeyOf[d] = k
        BY <1>3, <2>1, MemoryResolves DEF Refuse, Answer
    <2>3. d \in Enabled /\ a = Answer(d, "nil")
        BY <1>3, <2>1, <2>2, MemoryResolves DEF Refuse, Answer
    <2> QED
        BY <1>2, <2>2, <2>3 DEF Listed, Answer
<1>4. CASE env.resolver = "http"
    <2>1. h \in Docs /\ a.source = h
        BY <1>4 DEF Verdict, Decode, Refuse, Answer, Holdings
    <2>2. ASSUME env.ingestion, env.sources # <<>>
          PROVE  \E i \in DOMAIN env.sources :
                    env.sources[i] \in Enabled /\ ScopeOf[env.sources[i]] = ScopeOf[a.source]
        <3>1. Listed(env) # {}
            <4>1. 1 \in DOMAIN env.sources
                BY <2>2, SourcesType
            <4> QED
                BY <4>1 DEF Listed
        <3>2. OnSurface(a.source, env.ingestion, Listed(env))
            BY <1>4, <2>2 DEF Bound
        <3>3. PICK s \in Listed(env) \cap Enabled : SurfaceKey(a.source) = SurfaceKey(s)
            BY <2>2, <3>1, <3>2 DEF OnSurface
        <3>4. ScopeOf[a.source] = ScopeOf[s]
            BY <3>3 DEF SurfaceKey
        <3> QED
            BY <3>3, <3>4 DEF Listed
    <2> QED
        BY <2>1, <2>2
<1> QED
    BY <1>1, <1>3, <1>4, FaultlessMeans

LEMMA AcceptStep == ASSUME IInv, Accept PROVE IInv'
<1> DEFINE answer(k, h) == IF env.resolver = "memory" THEN ResolveInMemory(env, k) ELSE Verdict(k, h)
<1>1. PICK k \in Keys, h \in Holdings : Acknowledges(answer(k, h))
    <2>1. Missing \in Holdings
        BY DEF Holdings
    <2> QED
        BY <2>1 DEF Accept
<1> DEFINE a == answer(k, h)
<1>2. /\ a.source \in Docs
      /\ env.ingestion /\ env.sources # <<>> =>
            \E i \in DOMAIN env.sources :
               env.sources[i] \in Enabled /\ ScopeOf[env.sources[i]] = ScopeOf[a.source]
    BY <1>1, AcceptedSource DEF Accept, Acknowledges
<1>3. queue' = queue \cup {ScopeOf[a.source]} /\ phase = "serving"
      /\ UNCHANGED <<env, phase, at, fault, tables, metadata>>
    BY <1>1 DEF Accept, Acknowledges
<1>4. TypeOK'
    BY <1>2, <1>3, ScopeOfAssumption DEF IInv, TypeOK
<1>5. QueueCovered'
    BY <1>2, <1>3 DEF IInv, QueueCovered, SurfaceCovered, Covered, Family
<1>6. SurfaceCovered'
    BY <1>3 DEF IInv, SurfaceCovered, Covered, Family
<1> QED
    BY <1>3, <1>4, <1>5, <1>6
    DEF IInv, Accepted, Faultless, Writes, ValidatedSoFar,
        CatalogThere, AcceptedModesAssemble, Checkpoints, Ingesting

LEMMA FamilyType ==
    ASSUME NEW s \in Scopes
    PROVE  Family(s) \subseteq Families \X Kinds
BY DEF Family, Families, Kinds

\* Ingestion only ever adds tables, and only ever takes events.
LEMMA ServingStep ==
    ASSUME IInv, Ingesting, UNCHANGED <<env, phase, at, fault, metadata>>,
           tables \subseteq tables', tables' \subseteq Families \X Kinds, queue' \subseteq queue
    PROVE  IInv'
<1>1. TypeOK'
    BY DEF IInv, TypeOK
<1>2. QueueCovered' /\ SurfaceCovered'
    BY DEF IInv, QueueCovered, SurfaceCovered, Covered, Family
<1> QED
    BY <1>1, <1>2
    DEF IInv, Accepted, Faultless, Writes, ValidatedSoFar,
        CatalogThere, AcceptedModesAssemble, Checkpoints, Ingesting

LEMMA IngestStep ==
    ASSUME IInv, NEW s \in Scopes, Ingest(s) \/ IngestFails(s)
    PROVE  IInv'
<1>1. tables \subseteq tables' /\ tables' \subseteq Families \X Kinds
    BY FamilyType DEF Ingest, IngestFails, IInv, TypeOK
<1> QED
    BY <1>1, ServingStep DEF Ingest, IngestFails

LEMMA RestartStep == ASSUME IInv, Restart PROVE IInv'
<1>1. TypeOK'
    BY DEF IInv, TypeOK, Restart, Phases, Starting, First, Kinds
<1>2. QueueCovered'
    BY DEF IInv, Restart, QueueCovered, Family
<1> QED
    BY <1>1, <1>2
    DEF Restart, IInv, Accepted, Faultless, Writes, ValidatedSoFar, SurfaceCovered,
        CatalogThere, AcceptedModesAssemble, Checkpoints, Ingesting

----------------------------------------------------------------------------
LEMMA InvStep == ASSUME IInv, [Next]_vars PROVE IInv'
<1>1. CASE Schema
    BY <1>1, MetadataSteps, CreateSteps, ValidateSteps
    DEF Schema, Skip, CreateTable, Created, ValidateTable, Validated
<1>2. CASE UNCHANGED vars
    <2>1. TypeOK' /\ QueueCovered' /\ SurfaceCovered' /\ ValidatedSoFar'
        BY <1>2 DEF vars, IInv, TypeOK, QueueCovered, SurfaceCovered, ValidatedSoFar, Covered, Family
    <2> QED
        BY <1>2, <2>1 DEF vars, IInv, Accepted, Faultless, Writes,
           CatalogThere, AcceptedModesAssemble, Ingesting
<1> QED
    BY <1>1, <1>2, LoadStep, AssembleStep, BuildAppStep, OpenWriterStep, AcceptStep, IngestStep, RestartStep DEF Next

LEMMA IInvInvariant == Spec => []IInv
BY InitInv, InvStep, PTL DEF Spec

\* The type invariant.
THEOREM TypeCorrect == Spec => []TypeOK
BY IInvInvariant, PTL DEF IInv

\* No combination of modes that config.LoadFromEnv accepts is refused by runtime.New.
THEOREM ModesAssemble == Spec => []AcceptedModesAssemble
BY IInvInvariant, PTL DEF IInv

\* The startup checks see to it that acknowledged events can be written.
THEOREM TablesThere == Spec => []AckedHasTables
<1>1. IInv => AckedHasTables
    BY DEF IInv, CatalogThere, QueueCovered, AckedHasTables, Ingesting
<1> QED
    BY <1>1, IInvInvariant, PTL

\* The in-memory resolver answers what the sources it was given say.
THEOREM MemoryFaithful == Spec => []MemoryAnswers
<1>1. IInv => MemoryAnswers
    <2> SUFFICES ASSUME IInv, phase = "serving", env.resolver = "memory",
                        NEW k \in Keys \cup {BlankKey}
                 PROVE  LET listed == {d \in Listed(env) : KeyOf[d] = k} IN
                        /\ listed = {} => ResolveInMemory(env, k) = Verdict(k, Missing)
                        /\ \A d \in listed : ResolveInMemory(env, k) = Verdict(k, d)
        BY DEF MemoryAnswers
    <2>1. Indexable(env.sources)
        BY FaultlessMeans DEF IInv, TypeOK, Faultless
    <2>2. Listed(env) \subseteq Docs
        BY SourcesType DEF Listed
    <2>3. ASSUME NEW d \in Listed(env), KeyOf[d] = k
          PROVE  Verdict(k, d) = IF d \in Enabled THEN Answer(d, "nil") ELSE Refuse("disabled")
        <3>1. d \in Valid
            BY <2>1, <2>3, ListedUnique
        <3>2. k # BlankKey /\ d # Missing /\ d # Gone
            BY <2>2, <2>3, <3>1, ValidKeysAssumption, DocsAssumption
        <3> QED
            BY <2>3, <3>1, <3>2 DEF Verdict, Decode
    <2>4. Verdict(k, Missing) = Refuse("not_found")
        BY DocsAssumption DEF Verdict
    <2> QED
        BY <2>1, <2>3, <2>4, MemoryResolves
<1> QED
    BY <1>1, IInvInvariant, PTL

\* No acknowledged event is lost, over all starts and crashes.
THEOREM AcksSurvive == Spec => AckedSurvives
<1>1. IInv /\ [Next]_vars =>
         [\A s \in queue \ queue' :
             \/ env.allowInMemoryBus
             \/ Ingesting /\ Ingesting' /\ Family(s) \subseteq tables' /\ Guards \subseteq metadata]_vars
    <2> SUFFICES ASSUME IInv, Next, NEW s \in queue \ queue'
                 PROVE  \/ env.allowInMemoryBus
                        \/ Ingesting /\ Ingesting' /\ Family(s) \subseteq tables' /\ Guards \subseteq metadata
        BY DEF vars
    <2>1. CASE Restart
        <3>1. env.bus = "direct" /\ LoadFromEnv(env)
            BY <2>1 DEF Restart, IInv, Accepted
        <3> QED
            BY <3>1 DEF LoadFromEnv, BusLoads
    <2>2. ASSUME NEW t \in Scopes, Ingest(t)
          PROVE  Ingesting /\ Ingesting' /\ Family(s) \subseteq tables' /\ Guards \subseteq metadata
        <3>1. s = t
            BY <2>2 DEF Ingest
        <3>2. Family(s) \subseteq tables'
            BY <2>2, <3>1 DEF Ingest
        <3> QED
            BY <2>2, <3>2 DEF Ingest, Ingesting
    <2>3. ASSUME Load \/ Assemble \/ BuildApp \/ OpenWriter \/ Schema \/ Accept \/ (\E t \in Scopes : IngestFails(t))
          PROVE  FALSE
        BY <2>3 DEF Load, Assemble, BuildApp, OpenWriter, Checks, Refused, Schema, Accept, Acknowledges, IngestFails, ReadCatalog, Skip,
           CreateTable, Created, ValidateTable, Validated, GuardEvents, GuardProperties,
           CatalogProperties, Provides
    <2> QED
        BY <2>1, <2>2, <2>3 DEF Next
<1> QED
    BY <1>1, IInvInvariant, PTL DEF Spec, AckedSurvives
=============================================================================
