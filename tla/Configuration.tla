---------------------------- MODULE Configuration ----------------------------
(***************************************************************************)
(* The environment of the process: what config.LoadFromEnv refuses, what   *)
(* runtime.New refuses of what is left, and the in-memory resolver built   *)
(* from the startup sources.  A variable of the environment is a flag, a   *)
(* member of a small set, or TRUE if it is set at all.                     *)
(***************************************************************************)
EXTENDS SchemaSurface, Integers, Sequences

\* The routes that have a path: collect and tracker stand for the seven that are always
\* there.  A path is one of a few, or does not start with a slash.
RouteNames == {"collect", "tracker", "diagnostics", "metrics", "swagger"}
Paths      == {"/a", "/b", "/c", "/d", "/e", "no_slash"}

\* LoadFromEnv rejects a document list it cannot decode; sources is what it decodes to.
\* prefix says whether NewTableRouter takes the ClickHouse table prefix.
Settings ==
    [bus : {"redis", "kafka", "direct", "other"}, allowInMemoryBus : BOOLEAN,
     redisAddr : BOOLEAN, brokers : BOOLEAN,
     tls : BOOLEAN, tlsFiles : SUBSET {"cert", "key", "other"},
     sasl : BOOLEAN, saslFields : SUBSET {"user", "password", "other_mechanism"},
     diagnostics : BOOLEAN, metrics : BOOLEAN,
     resolver : {"memory", "http", "other"},
     endpoint : {"none", "https", "loopback", "private", "public"},
     token : BOOLEAN, insecure : SUBSET {"loopback", "private"},
     query : BOOLEAN, credentials : BOOLEAN, clickhouse : BOOLEAN, mysql : BOOLEAN,
     ingestion : BOOLEAN, autoMigrate : BOOLEAN, mysqlMigrate : BOOLEAN,
     indexing : BOOLEAN, cataloging : BOOLEAN, prefix : BOOLEAN,
     swagger : BOOLEAN, paths : [RouteNames -> Paths], sources : Seq(Docs)]

\* validateSourceConfig requires a write key.
ASSUME ValidKeysAssumption == \A d \in Valid : KeyOf[d] # BlankKey

Listed(cfg) == {cfg.sources[i] : i \in DOMAIN cfg.sources}

----------------------------------------------------------------------------
\* validateKafkaSecurityConfig
KafkaSecurityLoads(cfg) ==
    /\ cfg.tlsFiles # {} => cfg.tls
    /\ "cert" \in cfg.tlsFiles <=> "key" \in cfg.tlsFiles
    /\ cfg.saslFields # {} => cfg.sasl
    /\ cfg.sasl => cfg.saslFields = {"user", "password"}

\* Mutant: the in-memory bus needs no consent.
BusLoadsSilently(cfg) ==
    /\ cfg.bus = "redis" => cfg.redisAddr
    /\ cfg.bus = "kafka" => cfg.brokers /\ KafkaSecurityLoads(cfg)
    /\ cfg.bus # "other"

BusLoads(cfg) ==
    /\ cfg.bus = "redis"  => cfg.redisAddr
    /\ cfg.bus = "kafka"  => cfg.brokers /\ KafkaSecurityLoads(cfg)
    /\ cfg.bus = "direct" => cfg.allowInMemoryBus
    /\ cfg.bus # "other"

\* Mutant: diagnostics are allowed on every bus.
ReadRoutesLoadAnyBus(cfg) ==
    /\ cfg.diagnostics \/ cfg.metrics => cfg.credentials
    /\ cfg.query => cfg.credentials /\ cfg.clickhouse

ReadRoutesLoad(cfg) ==
    /\ cfg.diagnostics \/ cfg.metrics => cfg.bus = "kafka" /\ cfg.credentials
    /\ cfg.query => cfg.credentials /\ cfg.clickhouse

ResolverLoads(cfg) ==
    /\ cfg.resolver # "other"
    /\ cfg.resolver = "http"   => cfg.endpoint # "none" /\ cfg.token
    /\ cfg.resolver = "memory" => cfg.sources # <<>>

\* The worker group and consumer always have a default.
IngestionLoads(cfg) == cfg.ingestion => cfg.bus # "direct" /\ cfg.mysql /\ cfg.clickhouse

LoadFromEnv(cfg) ==
    BusLoads(cfg) /\ ReadRoutesLoad(cfg) /\ ResolverLoads(cfg) /\ IngestionLoads(cfg)

----------------------------------------------------------------------------
\* validateControlPlaneTransport
TransportAllowed(cfg) ==
    \/ cfg.endpoint = "https"
    \/ cfg.endpoint = "loopback" /\ cfg.insecure # {}
    \/ cfg.endpoint = "private" /\ "private" \in cfg.insecure

\* Mutant: the last source of a write key wins.
IndexableTwice(sources) == \A i \in DOMAIN sources : sources[i] \in Valid

\* NewMemoryResolver: each source is valid and has a write key of its own.
Indexable(sources) ==
    \A i \in DOMAIN sources :
       /\ sources[i] \in Valid
       /\ \A j \in DOMAIN sources : KeyOf[sources[j]] = KeyOf[sources[i]] => i = j

\* MemoryResolver.ResolveSource over the sources of cfg.
ResolveInMemory(cfg, k) ==
    LET indexed == {d \in Listed(cfg) : KeyOf[d] = k} IN
    CASE indexed = {} -> Refuse("not_found")
      [] indexed # {} /\ indexed \cap Enabled = {} -> Refuse("disabled")
      [] OTHER -> Answer(CHOOSE d \in indexed : TRUE, "nil")

\* newSourceResolver puts the gate around the HTTP resolver.
Bound(cfg) == cfg.ingestion /\ cfg.resolver = "http" /\ cfg.sources # <<>>

(***************************************************************************)
(* What makes runtime.New fail whatever the outside world does, stage by   *)
(* stage: a combination of modes that no deployment can run, which         *)
(* LoadFromEnv looks at too, or a value that it takes as it is: the        *)
(* sources, the endpoint, the route paths, the table prefix.               *)
(***************************************************************************)
SourcesFault(cfg) ==
    \/ cfg.resolver = "memory" /\ ~Indexable(cfg.sources)
    \/ Bound(cfg) /\ ~(Listed(cfg) \cap Enabled \subseteq Valid)

EndpointFault(cfg) == cfg.resolver = "http" /\ cfg.endpoint # "none" /\ ~TransportAllowed(cfg)

ModesFault(cfg) ==
    \/ cfg.resolver = "other" \/ (cfg.resolver = "http" /\ (cfg.endpoint = "none" \/ ~cfg.token))
    \/ cfg.bus = "other"
    \/ cfg.bus = "kafka" /\ cfg.tls /\ ("cert" \in cfg.tlsFiles <=> "key" \notin cfg.tlsFiles)
    \/ (cfg.diagnostics \/ cfg.metrics) /\ cfg.bus # "kafka"

\* newHandler: no internal read route without a query credential.
CredentialsFault(cfg) == (cfg.query \/ cfg.diagnostics \/ cfg.metrics) /\ ~cfg.credentials

Served(cfg) == {"collect", "tracker"} \cup {r \in {"diagnostics", "metrics", "swagger"} : cfg[r]}

\* validateRoutePaths.  The path of the OpenAPI file has a default, so it is never empty.
RoutesFault(cfg) ==
    \E r \in Served(cfg) :
       \/ cfg.paths[r] = "no_slash"
       \/ \E other \in Served(cfg) \ {r} : cfg.paths[other] = cfg.paths[r]

Where(fault, holds) == IF holds THEN {fault} ELSE {}

\* Up to the query reader, in NewApp, and in newEventWriter.
AssembleFaults(cfg) ==
    Where("sources", SourcesFault(cfg)) \cup Where("endpoint", EndpointFault(cfg))
    \cup Where("modes", ModesFault(cfg)) \cup Where("prefix", cfg.query /\ ~cfg.prefix)
AppFaults(cfg) == Where("modes", CredentialsFault(cfg)) \cup Where("routes", RoutesFault(cfg))
WriterFaults(cfg) == Where("prefix", ~cfg.prefix)
=============================================================================
