------------------------------ MODULE MCAssembly ------------------------------
(* Small instances of Assembly: two write keys and two scopes with tables of  *)
(* their own, a disabled source (off), one that is not valid (bad) and one    *)
(* that has the key of docA and the scope of docB (twin).                     *)
EXTENDS Assembly

CONSTANTS k1, k2, docA, docB, off, bad, twin, s1, s2, r1, r2

MCKeyOf   == [d \in Docs |-> IF d \in {docA, twin} THEN k1 ELSE k2]
MCScopeOf == [d \in Docs |-> IF d = docA THEN s1 ELSE s2]
MCRouteKey == [s \in Scopes |-> IF s = s1 THEN r1 ELSE r2]

Distinct == [collect |-> "/a", tracker |-> "/b", diagnostics |-> "/c", metrics |-> "/d",
             swagger |-> "/e"]

Redis ==
    [bus |-> "redis", allowInMemoryBus |-> FALSE, redisAddr |-> TRUE, brokers |-> FALSE,
     tls |-> FALSE, tlsFiles |-> {}, sasl |-> FALSE, saslFields |-> {},
     diagnostics |-> FALSE, metrics |-> FALSE,
     resolver |-> "memory", endpoint |-> "none", token |-> FALSE, insecure |-> {},
     query |-> FALSE, credentials |-> FALSE, clickhouse |-> TRUE, mysql |-> TRUE,
     ingestion |-> FALSE, autoMigrate |-> FALSE, mysqlMigrate |-> FALSE,
     indexing |-> TRUE, cataloging |-> TRUE, prefix |-> TRUE,
     swagger |-> FALSE, paths |-> Distinct, sources |-> <<docA, off>>]

\* Every choice of a bus, complete or not.
Buses ==
    {[Redis EXCEPT !.bus = b, !.allowInMemoryBus = a, !.redisAddr = r] :
        b \in {"redis", "direct", "other"}, a \in BOOLEAN, r \in BOOLEAN} \cup
    {[Redis EXCEPT !.bus = "kafka", !.brokers = b, !.tls = t, !.tlsFiles = f,
                   !.sasl = s, !.saslFields = p] :
        b \in BOOLEAN, t \in BOOLEAN, f \in SUBSET {"cert", "key", "other"},
        s \in BOOLEAN, p \in SUBSET {"user", "password", "other_mechanism"}}

\* Every choice of read routes.
ReadRoutes ==
    {[Redis EXCEPT !.bus = b, !.brokers = TRUE, !.diagnostics = d, !.metrics = m,
                   !.query = q, !.credentials = c, !.clickhouse = h, !.mysql = m2] :
        b \in {"redis", "kafka"}, d \in BOOLEAN, m \in BOOLEAN, q \in BOOLEAN,
        c \in BOOLEAN, h \in BOOLEAN, m2 \in BOOLEAN}

\* Every choice of a resolver, with startup sources that are fine, in conflict or bad.
Resolvers ==
    {[Redis EXCEPT !.resolver = r, !.endpoint = e, !.token = t, !.insecure = i, !.sources = s] :
        r \in {"memory", "http", "other"},
        e \in {"none", "https", "loopback", "private", "public"}, t \in BOOLEAN,
        i \in SUBSET {"loopback", "private"},
        s \in {<<>>, <<docA, off>>, <<docA, twin>>, <<docB, bad>>}}

\* Ingestion on every schema over startup sources, in both modes, and what it lacks.
Worker == [Redis EXCEPT !.endpoint = "https", !.token = TRUE, !.ingestion = TRUE]
Ingestions ==
    {[Worker EXCEPT !.resolver = r, !.autoMigrate = a, !.mysqlMigrate = m,
                        !.indexing = i, !.cataloging = c, !.sources = s] :
        r \in {"memory", "http"}, a \in BOOLEAN, m \in BOOLEAN, i \in BOOLEAN, c \in BOOLEAN,
        s \in {<<>>, <<off, docA>>, <<docA, docB>>, <<docB, bad>>}} \cup
    {[Worker EXCEPT !.bus = "direct", !.allowInMemoryBus = TRUE],
     [Worker EXCEPT !.mysql = FALSE], [Worker EXCEPT !.clickhouse = FALSE]}

\* Route paths that conflict, always or only when both routes are served, and one without
\* a slash.
RoutePaths ==
    {[Redis EXCEPT !.bus = "kafka", !.brokers = TRUE, !.credentials = TRUE, !.diagnostics = d,
                   !.metrics = m, !.swagger = w, !.paths = p] :
        d \in BOOLEAN, m \in BOOLEAN, w \in BOOLEAN,
        p \in {[Distinct EXCEPT !.tracker = "/a"], [Distinct EXCEPT !.metrics = "/c"],
               [Distinct EXCEPT !.swagger = "/a"], [Distinct EXCEPT !.diagnostics = "no_slash"]}}

\* A table prefix that ClickHouse's router refuses, whoever asks for it first.
Prefixes ==
    {[Worker EXCEPT !.prefix = FALSE, !.query = q, !.credentials = TRUE, !.ingestion = i] :
        q \in BOOLEAN, i \in BOOLEAN}

MCEnvironments == Buses \cup RoutePaths \cup Prefixes \cup ReadRoutes \cup Resolvers \cup Ingestions
=============================================================================
