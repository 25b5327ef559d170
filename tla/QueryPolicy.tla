------------------------------ MODULE QueryPolicy ------------------------------
(***************************************************************************)
(* What a read query is, who may put it, what the source it is about says  *)
(* of it, and what storage is asked then (internal/collectapi/query.go).   *)
(* ReadGate says what the read routes promise in these terms, and Readback *)
(* how the handlers go about it.                                           *)
(***************************************************************************)
EXTENDS SourcePolicy, QueryAuth

CONSTANTS
    Queries,            \* the requests callers send
    Filters,            \* the property filters in them
    NoQuery,
    Envs,               \* the environments the process may be started with
    ReadbackPolicy,     \* ReadbackPolicy[d]: the source routes document d opens
    PropertyFilters,    \* PropertyFilters[d]: its allowed_property_filters
    Absent, Malformed,  \* a query parameter that is missing; one that does not parse
    RealtimeWindow,     \* defaultRealtimeWindow
    RealtimeQueryCap,   \* defaultRealtimeQueryCap
    EventsQueryCap,     \* defaultEventsQueryCap
    CatalogLimit,       \* defaultPropertyCatalogLimit
    MaxCatalogLimit,    \* maxPropertyCatalogLimit
    PropertyFilterCap,  \* defaultPropertyFilterCap
    NoRead

ASSUME QueryAssumption ==
    /\ RealtimeWindow \in Nat
    /\ {RealtimeQueryCap, EventsQueryCap, CatalogLimit} \subseteq Nat \ {0}
    /\ MaxCatalogLimit \in Nat /\ CatalogLimit <= MaxCatalogLimit
    /\ PropertyFilterCap \in Nat
    /\ NoQuery \notin Queries /\ {Absent, Malformed} \cap Int = {}
    /\ Queries \subseteq [route : Routes, token : Tokens \cup {BlankToken},
                          header : Keys \cup {BlankKey}, param : Keys \cup {BlankKey},
                          origin : Origins \cup {NoOrigin},
                          from : Int \cup {Absent, Malformed}, to : Int \cup {Absent, Malformed},
                          limit : Int \cup {Absent, Malformed},
                          offset : Int \cup {Absent, Malformed},
                          filters : Seq(Filters), named : BOOLEAN,
                          catalog : {"", "event", "user", "other"}]
    /\ \A d \in Docs : ReadbackPolicy[d] \subseteq SourceRoutes
    /\ Envs \subseteq Environments

----------------------------------------------------------------------------
\* h.queryWriteKey: the header, then the query parameter.
QueryWriteKey(q) == IF q.header # BlankKey THEN q.header ELSE q.param

\* SourceConfig.AllowsReadback
AllowsReadback(d, route) == route \in ReadbackPolicy[d]

\* SourceConfig.AllowsPropertyFilter: an empty list of types allows any of them.
AllowsPropertyFilter(d, f) ==
    \E p \in PropertyFilters[d] : p.selector = f.selector /\ (p.types = {} \/ f.type \in p.types)

\* parsePropertyFilter: the payload decodes, the document allows it, the value fits its type.
GoodFilter(d, f) == f.decodes /\ AllowsPropertyFilter(d, f) /\ f.fits

\* parseQueryTimeOrDefault, normalizeQueryIntOrDefault and parseRequiredQueryTime.
OrDefault(arg, default) == IF arg = Absent THEN default ELSE arg
Given(arg)              == arg \notin {Absent, Malformed}
AtLeast(arg, min)       == arg # Malformed /\ (arg # Absent => arg >= min)

\* What each handler checks of its parameters once the source is known.
GoodParams(q, d) ==
    CASE q.route = "realtime" -> q.from # Malformed /\ AtLeast(q.limit, 1)
      [] q.route = "events" ->
            /\ Given(q.from) /\ Given(q.to) /\ AtLeast(q.limit, 1) /\ AtLeast(q.offset, 0)
            /\ Len(q.filters) <= PropertyFilterCap
            /\ \A i \in DOMAIN q.filters : GoodFilter(d, q.filters[i])
      [] q.route = "goals" -> q.named /\ Given(q.from) /\ Given(q.to)
      [] q.route = "properties" ->
            /\ q.catalog \in {"", "event", "user"}
            /\ AtLeast(q.limit, 1) /\ (q.limit # Absent => q.limit <= MaxCatalogLimit)

\* The query storage is asked for q under document d at time t.
Read(q, d, t) ==
    LET scoped == [route |-> q.route, scope |-> ScopeOf[d], source |-> d, from |-> Absent,
                   to |-> Absent, limit |-> Absent, offset |-> Absent, filters |-> <<>>]
    IN CASE q.route = "realtime" ->
               [scoped EXCEPT !.from = OrDefault(q.from, t - RealtimeWindow),
                              !.limit = OrDefault(q.limit, RealtimeQueryCap)]
         [] q.route = "events" ->
               [scoped EXCEPT !.from = q.from, !.to = q.to, !.filters = q.filters,
                              !.limit = OrDefault(q.limit, EventsQueryCap),
                              !.offset = OrDefault(q.offset, 0)]
         [] q.route = "goals" -> [scoped EXCEPT !.from = q.from, !.to = q.to]
         [] q.route = "properties" -> [scoped EXCEPT !.limit = OrDefault(q.limit, CatalogLimit)]

\* A read is bounded: a start, an end or a limit, whichever its route has.
Reads ==
    [route : {"realtime"}, scope : Scopes, source : Docs, from : Int, to : {Absent},
     limit : Nat \ {0}, offset : {Absent}, filters : {<<>>}]
    \cup [route : {"events"}, scope : Scopes, source : Docs, from : Int, to : Int,
          limit : Nat \ {0}, offset : Nat, filters : {q.filters : q \in Queries}]
    \cup [route : {"goals"}, scope : Scopes, source : Docs, from : Int, to : Int,
          limit : {Absent}, offset : {Absent}, filters : {<<>>}]
    \cup [route : {"properties"}, scope : Scopes, source : Docs, from : {Absent}, to : {Absent},
          limit : 1..MaxCatalogLimit, offset : {Absent}, filters : {<<>>}]

ASSUME NoReadAssumption == NoRead \notin Reads

Responses == {"none", "200", "400", "401", "403", "404", "500"}

----------------------------------------------------------------------------
(***************************************************************************)
(* What the operator configured, read off the environment: the first entry *)
(* that has the token of q, and whether it admits q at t.                  *)
(***************************************************************************)
ConfiguredFor(environment, q) ==
    {Entries(environment)[i] : i \in {n \in DOMAIN Entries(environment) :
        /\ Entries(environment)[n].token = q.token /\ q.token # BlankToken
        /\ \A j \in 1..(n - 1) : Entries(environment)[j].token # q.token}}
Opens(e, t)  == (e.notBefore = Unset \/ e.notBefore <= t) /\ (e.expiresAt = Unset \/ t < e.expiresAt)
Admits(e, q) ==
    /\ e.scopes \subseteq {BlankScope} \/ q.route \in e.scopes
    /\ \/ q.route \in ProcessRoutes \/ e.writeKeys \subseteq {BlankKey}
       \/ QueryWriteKey(q) \in e.writeKeys \cup {BlankKey}

----------------------------------------------------------------------------
\* What the gate says to q at time t, "none" if it lets it through.  The order of
\* the reasons is part of it: a caller learns of a limit only with a good token.
GateStatus(environment, q, t) ==
    LET entries == {e \in ConfiguredFor(environment, q) : Opens(e, t)} IN
    IF ~Assembled(environment, q.route)      THEN "404"
    ELSE IF entries = {}                     THEN "401"
    ELSE IF \E e \in entries : ~Admits(e, q) THEN "403"
    ELSE IF q.route \in ProcessRoutes        THEN "200"
    ELSE IF QueryWriteKey(q) = BlankKey      THEN "400"
    ELSE "none"

\* What the word a on the write key of q refuses it with, "none" if nothing.
Refusal(q, a) ==
    IF a.err # "nil"                THEN ResolveStatus(a.err)
    ELSE IF ~InSurface(a.source)    THEN "500"
    ELSE IF ~AllowsOrigin(a.source, q.origin) \/ ~AllowsReadback(a.source, q.route) THEN "403"
    ELSE IF ~GoodParams(q, a.source) THEN "400"
    ELSE "none"

\* How storage may leave a query: a catalog that refuses is a failure like any other.
StorageStatuses(q) == {"200", "500"} \cup (IF q.route = "properties" THEN {} ELSE {"400"})

\* What has become of a request: nobody asked, it is at the gate, it waits for the
\* word on its write key, it may read document d, it is reading, it has ended.
At(stage, q)  == [stage |-> stage, query |-> q, source |-> ZeroSource, read |-> NoRead,
                  status |-> "none"]
NotAsked      == At("idle", NoQuery)
Asked(q)      == At("asked", q)
Passed(q)     == At("passed", q)
Granted(q, d) == [At("granted", q) EXCEPT !.source = d]
Reading(q, r) == [At("reading", q) EXCEPT !.read = r]
Ended(q, s)   == [At("ended", q) EXCEPT !.status = s]

\* What the gate, and the word on the write key, make of a request.
Gated(environment, q, t) ==
    LET s == GateStatus(environment, q, t) IN IF s = "none" THEN Passed(q) ELSE Ended(q, s)
Judged(q, a) ==
    LET s == Refusal(q, a) IN IF s = "none" THEN Granted(q, a.source) ELSE Ended(q, s)
=============================================================================
