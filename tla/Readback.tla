------------------------------- MODULE Readback -------------------------------
(***************************************************************************)
(* The internal read routes (internal/collectapi/query.go and the Kafka    *)
(* handlers): credentials that rotate and expire while the clock runs, the *)
(* same source resolution as POST /collect, the readback policy of the     *)
(* source, and the query that reaches storage.  ReadGate is what they      *)
(* promise.                                                                *)
(*                                                                         *)
(* As in Collect the resolver is SourceAuthority behind the schema gate.   *)
(* arrived and inForce are history variables of the properties.            *)
(***************************************************************************)
EXTENDS QueryPolicy

CONSTANTS
    Calls,              \* requests in flight
    MaxTime             \* bound on the clock

ASSUME MaxTimeAssumption == MaxTime \in Nat

VARIABLES
    authority, call,    \* of SourceAuthority
    env,                \* the environment this process was started with
    now,                \* h.opts.Now()
    pc,                 \* where each request is
    query,              \* the request
    read,               \* the query it hands to storage
    response,           \* the HTTP response
    arrived,            \* history: when the request arrived
    inForce             \* history: what was held for its key while it was resolved

vars == <<authority, call, env, now, pc, query, read, response, arrived, inForce>>

Resolver == INSTANCE SourceAuthority

----------------------------------------------------------------------------
Init ==
    /\ Resolver!Init
    /\ env \in {e \in Envs : Starts(e)}
    /\ now = 0
    /\ pc = [c \in Calls |-> "idle"]
    /\ query = [c \in Calls |-> NoQuery]
    /\ read = [c \in Calls |-> NoRead]
    /\ response = [c \in Calls |-> "none"]
    /\ arrived = [c \in Calls |-> 0]
    /\ inForce = [c \in Calls |-> {}]

\* The control plane changes a source.
Publish(k, h) ==
    /\ Resolver!Publish(k, h)
    /\ inForce' = [c \in Calls |->
          IF pc[c] = "resolve" /\ call[c].key = k THEN inForce[c] \cup {h} ELSE inForce[c]]
    /\ UNCHANGED <<env, now, pc, query, read, response, arrived>>

Tick ==
    /\ now < MaxTime
    /\ now' = now + 1
    /\ UNCHANGED <<authority, call, env, pc, query, read, response, arrived, inForce>>

Receive(c, q) ==
    /\ pc[c] = "idle"
    /\ pc' = [pc EXCEPT ![c] = "authenticate"]
    /\ query' = [query EXCEPT ![c] = q]
    /\ arrived' = [arrived EXCEPT ![c] = now]
    /\ UNCHANGED <<authority, call, env, now, read, response, inForce>>

Responds(c, status) ==
    /\ pc' = [pc EXCEPT ![c] = "respond"]
    /\ response' = [response EXCEPT ![c] = status]

\* The request ends before any source is looked at.
Concludes(c, status) ==
    /\ Responds(c, status)
    /\ UNCHANGED <<authority, call, env, now, query, read, arrived, inForce>>

Accepted == AcceptedCredentials(env)
Matches(c) == Authorized(query[c].token, Accepted, now)
InScope(c) == {cred \in Matches(c) : AllowsReadbackRoute(cred, query[c].route)}
OnKey(c)   == {cred \in InScope(c) : AllowsWriteKey(cred, QueryWriteKey(query[c]))}

\* The route is assembled, and there are credentials to check.
Shown(c) == Assembled(env, query[c].route) /\ Accepted # {}

Checks(c) == pc[c] = "authenticate" /\ Shown(c)

RejectHidden(c) == pc[c] = "authenticate" /\ ~Shown(c) /\ Concludes(c, "404")
RejectToken(c)  == Checks(c) /\ Matches(c) = {} /\ Concludes(c, "401")
RejectScope(c)  == Checks(c) /\ Matches(c) # {} /\ InScope(c) = {} /\ Concludes(c, "403")

\* requireQueryToken goes on where requireProcessQueryToken, the check of the
\* Kafka routes, stops: the write key against the credential, and not blank.
RejectWriteKey(c) ==
    /\ Checks(c) /\ query[c].route \in SourceRoutes
    /\ InScope(c) # {}
    /\ \/ OnKey(c) = {} /\ Concludes(c, "403")
       \/ OnKey(c) # {} /\ QueryWriteKey(query[c]) = BlankKey /\ Concludes(c, "400")

\* The Kafka snapshot needs no source.
Snapshot(c) ==
    /\ Checks(c) /\ query[c].route \in ProcessRoutes
    /\ InScope(c) # {}
    /\ Concludes(c, "200")

Resolve(c) ==
    /\ Checks(c) /\ query[c].route \in SourceRoutes
    /\ OnKey(c) # {} /\ QueryWriteKey(query[c]) # BlankKey
    /\ pc' = [pc EXCEPT ![c] = "resolve"]
    /\ Resolver!Invoke(c, QueryWriteKey(query[c]))
    /\ inForce' = [inForce EXCEPT ![c] = {authority[QueryWriteKey(query[c])]}]
    /\ UNCHANGED <<env, now, query, read, response, arrived>>

ResolverAnswers(c) ==
    /\ Resolver!TakeEffect(c)
    /\ UNCHANGED <<env, now, pc, query, read, response, arrived, inForce>>

\* Mutant: a resolver that fails is asked again.
UnresolvedRetrying(c) ==
    /\ pc[c] = "resolve" /\ call[c].status = "answered" /\ call[c].answer.err = "failed"
    /\ call' = [call EXCEPT ![c].status = "pending"]
    /\ UNCHANGED <<authority, env, now, pc, query, read, response, arrived, inForce>>

\* The resolver fails, or its answer is outside the startup surface.
Unresolved(c) ==
    /\ pc[c] = "resolve"
    /\ Resolver!Return(c)
    /\ LET a == call[c].answer IN
          \/ a.err # "nil" /\ Responds(c, ResolveStatus(a.err))
          \/ a.err = "nil" /\ ~InSurface(a.source) /\ Responds(c, "500")
    /\ UNCHANGED <<env, now, query, read, arrived, inForce>>

Resolves(c, d) ==
    /\ pc[c] = "resolve"
    /\ Resolver!Return(c)
    /\ call[c].answer.err = "nil" /\ d = call[c].answer.source /\ InSurface(d)
    /\ UNCHANGED <<env, now, query, arrived, inForce>>

\* Mutant: the parameters are looked at before the policy of the route.
RefuseParamsFirst(c, d) ==
    /\ Resolves(c, d)
    /\ CASE ~AllowsOrigin(d, query[c].origin) -> Responds(c, "403")
         [] AllowsOrigin(d, query[c].origin) /\ ~GoodParams(query[c], d) -> Responds(c, "400")
         [] OTHER -> ~AllowsReadback(d, query[c].route) /\ Responds(c, "403")
    /\ UNCHANGED read

\* Origin, then policy, then parameters.
RefuseSource(c, d) ==
    /\ Resolves(c, d)
    /\ CASE ~AllowsOrigin(d, query[c].origin) \/ ~AllowsReadback(d, query[c].route) ->
               Responds(c, "403")
         [] OTHER -> ~GoodParams(query[c], d) /\ Responds(c, "400")
    /\ UNCHANGED read

\* Mutant: the policy of the route is not asked.
AskStorageAnyway(c, d) ==
    /\ Resolves(c, d)
    /\ AllowsOrigin(d, query[c].origin) /\ GoodParams(query[c], d)
    /\ read' = [read EXCEPT ![c] = Read(query[c], d, now)]
    /\ pc' = [pc EXCEPT ![c] = "read"]
    /\ UNCHANGED response

AskStorage(c, d) ==
    /\ Resolves(c, d)
    /\ AllowsOrigin(d, query[c].origin) /\ AllowsReadback(d, query[c].route)
    /\ GoodParams(query[c], d)
    /\ read' = [read EXCEPT ![c] = Read(query[c], d, now)]
    /\ pc' = [pc EXCEPT ![c] = "read"]
    /\ UNCHANGED response

\* Storage answers, refuses the query (ErrInvalidEventQuery), or fails.
StorageReturns(c) ==
    /\ pc[c] = "read"
    /\ \E status \in StorageStatuses(query[c]) : Responds(c, status)
    /\ UNCHANGED <<authority, call, env, now, query, read, arrived, inForce>>

\* Mutant: the request outlives its response.
RespondKeepsQuery(c) ==
    /\ pc[c] = "respond"
    /\ pc' = [pc EXCEPT ![c] = "idle"]
    /\ response' = [response EXCEPT ![c] = "none"]
    /\ inForce' = [inForce EXCEPT ![c] = {}]
    /\ UNCHANGED <<authority, call, env, now, query, read, arrived>>

Respond(c) ==
    /\ pc[c] = "respond"
    /\ pc' = [pc EXCEPT ![c] = "idle"]
    /\ query' = [query EXCEPT ![c] = NoQuery]
    /\ read' = [read EXCEPT ![c] = NoRead]
    /\ response' = [response EXCEPT ![c] = "none"]
    /\ arrived' = [arrived EXCEPT ![c] = 0]
    /\ inForce' = [inForce EXCEPT ![c] = {}]
    /\ UNCHANGED <<authority, call, env, now>>

Steps(c) ==
    \/ RejectHidden(c) \/ RejectToken(c) \/ RejectScope(c) \/ RejectWriteKey(c)
    \/ Snapshot(c) \/ Resolve(c) \/ ResolverAnswers(c) \/ Unresolved(c)
    \/ \E d \in Docs : RefuseSource(c, d) \/ AskStorage(c, d)
    \/ StorageReturns(c) \/ Respond(c)

Next ==
    \/ \E k \in Keys, h \in Holdings : Publish(k, h)
    \/ Tick
    \/ \E c \in Calls :
          \/ \E q \in Queries : Receive(c, q)
          \/ Steps(c)

Spec == Init /\ [][Next]_vars

\* Handlers run, the resolver answers (HTTPResolver!CallsReturn), storage returns.
FairSpec == Spec /\ \A c \in Calls : WF_vars(Steps(c))

----------------------------------------------------------------------------
TypeOK ==
    /\ authority \in [Keys -> Holdings]
    /\ call \in [Calls -> [status : {"idle", "pending", "answered"},
                           key : Keys \cup {BlankKey}, answer : Answers]]
    /\ env \in Envs /\ Starts(env)
    /\ now \in 0..MaxTime
    /\ pc \in [Calls -> {"idle", "authenticate", "resolve", "read", "respond"}]
    /\ query \in [Calls -> Queries \cup {NoQuery}]
    /\ read \in [Calls -> Reads \cup {NoRead}]
    /\ response \in [Calls -> Responses]
    /\ arrived \in [Calls -> 0..MaxTime]
    /\ inForce \in [Calls -> SUBSET Holdings]
    /\ \A c \in Calls :
          /\ pc[c] = "idle" <=> query[c] = NoQuery
          /\ pc[c] = "resolve" <=> call[c].status # "idle"
          /\ pc[c] # "respond" <=> response[c] = "none"
          /\ pc[c] = "read" => read[c] # NoRead
          /\ pc[c] \in {"idle", "authenticate", "resolve"} => read[c] = NoRead

EntriesFor(q) == ConfiguredFor(env, q)
During(c) == arrived[c]..now

\* The control plane is asked, storage read and a parameter or a failure reported
\* only for a token that, at an instant of this request, was inside the window, the
\* scopes and the write keys of the first entry that configures it: no other entry
\* of a rotation and no bare copy of the token widens them (query.go:449-492,
\* query_auth.go:39-105, config.go:364-418).
CallersAuthorized ==
    \A c \in Calls :
       (call[c].status # "idle" \/ read[c] # NoRead \/ response[c] \in {"200", "400", "500"}) =>
          \E t \in During(c), e \in EntriesFor(query[c]) : Opens(e, t) /\ Admits(e, query[c])

\* Storage is asked only about the scope of a document of the very write key that
\* was in force while the request was resolved, inside the startup surface if there
\* is one, open to its origin, route and property filters (query.go:494-515,
\* 135-145, 693-698).
ReadsJustified ==
    \A c \in Calls : read[c] # NoRead =>
       LET q == query[c] d == read[c].source IN
       /\ d \in inForce[c] /\ Usable(QueryWriteKey(q), d) /\ InSurface(d)
       /\ read[c].route = q.route /\ read[c].scope = ScopeOf[d]
       /\ AllowsOrigin(d, q.origin) /\ q.route \in ReadbackPolicy[d]
       /\ q.route = "events" =>
             \A i \in DOMAIN q.filters : AllowsPropertyFilter(d, q.filters[i])

\* A caller is turned away only for a reason that held during its request: 404 for
\* a route that is not assembled (never for want of credentials), 401 for a token that was not
\* good at some instant or a key that was unknown, 403 for a credential, a source,
\* an origin or a policy that did not admit it.
RefusalsJustified ==
    \A c \in Calls :
       LET q == query[c] IN
       /\ response[c] = "404" => ~Assembled(env, q.route)
       /\ response[c] = "401" =>
             (\E t \in During(c) : \A e \in EntriesFor(q) : ~Opens(e, t)) \/ Missing \in inForce[c]
       /\ response[c] = "403" =>
             \/ \E e \in EntriesFor(q) : ~Admits(e, q)
             \/ Gone \in inForce[c]
             \/ \E d \in inForce[c] \cap Docs :
                   \/ d \notin Enabled \/ ~AllowsOrigin(d, q.origin)
                   \/ q.route \notin ReadbackPolicy[d]

\* Every request is answered, however the control plane and storage fail.
QueriesAnswered == \A c \in Calls : pc[c] = "authenticate" ~> pc[c] = "respond"

(***************************************************************************)
(* What has become of request c in the terms of ReadGate.  It is judged    *)
(* when the resolver takes effect: what the handler makes of the answer is *)
(* settled by then, but for the time a realtime read starts from.          *)
(***************************************************************************)
Standing(c) ==
    CASE pc[c] = "idle"         -> NotAsked
      [] pc[c] = "authenticate" -> Asked(query[c])
      [] pc[c] = "resolve"      ->
            IF call[c].status = "pending" THEN Passed(query[c])
            ELSE Judged(query[c], call[c].answer)
      [] pc[c] = "read"         -> Reading(query[c], read[c])
      [] OTHER                  -> Ended(query[c], response[c])
requestBar == [c \in Calls |-> Standing(c)]

Contract == INSTANCE ReadGate WITH request <- requestBar

\* The read routes are atomic towards callers, operator and control plane: whether a
\* query is let in is settled at one instant by the first entry of its token, what
\* may be read at one instant by what is held for its key, and of several reasons to
\* refuse it the caller always sees the same (query.go:147-174, 449-515).
ImplementsReadGate == Contract!Spec
=============================================================================
