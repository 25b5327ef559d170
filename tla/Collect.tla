------------------------------- MODULE Collect -------------------------------
(***************************************************************************)
(* POST /collect (internal/collectapi/handler.go) between three parties it *)
(* does not control: clients, the control plane behind the resolver, and   *)
(* the event bus.  The handler resolves the write key, checks the origin,  *)
(* seals the scope of the event, filters it and publishes it; sources are  *)
(* edited, disabled and restored meanwhile.                                *)
(*                                                                         *)
(* The resolver is SourceAuthority, which HTTPResolver implements, behind  *)
(* the SchemaBoundResolver that runtime.newSourceResolver may put around   *)
(* it.  inForce and published are history variables of the properties.     *)
(***************************************************************************)
EXTENDS CollectPolicy

CONSTANT Calls          \* requests in flight

VARIABLES
    authority, call,    \* of SourceAuthority
    pc,                 \* where each request is
    req,                \* the request
    source,             \* the source config it was resolved to
    response,           \* the HTTP response
    queue,              \* the events on the bus
    inForce,            \* history: what was held for its key while it was resolved
    published           \* history: the event it handed to the bus

vars == <<authority, call, pc, req, source, response, queue, inForce, published>>

Resolver == INSTANCE SourceAuthority

----------------------------------------------------------------------------
(* The handler's side of each step: what happens to its own variables.     *)

HandlerInit ==
    /\ pc = [c \in Calls |-> "idle"]
    /\ req = [c \in Calls |-> NoRequest]
    /\ source = [c \in Calls |-> ZeroSource]
    /\ response = [c \in Calls |-> "none"]
    /\ queue = {}
    /\ inForce = [c \in Calls |-> {}]
    /\ published = [c \in Calls |-> NoEvent]

\* History: holding h is in force for whoever waits for the word on key k.
Watches(k, h) ==
    /\ inForce' = [c \in Calls |->
          IF pc[c] = "resolve" /\ call[c].key = k THEN inForce[c] \cup {h} ELSE inForce[c]]
    /\ UNCHANGED <<pc, req, source, response, queue, published>>

Responds(c, status) ==
    /\ pc' = [pc EXCEPT ![c] = "respond"]
    /\ response' = [response EXCEPT ![c] = status]

\* A request arrives whose body does not parse.
Rejects(c, r) ==
    /\ pc[c] = "idle" /\ ~r.parses
    /\ req' = [req EXCEPT ![c] = r]
    /\ Responds(c, "400")
    /\ UNCHANGED <<source, queue, inForce, published>>

\* One arrives that does: its write key goes to the resolver.
Opens(c, r) ==
    /\ pc[c] = "idle" /\ r.parses
    /\ req' = [req EXCEPT ![c] = r]
    /\ pc' = [pc EXCEPT ![c] = "resolve"]
    /\ inForce' = [inForce EXCEPT ![c] =
                      IF WriteKey(r) = BlankKey THEN {} ELSE {authority[WriteKey(r)]}]
    /\ UNCHANGED <<source, response, queue, published>>

\* Mutant: a failing control plane is answered from what was used before.
ProceedsFailOpen(c, a) ==
    /\ pc[c] = "resolve"
    /\ LET known == {e.source : e \in {x \in queue : x.key = WriteKey(req[c])}}
       IN \/ /\ a.err # "nil" /\ (a.err # "failed" \/ known = {})
             /\ Responds(c, ResolveStatus(a.err))
             /\ UNCHANGED source
          \/ \E d \in IF a.err = "nil" THEN {a.source} ELSE known :
                /\ a.err \in {"nil", "failed"}
                /\ source' = [source EXCEPT ![c] = d]
                /\ pc' = [pc EXCEPT ![c] = "handle"]
                /\ UNCHANGED response
    /\ UNCHANGED <<req, queue, inForce, published>>

\* The resolver returns answer a: an error, a source outside the startup surface, an
\* origin the source does not allow, or stages that cannot be built end the request.
Proceeds(c, a) ==
    /\ pc[c] = "resolve"
    /\ \/ a.err # "nil" /\ Responds(c, ResolveStatus(a.err)) /\ UNCHANGED source
       \/ /\ a.err = "nil" /\ ~InSurface(a.source)
          /\ Responds(c, "500")
          /\ UNCHANGED source
       \/ /\ a.err = "nil" /\ InSurface(a.source)
          /\ source' = [source EXCEPT ![c] = a.source]
          /\ CASE ~AllowsOrigin(a.source, req[c].origin) -> Responds(c, "403")
               [] AllowsOrigin(a.source, req[c].origin) /\ ~BuildsStages(a.source) ->
                     Responds(c, "500")
               [] OTHER -> pc' = [pc EXCEPT ![c] = "handle"] /\ UNCHANGED response
    /\ UNCHANGED <<req, queue, inForce, published>>

\* collect.Handle refuses or filters the event before it publishes anything.
HandleInvalid(c) ==
    /\ pc[c] = "handle" /\ ~req[c].valid
    /\ Responds(c, "400")
    /\ UNCHANGED <<req, source, queue, inForce, published>>

HandleFiltered(c) ==
    /\ pc[c] = "handle" /\ req[c].visitor \in FilteredBy[source[c]]
    /\ Responds(c, "filtered")
    /\ UNCHANGED <<req, source, queue, inForce, published>>

Publishes(c) ==
    /\ pc[c] = "handle" /\ req[c].valid
    /\ req[c].visitor \notin FilteredBy[source[c]]
    /\ published' = [published EXCEPT ![c] = Event(req[c], source[c])]
    /\ UNCHANGED <<req, source, inForce>>

\* EventBus.Publish takes the event.
BusAccepts(c) ==
    /\ Publishes(c)
    /\ queue' = queue \cup {published'[c]}
    /\ Responds(c, "accepted")

\* Mutants: the error of Publish is dropped; the publish is tried again.
BusFailsAccepted(c) ==
    /\ Publishes(c)
    /\ queue' \in {queue, queue \cup {published'[c]}}
    /\ Responds(c, "accepted")
BusFailsRetrying(c) ==
    /\ pc[c] = "handle" /\ req[c].valid
    /\ req[c].visitor \notin FilteredBy[source[c]]
    /\ queue' \in {queue, queue \cup {Event(req[c], source[c])}}
    /\ UNCHANGED <<pc, req, source, response, inForce, published>>

\* It fails: the broker may have the event all the same.
BusFails(c) ==
    /\ Publishes(c)
    /\ queue' \in {queue, queue \cup {published'[c]}}
    /\ Responds(c, "500")

\* Mutant: the request record outlives the request.
RespondKeepsRequest(c) ==
    /\ pc[c] = "respond"
    /\ pc' = [pc EXCEPT ![c] = "idle"]
    /\ source' = [source EXCEPT ![c] = ZeroSource]
    /\ response' = [response EXCEPT ![c] = "none"]
    /\ inForce' = [inForce EXCEPT ![c] = {}]
    /\ published' = [published EXCEPT ![c] = NoEvent]
    /\ UNCHANGED <<queue, req>>

\* The response is sent; everything the request knew was local to it.
Respond(c) ==
    /\ pc[c] = "respond"
    /\ pc' = [pc EXCEPT ![c] = "idle"]
    /\ req' = [req EXCEPT ![c] = NoRequest]
    /\ source' = [source EXCEPT ![c] = ZeroSource]
    /\ response' = [response EXCEPT ![c] = "none"]
    /\ inForce' = [inForce EXCEPT ![c] = {}]
    /\ published' = [published EXCEPT ![c] = NoEvent]
    /\ UNCHANGED queue

\* The steps in which the resolver has no part.
Handles(c) ==
    \/ HandleInvalid(c) \/ HandleFiltered(c) \/ BusAccepts(c) \/ BusFails(c)
    \/ Respond(c)

----------------------------------------------------------------------------
(* The handler next to a resolver that keeps the promise of SourceAuthority. *)

Init == Resolver!Init /\ HandlerInit

\* The control plane changes a source.
Publish(k, h) == Resolver!Publish(k, h) /\ Watches(k, h)

Receive(c, r) ==
    \/ Rejects(c, r) /\ UNCHANGED <<authority, call>>
    \/ Opens(c, r) /\ Resolver!Invoke(c, WriteKey(r))

ResolverAnswers(c) ==
    /\ Resolver!TakeEffect(c)
    /\ UNCHANGED <<pc, req, source, response, queue, inForce, published>>

Resolved(c) == Resolver!Return(c) /\ Proceeds(c, call[c].answer)

Steps(c) ==
    \/ ResolverAnswers(c)
    \/ Resolved(c)
    \/ Handles(c) /\ UNCHANGED <<authority, call>>

Next ==
    \/ \E k \in Keys, h \in Holdings : Publish(k, h)
    \/ \E c \in Calls :
          \/ \E r \in Requests : Receive(c, r)
          \/ Steps(c)

Spec == Init /\ [][Next]_vars

----------------------------------------------------------------------------
TypeOK ==
    /\ authority \in [Keys -> Holdings]
    /\ call \in [Calls -> [status : {"idle", "pending", "answered"},
                           key : Keys \cup {BlankKey}, answer : Answers]]
    /\ pc \in [Calls -> {"idle", "resolve", "handle", "respond"}]
    /\ req \in [Calls -> Requests \cup {NoRequest}]
    /\ source \in [Calls -> Docs \cup {ZeroSource}]
    /\ response \in [Calls -> Responses]
    /\ queue \subseteq Events
    /\ inForce \in [Calls -> SUBSET Holdings]
    /\ published \in [Calls -> Events \cup {NoEvent}]
    /\ \A c \in Calls :
          /\ pc[c] = "idle" <=> req[c] = NoRequest
          /\ pc[c] = "resolve" <=> call[c].status # "idle"

\* Whatever clients claim and however sources change, an event on the bus carries
\* the scope of a valid, enabled document of its write key, came from an origin that
\* document allows and a visitor it does not filter, and has the key and scope of an
\* enabled startup source if there are any (handler.go:236-238, resolver.go:182-187).
QueueTrusted ==
    \A e \in queue :
       /\ Usable(e.key, e.source)
       /\ e.scope = ScopeOf[e.source]
       /\ AllowsOrigin(e.source, e.origin)
       /\ e.visitor \notin FilteredBy[e.source]
       /\ IngestionEnabled /\ StartupSources # {} =>
             \E s \in StartupSources \cap Enabled : KeyOf[s] = e.key /\ ScopeOf[s] = e.scope

\* 202 means the event is on the bus, unless it says filtered; every refusal and
\* every filtered event left the bus alone; only a 500 leaves the client in doubt
\* (handler.go:270-271 "Return acceptance only after EventBus.Publish succeeds").
AckedIsQueued ==
    \A c \in Calls :
       /\ response[c] = "accepted" => published[c] \in queue
       /\ response[c] \in {"filtered", "400", "401", "403"} => published[c] = NoEvent

\* The policy an event was published under was in force while its own request was
\* being resolved: a source disabled or edited before that is never used.
PublishedInForce ==
    \A c \in Calls : published[c] # NoEvent => published[c].source \in inForce[c]

\* A client is turned away only for a reason that held during its request: 401 for
\* a key that is blank or unknown, 403 for a disabled source or a refused origin.
RefusalsJustified ==
    \A c \in Calls :
       LET k == WriteKey(req[c]) IN
       /\ response[c] = "401" => k = BlankKey \/ Missing \in inForce[c]
       /\ response[c] = "403" =>
             \/ Gone \in inForce[c]
             \/ \E d \in inForce[c] \cap Docs :
                   d \notin Enabled \/ ~AllowsOrigin(d, req[c].origin)

----------------------------------------------------------------------------
\* The refinement: the request is judged when the resolver takes effect, and what
\* the handler still checks after that is settled already.
Standing(c) ==
    CASE pc[c] = "idle"    -> NotOpened
      [] pc[c] = "respond" -> Ended(req[c], response[c])
      [] pc[c] = "handle"  -> Judged(req[c], Handled(req[c], source[c]))
      [] OTHER             ->
            IF call[c].status = "pending" THEN Opened(req[c])
            ELSE Judged(req[c], Ends(req[c], call[c].answer))
requestBar == [c \in Calls |-> Standing(c)]

Contract == INSTANCE Admission WITH request <- requestBar

\* POST /collect is atomic towards the control plane: an event is sealed, filtered
\* and admitted, or refused, by what was held for its key at one instant, and is
\* put on the bus in the step that settles its response (handler.go:212-276).
ImplementsAdmission == Contract!Spec
=============================================================================
