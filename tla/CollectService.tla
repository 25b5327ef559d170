---------------------------- MODULE CollectService ----------------------------
(***************************************************************************)
(* POST /collect as it runs: the handler of Collect over the resolver of   *)
(* HTTPResolver, whose cache all requests share.  Every step is a step of  *)
(* one of them, or both: a request calls the resolver in the step that     *)
(* opens it, and goes on with what the call returns.                       *)
(***************************************************************************)
EXTENDS HTTPResolver, CollectPolicy

VARIABLES at, req, source, response, queue, inForce, published  \* of the handler

handlerVars == <<at, req, source, response, queue, inForce, published>>
serviceVars == <<vars, handlerVars>>

\* What the handler sees of a call to the resolver is callBar.
Handler == INSTANCE Collect WITH pc <- at, call <- callBar

ServiceInit == Init /\ Handler!HandlerInit

\* The control plane changes a source.
Edit(k, h) == Publish(k, h) /\ Handler!Watches(k, h)

\* What passes between requests.
Passes ==
    /\ Tick \/ \E k, other \in Keys : ReuseBuffer(k, other)
    /\ UNCHANGED handlerVars

Receive(c, r) ==
    \/ Handler!Rejects(c, r) /\ UNCHANGED vars
    \/ Handler!Opens(c, r) /\ Invoke(c, WriteKey(r))

Resolve(c) == CallNext(c) /\ UNCHANGED handlerVars

\* Mutant: a resolver that failed is asked again.
ResolvedRetrying(c) ==
    \/ Return(c) /\ result[c].err # "failed" /\ Handler!Proceeds(c, result[c])
    \/ /\ pc[c] = "done" /\ result[c].err = "failed"
       /\ pc' = [pc EXCEPT ![c] = "start"]
       /\ result' = [result EXCEPT ![c] = NoAnswer]
       /\ UNCHANGED <<authority, cache, now, key, held, reply, handlerVars>>

Resolved(c) == Return(c) /\ Handler!Proceeds(c, result[c])

Handle(c) == Handler!Handles(c) /\ UNCHANGED vars

RequestSteps(c) == Resolve(c) \/ Resolved(c) \/ Handle(c)

ServiceNext ==
    \/ \E k \in Keys, h \in Holdings : Edit(k, h)
    \/ Passes
    \/ \E c \in Calls :
          \/ \E r \in Requests : Receive(c, r)
          \/ RequestSteps(c)

Service == ServiceInit /\ [][ServiceNext]_serviceVars

\* A request's goroutine runs, http.Client.Timeout ends every exchange with the
\* control plane, and Publish returns.
FairService == Service /\ \A c \in Calls : WF_serviceVars(RequestSteps(c))

----------------------------------------------------------------------------
ServiceTypeOK == TypeOK /\ Handler!TypeOK

\* What Collect says of the handler over any resolver that keeps its promise holds
\* over this one, whatever its cache holds: see Collect for what each of them says.
QueueTrusted      == Handler!QueueTrusted
AckedIsQueued     == Handler!AckedIsQueued
PublishedInForce  == Handler!PublishedInForce
RefusalsJustified == Handler!RefusalsJustified

\* The handler cannot tell the caching resolver from an uncached read of the control
\* plane (http_resolver.go:126-157 against the contract in resolver.go:167-171).
ImplementsCollect == Handler!Spec

\* Nor can clients: each request is admitted or refused by what the control plane
\* held at one instant of it, and ends once (handler.go:212-276).
ImplementsAdmission == Handler!Contract!Spec

\* Every request is answered, however the control plane and the bus fail.
RequestsAnswered == \A c \in Calls : at[c] = "resolve" ~> at[c] = "respond"
=============================================================================
