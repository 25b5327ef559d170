---------------------------- MODULE CollectPolicy ----------------------------
(***************************************************************************)
(* What a collect request is, what its event is under a source document,   *)
(* and what the handler can answer.  Admission says what POST /collect     *)
(* promises in these terms, and Collect how the handler goes about it.     *)
(***************************************************************************)
EXTENDS SourcePolicy

CONSTANTS
    Requests,           \* the collect requests clients send
    NoRequest,
    NoEvent,
    Visitors,           \* what a TrafficFilterConfig tells apart: user agent and IP
    FilteredBy,         \* FilteredBy[d]: the visitors its traffic filter drops
    BadStages           \* documents whose filter or salts no collect stage accepts

ASSUME RequestsAssumption ==
    Requests \subseteq [parses : BOOLEAN, valid : BOOLEAN,
                        header : Keys \cup {BlankKey}, bearer : Keys \cup {BlankKey},
                        query : Keys \cup {BlankKey}, body : Keys \cup {BlankKey},
                        origin : Origins \cup {NoOrigin}, visitor : Visitors,
                        claims : Scopes]

ASSUME NoRequestAssumption == NoRequest \notin Requests

\* h.writeKey: header, then bearer token, then query, then body.
WriteKey(r) ==
    LET given == {s \in {"header", "bearer", "query", "body"} : r[s] # BlankKey} IN
    CASE "header" \in given -> r.header
      [] "header" \notin given /\ "bearer" \in given -> r.bearer
      [] given \in {{"query"}, {"query", "body"}} -> r.query
      [] OTHER -> r.body

\* h.stages: the traffic filter, enrichment, session and visit stages of d can be built.
BuildsStages(d) == d \notin BadStages

\* The event of request r under source config d: the client's scope is overridden.
Event(r, d) == [key |-> WriteKey(r), scope |-> ScopeOf[d], source |-> d,
                origin |-> r.origin, visitor |-> r.visitor]
Events == [key : Keys, scope : Scopes, source : Docs,
           origin : Origins \cup {NoOrigin}, visitor : Visitors]

Responses == {"none", "accepted", "filtered", "400", "401", "403", "500"}
----------------------------------------------------------------------------
\* How a request ends: the status of its response, the events the bus gets.
End(status, events) == [status |-> status, events |-> events]

\* Under document d an invalid event is refused, a filtered one dropped, any other
\* sealed and published; a publish that fails may have reached the bus.
Handled(r, d) ==
    LET sealed == Event(r, d) IN
    {e \in {End("400", {}), End("filtered", {}),
            End("accepted", {sealed}), End("500", {}), End("500", {sealed})} :
        CASE e.status = "400"      -> ~r.valid
          [] e.status = "filtered" -> r.visitor \in FilteredBy[d]
          [] OTHER                 -> r.valid /\ r.visitor \notin FilteredBy[d]}

\* The ends open to request r when answer a is the word on its write key.
Ends(r, a) ==
    CASE a.err # "nil" -> {End(ResolveStatus(a.err), {})}
      [] a.err = "nil" /\ ~InSurface(a.source) -> {End("500", {})}
      [] a.err = "nil" /\ InSurface(a.source) /\ ~AllowsOrigin(a.source, r.origin) ->
            {End("403", {})}
      [] a.err = "nil" /\ InSurface(a.source) /\ AllowsOrigin(a.source, r.origin)
         /\ ~BuildsStages(a.source) -> {End("500", {})}
      [] OTHER -> Handled(r, a.source)

\* What has become of a request: nobody asked, it waits for the word on its write
\* key, it may end in these ways, or it has ended with this status.
NotOpened        == [stage |-> "idle", req |-> NoRequest, ends |-> {}, status |-> "none"]
Opened(r)        == [stage |-> "open", req |-> r, ends |-> {}, status |-> "none"]
Judged(r, ends)  == [stage |-> "judged", req |-> r, ends |-> ends, status |-> "none"]
Ended(r, status) == [stage |-> "ended", req |-> r, ends |-> {}, status |-> status]
=============================================================================
