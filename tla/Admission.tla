------------------------------ MODULE Admission ------------------------------
(***************************************************************************)
(* What POST /collect promises, with no resolver, cache, handler or bus in *)
(* sight.  A request is judged at ONE instant, by what the control plane   *)
(* holds for its write key then, or not judged at all (fail closed).  The  *)
(* judgement says how the request may end: what the client is told and     *)
(* which event it puts on the bus.  It then ends once, in one of these     *)
(* ways; nothing that happens in between can change them.                  *)
(*                                                                         *)
(* Collect implements this module, over any SourceAuthority; through it    *)
(* CollectService does, over the real resolver with its cache.             *)
(***************************************************************************)
EXTENDS CollectPolicy

CONSTANT Calls      \* requests in flight

VARIABLES
    authority,      \* what the control plane holds for each write key
    request,        \* each request: its stage, its ends once judged, its response
    queue           \* the events on the bus

vars == <<authority, request, queue>>

----------------------------------------------------------------------------
\* The word on write key k now, or none.
Words(k) == IF k = BlankKey THEN {Refuse("not_found")}
            ELSE {Refuse("failed"), Verdict(k, authority[k])}

Init ==
    /\ authority \in [Keys -> Holdings]
    /\ request = [c \in Calls |-> NotOpened]
    /\ queue = {}

Publish(k, h) ==
    /\ authority' = [authority EXCEPT ![k] = h]
    /\ UNCHANGED <<request, queue>>

\* A request arrives.  One whose body does not parse is refused without more ado.
Open(c, r) ==
    /\ request[c].stage = "idle"
    /\ request' = [request EXCEPT ![c] = IF r.parses THEN Opened(r) ELSE Ended(r, "400")]
    /\ UNCHANGED <<authority, queue>>

\* The instant of judgement.
Judge(c) ==
    /\ request[c].stage = "open"
    /\ \E a \in Words(WriteKey(request[c].req)) :
          request' = [request EXCEPT ![c] = Judged(request[c].req, Ends(request[c].req, a))]
    /\ UNCHANGED <<authority, queue>>

\* The request ends in one of the ways open to it.
Finish(c) ==
    /\ request[c].stage = "judged"
    /\ \E e \in request[c].ends :
          /\ request' = [request EXCEPT ![c] = Ended(request[c].req, e.status)]
          /\ queue' = queue \cup e.events
    /\ UNCHANGED authority

\* The response is sent.
Close(c) ==
    /\ request[c].stage = "ended"
    /\ request' = [request EXCEPT ![c] = NotOpened]
    /\ UNCHANGED <<authority, queue>>

Next ==
    \/ \E k \in Keys, h \in Holdings : Publish(k, h)
    \/ \E c \in Calls :
          \/ \E r \in Requests : Open(c, r)
          \/ Judge(c) \/ Finish(c) \/ Close(c)

Spec == Init /\ [][Next]_vars
=============================================================================
