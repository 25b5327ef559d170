------------------------------- MODULE ReadGate -------------------------------
(***************************************************************************)
(* What the read routes promise, with no credential list, resolver or      *)
(* handler in sight.  A request passes the gate at ONE instant, by what    *)
(* the operator's environment says of its token then; it is judged at ONE  *)
(* later instant, by what the control plane holds for its write key then,  *)
(* or not judged at all (fail closed); and if the judgement grants it a    *)
(* document, storage is asked exactly the read that document stands for.   *)
(* Which refusal a caller sees when several apply is part of the promise.  *)
(*                                                                         *)
(* Readback implements this module.                                        *)
(***************************************************************************)
EXTENDS QueryPolicy

CONSTANT Calls      \* requests in flight

VARIABLES
    authority,      \* what the control plane holds for each write key
    env,            \* the environment the operator started the process with
    now,            \* the time of day
    request         \* what has become of each request

vars == <<authority, env, now, request>>

----------------------------------------------------------------------------
\* The word on write key k now, or none.
Words(k) == {Refuse("failed"), Verdict(k, authority[k])}

Init ==
    /\ authority \in [Keys -> Holdings]
    /\ env \in {e \in Envs : Starts(e)}
    /\ now = 0
    /\ request = [c \in Calls |-> NotAsked]

Publish(k, h) ==
    /\ authority' = [authority EXCEPT ![k] = h]
    /\ UNCHANGED <<env, now, request>>

Tick ==
    /\ now' = now + 1
    /\ UNCHANGED <<authority, env, request>>

\* Request c becomes r; the world does not change with it.
Becomes(c, r) ==
    /\ request' = [request EXCEPT ![c] = r]
    /\ UNCHANGED <<authority, env, now>>

Ask(c, q) == request[c].stage = "idle" /\ Becomes(c, Asked(q))

\* The instant of the gate.
Gate(c) == request[c].stage = "asked" /\ Becomes(c, Gated(env, request[c].query, now))

\* The instant of judgement.
Judge(c) ==
    /\ request[c].stage = "passed"
    /\ \E a \in Words(QueryWriteKey(request[c].query)) : Becomes(c, Judged(request[c].query, a))

AskStorage(c) ==
    /\ request[c].stage = "granted"
    /\ Becomes(c, Reading(request[c].query, Read(request[c].query, request[c].source, now)))

StorageReturns(c) ==
    /\ request[c].stage = "reading"
    /\ \E s \in StorageStatuses(request[c].query) : Becomes(c, Ended(request[c].query, s))

\* The response is sent.
Close(c) == request[c].stage = "ended" /\ Becomes(c, NotAsked)

Next ==
    \/ \E k \in Keys, h \in Holdings : Publish(k, h)
    \/ Tick
    \/ \E c \in Calls :
          \/ \E q \in Queries : Ask(c, q)
          \/ Gate(c) \/ Judge(c) \/ AskStorage(c) \/ StorageReturns(c) \/ Close(c)

Spec == Init /\ [][Next]_vars
=============================================================================
