--------------------------- MODULE SourceAuthority ---------------------------
(***************************************************************************)
(* What controlplane.Resolver promises to the HTTP handlers: a call that   *)
(* succeeds returns the source configuration the SaaS control plane held   *)
(* for the write key at ONE instant between the call and its return, and   *)
(* only if that configuration was enabled and valid then.  A call may      *)
(* always fail (fail closed); it may never answer from the past.           *)
(*                                                                         *)
(* There is no cache, no ETag, no network and no clock here: HTTPResolver  *)
(* has all four and implements this module.                                *)
(***************************************************************************)
EXTENDS RuntimeSource

CONSTANT Calls      \* concurrent ResolveSource calls, one per request

VARIABLES
    authority,      \* what the control plane holds for each write key
    call            \* what each caller can see of its ResolveSource call

vars == <<authority, call>>

Idle == [status |-> "idle", key |-> BlankKey, answer |-> NoAnswer]

Init ==
    /\ authority \in [Keys -> Holdings]
    /\ call = [c \in Calls |-> Idle]

\* The control plane edits, disables, removes or restores a source.
Publish(k, h) ==
    /\ authority' = [authority EXCEPT ![k] = h]
    /\ UNCHANGED call

Invoke(c, k) ==
    /\ call[c].status = "idle"
    /\ call' = [call EXCEPT ![c] = [status |-> "pending", key |-> k, answer |-> NoAnswer]]
    /\ UNCHANGED authority

\* The instant the call takes effect: it reads the control plane, or fails.
Verdicts(k) == IF k = BlankKey THEN {Refuse("not_found")}
               ELSE {Refuse("failed"), Verdict(k, authority[k])}

TakeEffect(c) ==
    /\ call[c].status = "pending"
    /\ \E a \in Verdicts(call[c].key) :
          call' = [call EXCEPT ![c] = [status |-> "answered", key |-> call[c].key, answer |-> a]]
    /\ UNCHANGED authority

Return(c) ==
    /\ call[c].status = "answered"
    /\ call' = [call EXCEPT ![c] = Idle]
    /\ UNCHANGED authority

Next ==
    \/ \E k \in Keys, h \in Holdings : Publish(k, h)
    \/ \E c \in Calls :
          \/ \E k \in Keys \cup {BlankKey} : Invoke(c, k)
          \/ TakeEffect(c)
          \/ Return(c)

Spec == Init /\ [][Next]_vars
=============================================================================
