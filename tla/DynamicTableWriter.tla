--------------------------- MODULE DynamicTableWriter ---------------------------
(***************************************************************************)
(* internal/runtime/dynamic_table_writer.go: the event writer that creates *)
(* the ClickHouse tables of a source on its first event.  The Kafka pool   *)
(* calls WriteEvent from up to 100 handlers at once.  Each handler looks   *)
(* in the ensured set under the mutex, and on a miss takes the mutex again *)
(* and holds it across four ClickHouse round trips, any of which can fail. *)
(***************************************************************************)
EXTENDS Naturals, FiniteSets

CONSTANTS
    Workers,            \* concurrent callers of WriteEvent
    Routes,             \* routed table families: TableRouter.Route(envelope)
    PropertyIndexing,   \* w.propertyIndexing
    Nobody,             \* the mutex is free
    NoRoute             \* no event in hand, or Route failed

ASSUME WorkersAssumption == Nobody \notin Workers
ASSUME RoutesAssumption == NoRoute \notin Routes
ASSUME PropertyIndexingAssumption == PropertyIndexing \in BOOLEAN

VARIABLES
    pc,         \* where each worker is in WriteEvent
    route,      \* the table family of the event it carries
    mu,         \* w.mu: the worker that holds it, or Nobody
    ensured,    \* w.ensured
    tables      \* the tables ClickHouse has: <<route, kind>>

vars == <<pc, route, mu, ensured, tables>>

----------------------------------------------------------------------------
\* The tables inner.WriteEvent will touch for an event of route r.
Family(r) == {<<r, "event">>} \cup (IF PropertyIndexing THEN {<<r, "property">>} ELSE {})

\* Inside ensureTablesForEnvelope, after w.mu.Lock().
Section == {"recheck", "event_ddl", "event_check", "property_ddl", "property_check"}

Init ==
    /\ pc = [w \in Workers |-> "idle"]
    /\ route = [w \in Workers |-> NoRoute]
    /\ mu = Nobody
    /\ ensured = {}
    /\ tables \in SUBSET {<<r, kind>> : r \in Routes, kind \in {"event", "property"}}

Goto(w, label) == pc' = [pc EXCEPT ![w] = label]

\* The queue delivers an event, for the first time or again.
Deliver(w, r) ==
    /\ pc[w] = "idle"
    /\ route' = [route EXCEPT ![w] = r]
    /\ Goto(w, "route")
    /\ UNCHANGED <<mu, ensured, tables>>

\* WriteEvent returns: with the lock released, whatever the outcome.
Done(w) ==
    /\ Goto(w, "idle")
    /\ route' = [route EXCEPT ![w] = NoRoute]

\* Mutant: the error of Route is not looked at.
RouteUnchecked(w) ==
    /\ pc[w] = "route"
    /\ Goto(w, "is_ensured")
    /\ UNCHANGED <<route, mu, ensured, tables>>

\* An envelope that cannot be routed ends the call; the others go on to the lookup.
Route(w) ==
    /\ pc[w] = "route"
    /\ IF route[w] = NoRoute THEN Done(w)
       ELSE Goto(w, "is_ensured") /\ UNCHANGED route
    /\ UNCHANGED <<mu, ensured, tables>>

\* isEnsured takes and releases the mutex: it waits while another worker holds it.
IsEnsured(w) ==
    /\ pc[w] = "is_ensured" /\ mu = Nobody
    /\ Goto(w, IF route[w] \in ensured THEN "write" ELSE "lock")
    /\ UNCHANGED <<route, mu, ensured, tables>>

Lock(w) ==
    /\ pc[w] = "lock" /\ mu = Nobody
    /\ mu' = w
    /\ Goto(w, "recheck")
    /\ UNCHANGED <<route, ensured, tables>>

\* Mutant: the check before the lock is taken as good enough.
RecheckSkipped(w) ==
    /\ pc[w] = "recheck"
    /\ Goto(w, "event_ddl")
    /\ UNCHANGED <<route, mu, ensured, tables>>

\* Another worker may have ensured the family between isEnsured and Lock.
Recheck(w) ==
    /\ pc[w] = "recheck"
    /\ \/ /\ route[w] \in ensured
          /\ mu' = Nobody
          /\ Goto(w, "write")
       \/ /\ route[w] \notin ensured
          /\ Goto(w, "event_ddl")
          /\ UNCHANGED mu
    /\ UNCHANGED <<route, ensured, tables>>

\* Mutant: an early return forgets the lock (no defer).
ReturnErrorLocked(w) == Done(w) /\ UNCHANGED <<mu, ensured>>

\* Every error return inside the section runs the deferred Unlock.
ReturnError(w) == Done(w) /\ mu' = Nobody /\ UNCHANGED ensured

\* CREATE TABLE IF NOT EXISTS.  An error does not mean the table is absent (a
\* timeout after the server ran it), nor does success mean it is visible.
Exec(w, kind, at, next) ==
    /\ pc[w] = at
    /\ \/ tables' = tables \cup {<<route[w], kind>>}
       \/ UNCHANGED tables
    /\ \/ Goto(w, next) /\ UNCHANGED <<route, mu, ensured>>
       \/ ReturnError(w)

EventDDL(w)    == Exec(w, "event", "event_ddl", "event_check")
PropertyDDL(w) == Exec(w, "property", "property_ddl", "property_check")

\* The family is complete: remember it, unlock, go on to write.
MarkEnsured(w) ==
    /\ ensured' = ensured \cup {route[w]}
    /\ mu' = Nobody
    /\ Goto(w, "write")
    /\ UNCHANGED route

\* Mutant: the family is remembered once its event table is there.
RequireEventMarks(w) ==
    /\ pc[w] = "event_check"
    /\ \/ ReturnError(w)
       \/ <<route[w], "event">> \in tables /\ MarkEnsured(w)
    /\ UNCHANGED tables

\* requireClickHouseTable: the query fails, finds nothing, or finds the table.
RequireEvent(w) ==
    /\ pc[w] = "event_check"
    /\ \/ ReturnError(w)
       \/ /\ <<route[w], "event">> \in tables
          /\ IF PropertyIndexing
             THEN Goto(w, "property_ddl") /\ UNCHANGED <<route, mu, ensured>>
             ELSE MarkEnsured(w)
    /\ UNCHANGED tables

RequireProperty(w) ==
    /\ pc[w] = "property_check"
    /\ \/ ReturnError(w)
       \/ <<route[w], "property">> \in tables /\ MarkEnsured(w)
    /\ UNCHANGED tables

\* inner.WriteEvent: succeeds or fails; a failure is redelivered by the queue.
Write(w) ==
    /\ pc[w] = "write"
    /\ Done(w)
    /\ UNCHANGED <<mu, ensured, tables>>

Waits(w) == IsEnsured(w) \/ Lock(w)
Works(w) ==
    \/ Route(w) \/ Recheck(w)
    \/ EventDDL(w) \/ RequireEvent(w) \/ PropertyDDL(w) \/ RequireProperty(w)
    \/ Write(w)

Next ==
    \E w \in Workers :
       \/ \E r \in Routes \cup {NoRoute} : Deliver(w, r)
       \/ Waits(w)
       \/ Works(w)

Spec == Init /\ [][Next]_vars

\* Goroutines run and ClickHouse calls return (read timeouts of the driver).
\* Go's sync.Mutex hands over to a waiter starved for 1ms: strong fairness.
FairSpec == Spec /\ \A w \in Workers : WF_vars(Works(w)) /\ SF_vars(Waits(w))

----------------------------------------------------------------------------
TypeOK ==
    /\ pc \in [Workers -> {"idle", "route", "is_ensured", "lock", "write"} \cup Section]
    /\ route \in [Workers -> Routes \cup {NoRoute}]
    /\ mu \in Workers \cup {Nobody}
    /\ ensured \subseteq Routes
    /\ tables \subseteq Routes \X {"event", "property"}
    /\ \A w \in Workers :
          /\ pc[w] \notin {"idle", "route"} => route[w] \in Routes
          /\ pc[w] \in {"property_ddl", "property_check"} => PropertyIndexing

\* The mutex is held exactly by the one worker between Lock and its return:
\* every path out of the section, error or not, releases it.
HeldInSection == \A w \in Workers : pc[w] \in Section <=> mu = w

\* An event reaches the inner writer only when every table its write touches
\* exists, whoever created them and however their creation failed before.
WritesHaveTables ==
    /\ \A r \in ensured : Family(r) \subseteq tables
    /\ \A w \in Workers : pc[w] = "write" => Family(route[w]) \subseteq tables

\* No DDL is sent for a family some worker has already ensured, though many
\* workers may have missed it at once and queued for the lock.
NoDDLOnceEnsured ==
    \A w \in Workers : pc[w] \in Section \ {"recheck"} => route[w] \notin ensured

\* Every delivered event is written or failed back to the queue: no worker
\* waits for ever on a lock that others hold across their DDL.
EventsFinish == \A w \in Workers : pc[w] = "route" ~> pc[w] = "idle"
=============================================================================
