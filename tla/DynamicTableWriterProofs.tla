------------------------ MODULE DynamicTableWriterProofs ------------------------
(***************************************************************************)
(* For any number of workers and table families: the lock discipline, the  *)
(* guarantee that writes find their tables, and the single creation of     *)
(* each family, from one inductive invariant.                              *)
(***************************************************************************)
EXTENDS DynamicTableWriter, TLAPS

\* The strengthening: past the event check, the event table exists.
EventTableSeen ==
    \A w \in Workers :
       pc[w] \in {"property_ddl", "property_check"} => <<route[w], "event">> \in tables

IInv == TypeOK /\ HeldInSection /\ EventTableSeen /\ WritesHaveTables /\ NoDDLOnceEnsured

----------------------------------------------------------------------------
LEMMA InitInv == Init => IInv
<1> SUFFICES ASSUME Init PROVE IInv
    OBVIOUS
<1>1. TypeOK
    BY DEF Init, TypeOK, Section
<1> QED
    BY <1>1, WorkersAssumption
    DEF Init, IInv, HeldInSection, EventTableSeen, WritesHaveTables, NoDDLOnceEnsured, Section

\* A worker moving outside the section, with nothing shared changed.
LEMMA MoveOutside ==
    ASSUME IInv, NEW w \in Workers, NEW l \in {"idle", "route", "is_ensured", "lock", "write"},
           pc[w] \notin Section, Goto(w, l),
           \A x \in Workers \ {w} : route'[x] = route[x],
           route' \in [Workers -> Routes \cup {NoRoute}],
           l \notin {"idle", "route"} => route'[w] \in Routes,
           l = "write" => Family(route'[w]) \subseteq tables,
           UNCHANGED <<mu, ensured, tables>>
    PROVE  IInv'
<1>1. \A x \in Workers \ {w} : pc'[x] = pc[x]
    BY DEF IInv, TypeOK, Goto
<1>2. pc'[w] = l /\ l \notin Section
    BY DEF IInv, TypeOK, Goto, Section
<1>3. TypeOK'
    BY <1>1, <1>2 DEF IInv, TypeOK, Goto, Section
<1>4. HeldInSection'
    BY <1>1, <1>2 DEF IInv, HeldInSection
<1>5. EventTableSeen'
    BY <1>1, <1>2 DEF IInv, EventTableSeen
<1>6. WritesHaveTables'
    BY <1>1, <1>2 DEF IInv, WritesHaveTables, Family
<1>7. NoDDLOnceEnsured'
    BY <1>1, <1>2 DEF IInv, NoDDLOnceEnsured
<1> QED
    BY <1>3, <1>4, <1>5, <1>6, <1>7 DEF IInv

\* The holder of the lock is alone in the section.
LEMMA Alone ==
    ASSUME IInv, NEW w \in Workers, pc[w] \in Section
    PROVE  mu = w /\ \A x \in Workers \ {w} : pc[x] \notin Section
BY DEF IInv, HeldInSection

\* The holder moves on inside the section; tables may have grown.
LEMMA MoveInside ==
    ASSUME IInv, NEW w \in Workers, NEW l \in Section, pc[w] \in Section, Goto(w, l),
           l # "recheck" => route[w] \notin ensured,
           l \in {"property_ddl", "property_check"} =>
              PropertyIndexing /\ <<route[w], "event">> \in tables',
           tables \subseteq tables', tables' \subseteq Routes \X {"event", "property"},
           UNCHANGED <<route, mu, ensured>>
    PROVE  IInv'
<1>1. \A x \in Workers \ {w} : pc'[x] = pc[x]
    BY DEF IInv, TypeOK, Goto
<1>2. pc'[w] = l /\ pc[w] \notin {"idle", "route"}
    BY DEF IInv, TypeOK, Goto, Section
<1>3. TypeOK'
    BY <1>1, <1>2 DEF IInv, TypeOK, Goto, Section
<1>4. HeldInSection'
    BY <1>1, <1>2 DEF IInv, HeldInSection
<1>5. EventTableSeen'
    BY <1>1, <1>2 DEF IInv, EventTableSeen
<1>6. WritesHaveTables'
    BY <1>1, <1>2 DEF IInv, WritesHaveTables, Family, Section
<1>7. NoDDLOnceEnsured'
    BY <1>1, <1>2 DEF IInv, NoDDLOnceEnsured, Section
<1> QED
    BY <1>3, <1>4, <1>5, <1>6, <1>7 DEF IInv

\* The holder leaves the section and releases the lock.
LEMMA Leave ==
    ASSUME IInv, NEW w \in Workers, NEW l \in {"idle", "write"}, pc[w] \in Section, Goto(w, l),
           mu' = Nobody,
           \A x \in Workers \ {w} : route'[x] = route[x],
           route' \in [Workers -> Routes \cup {NoRoute}],
           l = "write" => route'[w] \in Routes /\ Family(route'[w]) \subseteq tables',
           ensured \subseteq ensured', ensured' \subseteq Routes,
           \A r \in ensured' \ ensured : Family(r) \subseteq tables',
           tables \subseteq tables', tables' \subseteq Routes \X {"event", "property"}
    PROVE  IInv'
<1>1. \A x \in Workers \ {w} : pc'[x] = pc[x] /\ pc[x] \notin Section
    BY Alone DEF IInv, TypeOK, Goto
<1>2. pc'[w] = l /\ l \notin Section
    BY DEF IInv, TypeOK, Goto, Section
<1>3. TypeOK'
    BY <1>1, <1>2 DEF IInv, TypeOK, Goto, Section
<1>4. HeldInSection'
    BY <1>1, <1>2, WorkersAssumption DEF HeldInSection
<1>5. EventTableSeen'
    BY <1>1, <1>2 DEF EventTableSeen, Section
<1>6. WritesHaveTables'
    BY <1>1, <1>2 DEF IInv, WritesHaveTables, Family
<1>7. NoDDLOnceEnsured'
    BY <1>1, <1>2 DEF NoDDLOnceEnsured
<1> QED
    BY <1>3, <1>4, <1>5, <1>6, <1>7 DEF IInv

\* An error return is such a departure.
LEMMA ReturnErrorLeaves ==
    ASSUME IInv, NEW w \in Workers, pc[w] \in Section, ReturnError(w),
           tables \subseteq tables', tables' \subseteq Routes \X {"event", "property"}
    PROVE  IInv'
<1>1. /\ Goto(w, "idle") /\ mu' = Nobody /\ ensured' = ensured
      /\ \A x \in Workers \ {w} : route'[x] = route[x]
      /\ route' \in [Workers -> Routes \cup {NoRoute}]
    BY DEF ReturnError, Done, IInv, TypeOK
<1>2. ensured' \subseteq Routes
    BY <1>1 DEF IInv, TypeOK
<1> QED
    BY <1>1, <1>2, Leave

\* So is marking a family whose tables all exist.
LEMMA MarkEnsuredLeaves ==
    ASSUME IInv, NEW w \in Workers, pc[w] \in Section, MarkEnsured(w), tables' = tables,
           Family(route[w]) \subseteq tables
    PROVE  IInv'
<1>1. /\ Goto(w, "write") /\ mu' = Nobody /\ ensured' = ensured \cup {route[w]}
      /\ route' = route /\ route[w] \in Routes
    BY DEF MarkEnsured, IInv, TypeOK, Section
<1>2. ensured' \subseteq Routes /\ tables' \subseteq Routes \X {"event", "property"}
    BY <1>1 DEF IInv, TypeOK
<1>3. route' \in [Workers -> Routes \cup {NoRoute}]
    BY <1>1 DEF IInv, TypeOK
<1>4. \A r \in ensured' \ ensured : Family(r) \subseteq tables'
    BY <1>1
<1>5. route'[w] \in Routes /\ Family(route'[w]) \subseteq tables'
    BY <1>1
<1>6. \A x \in Workers \ {w} : route'[x] = route[x]
    BY <1>1
<1>7. ensured \subseteq ensured' /\ tables \subseteq tables'
    BY <1>1
<1> QED
    BY <1>1, <1>2, <1>3, <1>4, <1>5, <1>6, <1>7, Leave

\* One DDL statement, whatever its outcome.
LEMMA ExecStep ==
    ASSUME IInv, NEW w \in Workers, NEW kind \in {"event", "property"},
           NEW at \in {"event_ddl", "property_ddl"}, NEW next \in {"event_check", "property_check"},
           at = "event_ddl" <=> next = "event_check",
           Exec(w, kind, at, next)
    PROVE  IInv'
<1>1. pc[w] = at /\ pc[w] \in Section /\ route[w] \in Routes /\ route[w] \notin ensured
    BY DEF Exec, Section, IInv, TypeOK, NoDDLOnceEnsured
<1>2. tables \subseteq tables' /\ tables' \subseteq Routes \X {"event", "property"}
    BY <1>1 DEF Exec, IInv, TypeOK
<1>3. CASE ReturnError(w)
    BY <1>1, <1>2, <1>3, ReturnErrorLeaves
<1>4. CASE Goto(w, next) /\ UNCHANGED <<route, mu, ensured>>
    <2>1. next = "property_check" => PropertyIndexing /\ <<route[w], "event">> \in tables'
        BY <1>1, <1>2 DEF IInv, TypeOK, EventTableSeen
    <2>2. next \in Section /\ next # "property_ddl"
        BY DEF Section
    <2> QED
        BY <1>1, <1>2, <1>4, <2>1, <2>2, MoveInside
<1> QED
    BY <1>3, <1>4 DEF Exec

LEMMA InvStep ==
    ASSUME IInv, [Next]_vars
    PROVE  IInv'
<1>1. ASSUME NEW w \in Workers, NEW r \in Routes \cup {NoRoute}, Deliver(w, r)
      PROVE  IInv'
    BY <1>1, MoveOutside DEF Deliver, IInv, TypeOK, Section
<1>2. ASSUME NEW w \in Workers, Route(w)
      PROVE  IInv'
    <2>1. CASE route[w] = NoRoute
        <3>1. /\ Goto(w, "idle") /\ pc[w] \notin Section
              /\ \A x \in Workers \ {w} : route'[x] = route[x]
              /\ route' \in [Workers -> Routes \cup {NoRoute}]
              /\ UNCHANGED <<mu, ensured, tables>>
            BY <1>2, <2>1 DEF Route, Done, IInv, TypeOK, Section
        <3> QED
            BY <3>1, MoveOutside
    <2>2. CASE route[w] # NoRoute
        <3>1. /\ Goto(w, "is_ensured") /\ pc[w] \notin Section /\ route[w] \in Routes
              /\ route' = route /\ route \in [Workers -> Routes \cup {NoRoute}]
              /\ UNCHANGED <<mu, ensured, tables>>
            BY <1>2, <2>2 DEF Route, IInv, TypeOK, Section
        <3> QED
            BY <3>1, MoveOutside
    <2> QED
        BY <2>1, <2>2
<1>3. ASSUME NEW w \in Workers, IsEnsured(w)
      PROVE  IInv'
    <2>1. /\ pc[w] = "is_ensured" /\ pc[w] \notin Section /\ route[w] \in Routes
          /\ route' = route /\ route \in [Workers -> Routes \cup {NoRoute}]
          /\ UNCHANGED <<mu, ensured, tables>>
        BY <1>3 DEF IsEnsured, IInv, TypeOK, Section
    <2>2. CASE route[w] \in ensured
        <3>1. Goto(w, "write") /\ Family(route[w]) \subseteq tables
            BY <1>3, <2>2 DEF IsEnsured, IInv, WritesHaveTables
        <3> QED
            BY <2>1, <3>1, MoveOutside
    <2>3. CASE route[w] \notin ensured
        <3>1. Goto(w, "lock")
            BY <1>3, <2>3 DEF IsEnsured
        <3> QED
            BY <2>1, <3>1, MoveOutside
    <2> QED
        BY <2>2, <2>3
<1>4. ASSUME NEW w \in Workers, Lock(w)
      PROVE  IInv'
    <2>1. /\ pc[w] = "lock" /\ mu = Nobody /\ mu' = w /\ route[w] \in Routes
          /\ pc' = [pc EXCEPT ![w] = "recheck"] /\ pc'[w] = "recheck"
          /\ \A x \in Workers \ {w} : pc'[x] = pc[x]
          /\ UNCHANGED <<route, ensured, tables>>
        BY <1>4 DEF Lock, Goto, IInv, TypeOK
    <2>2. \A x \in Workers : pc[x] \notin Section
        BY <2>1, WorkersAssumption DEF IInv, HeldInSection
    <2>3. TypeOK'
        BY <2>1 DEF IInv, TypeOK, Section
    <2>4. HeldInSection'
        BY <2>1, <2>2 DEF HeldInSection, Section
    <2>5. EventTableSeen' /\ WritesHaveTables' /\ NoDDLOnceEnsured'
        BY <2>1 DEF IInv, EventTableSeen, WritesHaveTables, NoDDLOnceEnsured, Family
    <2> QED
        BY <2>3, <2>4, <2>5 DEF IInv
<1>5. ASSUME NEW w \in Workers, Recheck(w)
      PROVE  IInv'
    <2>1. /\ pc[w] \in Section /\ route[w] \in Routes /\ UNCHANGED <<route, ensured, tables>>
          /\ route \in [Workers -> Routes \cup {NoRoute}] /\ ensured \subseteq Routes
          /\ tables \subseteq Routes \X {"event", "property"}
        BY <1>5 DEF Recheck, IInv, TypeOK, Section
    <2>2. CASE route[w] \in ensured
        <3>1. Goto(w, "write") /\ mu' = Nobody /\ Family(route[w]) \subseteq tables
            BY <1>5, <2>2 DEF Recheck, IInv, WritesHaveTables
        <3> QED
            BY <2>1, <3>1, Leave
    <2>3. CASE route[w] \notin ensured
        <3>1. Goto(w, "event_ddl") /\ mu' = mu /\ "event_ddl" \in Section
            BY <1>5, <2>3 DEF Recheck, Section
        <3> QED
            BY <2>1, <2>3, <3>1, MoveInside
    <2> QED
        BY <2>2, <2>3
<1>6. ASSUME NEW w \in Workers, EventDDL(w)
      PROVE  IInv'
    BY <1>6, ExecStep DEF EventDDL
<1>7. ASSUME NEW w \in Workers, PropertyDDL(w)
      PROVE  IInv'
    BY <1>7, ExecStep DEF PropertyDDL
<1>8. ASSUME NEW w \in Workers, RequireEvent(w)
      PROVE  IInv'
    <2>1. /\ pc[w] = "event_check" /\ pc[w] \in Section /\ tables' = tables
          /\ route[w] \notin ensured /\ tables \subseteq Routes \X {"event", "property"}
        BY <1>8 DEF RequireEvent, IInv, TypeOK, NoDDLOnceEnsured, Section
    <2>2. CASE ReturnError(w)
        BY <2>1, <2>2, ReturnErrorLeaves
    <2>3. CASE /\ <<route[w], "event">> \in tables
               /\ PropertyIndexing /\ Goto(w, "property_ddl") /\ UNCHANGED <<route, mu, ensured>>
        <3>1. "property_ddl" \in Section
            BY DEF Section
        <3> QED
            BY <2>1, <2>3, <3>1, MoveInside
    <2>4. CASE <<route[w], "event">> \in tables /\ ~PropertyIndexing /\ MarkEnsured(w)
        <3>1. Family(route[w]) \subseteq tables
            BY <2>4 DEF Family
        <3> QED
            BY <2>1, <2>4, <3>1, MarkEnsuredLeaves
    <2> QED
        BY <1>8, <2>2, <2>3, <2>4 DEF RequireEvent
<1>9. ASSUME NEW w \in Workers, RequireProperty(w)
      PROVE  IInv'
    <2>1. /\ pc[w] = "property_check" /\ pc[w] \in Section /\ tables' = tables
          /\ tables \subseteq Routes \X {"event", "property"} /\ <<route[w], "event">> \in tables
        BY <1>9 DEF RequireProperty, IInv, TypeOK, EventTableSeen, Section
    <2>2. CASE ReturnError(w)
        BY <2>1, <2>2, ReturnErrorLeaves
    <2>3. CASE <<route[w], "property">> \in tables /\ MarkEnsured(w)
        <3>1. Family(route[w]) \subseteq tables
            BY <2>1, <2>3 DEF Family
        <3> QED
            BY <2>1, <2>3, <3>1, MarkEnsuredLeaves
    <2> QED
        BY <1>9, <2>2, <2>3 DEF RequireProperty
<1>10. ASSUME NEW w \in Workers, Write(w)
       PROVE  IInv'
    <2>1. /\ Goto(w, "idle") /\ pc[w] \notin Section
          /\ \A x \in Workers \ {w} : route'[x] = route[x]
          /\ route' \in [Workers -> Routes \cup {NoRoute}]
          /\ UNCHANGED <<mu, ensured, tables>>
        BY <1>10 DEF Write, Done, IInv, TypeOK, Section
    <2> QED
        BY <2>1, MoveOutside
<1>11. CASE UNCHANGED vars
    BY <1>11 DEF vars, IInv, TypeOK, HeldInSection, EventTableSeen, WritesHaveTables,
       NoDDLOnceEnsured, Family
<1> QED
    BY <1>1, <1>2, <1>3, <1>4, <1>5, <1>6, <1>7, <1>8, <1>9, <1>10, <1>11
    DEF Next, Waits, Works

LEMMA IInvInvariant == Spec => []IInv
BY InitInv, InvStep, PTL DEF Spec

----------------------------------------------------------------------------
\* The types, for every instance.
THEOREM TypeCorrect == Spec => []TypeOK
<1>1. IInv => TypeOK
    BY DEF IInv
<1> QED
    BY <1>1, IInvInvariant, PTL

\* The mutex is held exactly inside the section, on every return path.
THEOREM LockDiscipline == Spec => []HeldInSection
<1>1. IInv => HeldInSection
    BY DEF IInv
<1> QED
    BY <1>1, IInvInvariant, PTL

\* No event reaches the inner writer before its tables exist.
THEOREM WriteSafety == Spec => []WritesHaveTables
<1>1. IInv => WritesHaveTables
    BY DEF IInv
<1> QED
    BY <1>1, IInvInvariant, PTL

\* No DDL for a family once a worker has ensured it.
THEOREM SingleCreation == Spec => []NoDDLOnceEnsured
<1>1. IInv => NoDDLOnceEnsured
    BY DEF IInv
<1> QED
    BY <1>1, IInvInvariant, PTL
=============================================================================
