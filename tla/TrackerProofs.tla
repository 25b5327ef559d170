----------------------------- MODULE TrackerProofs -----------------------------
(***************************************************************************)
(* public/tracker.js for any number of tabs, pages, tokens and names: the  *)
(* types, that the page a tab stays on has been reported, that a visitor   *)
(* keeps one identity unless two tabs start at once, and that the opt-out  *)
(* holds everywhere.                                                       *)
(***************************************************************************)
EXTENDS Tracker, TLAPS

Tracks == options.autoTrack /\ options.trackHistory /\ ~Silent

\* What the tab takes for the last reported page was reported.
LastReported == ~Silent => \A t \in Tabs : reported[t] = last[t]

\* While nobody has stored an identity, at most one tab is about to, and it made all
\* there is; from then on there is always one.
OneCreator ==
    Stores /\ ~overlapped =>
       /\ \A t, other \in Tabs : pc[t] = "store" /\ pc[other] = "store" => t = other
       /\ \A t \in Tabs : pc[t] = "store" => storage = NoIdentity
       /\ \A t \in Tabs : pc[t] \in {"replay", "live"} => storage # NoIdentity
       /\ storage = NoIdentity => /\ named = NoIdentity
                                  /\ created # {} => \E t \in Tabs : pc[t] = "store"

\* Only a tab that may store an identity is ever about to.
StoresOnly == \A t \in Tabs : pc[t] = "store" => Stores /\ identity[t] \in Tokens

IInv ==
    TypeOK /\ LastReported /\ LatestPageReported /\ OneCreator /\ OneIdentity
       /\ StoresOnly /\ OptedOutUntouched

----------------------------------------------------------------------------
LEMMA InitInv == Init => IInv
<1> SUFFICES ASSUME Init
             PROVE  IInv
    OBVIOUS
<1>1. TypeOK
    <2>1. overlapped \in BOOLEAN
        BY Zenon DEF Init
    <2>2. 0 \in 0..MaxTimers
        BY IdentityAssumption
    <2>3. boot \in [Tabs -> BOOLEAN]
        BY DEF Init
    <2>4. \A t \in Tabs : pc[t] = "closed"
        BY DEF Init
    <2> QED
        BY <2>1, <2>2, <2>3, <2>4 DEF Init, TypeOK
<1>2. LastReported /\ LatestPageReported
    BY DEF Init, LastReported, LatestPageReported, Live
<1>3. OneCreator /\ OneIdentity /\ StoresOnly /\ OptedOutUntouched
    BY DEF Init, OneCreator, OneIdentity, StoresOnly, OptedOutUntouched
<1> QED
    BY <1>1, <1>2, <1>3 DEF IInv

LEMMA OptionsType ==
    ASSUME IInv
    PROVE  /\ options.autoTrack \in BOOLEAN /\ options.trackHistory \in BOOLEAN
           /\ options.suppressed \in BOOLEAN /\ options.configured \in BOOLEAN
           /\ options.fetch \in BOOLEAN /\ options.storage \in {"works", "fails"}
BY OptionsAssumption DEF IInv, TypeOK

LEMMA OpenStep ==
    ASSUME IInv, NEW t \in Tabs, NEW u \in URLs, Open(t, u)
    PROVE  IInv'
<1>1. TypeOK'
    BY DEF Open, Goto, shared, IInv, TypeOK
<1>2. LastReported' /\ LatestPageReported'
    BY DEF Open, Goto, shared, IInv, TypeOK, LastReported, LatestPageReported, Live, Silent
<1>3. OneCreator' /\ OneIdentity' /\ StoresOnly' /\ OptedOutUntouched'
    BY DEF Open, Goto, shared, IInv, TypeOK, OneCreator, OneIdentity, StoresOnly,
       OptedOutUntouched, Stores
<1> QED
    BY <1>1, <1>2, <1>3 DEF IInv

LEMMA ReadIdentityStep ==
    ASSUME IInv, NEW t \in Tabs, ReadIdentity(t)
    PROVE  IInv'
<1>1. /\ pc[t] = "read"
      /\ UNCHANGED <<options, url, last, timers, boot, reported, storage, sent, named>>
    BY DEF ReadIdentity
<1>2. CASE Stores /\ storage = NoIdentity /\ Creates(t)
    <2>1. PICK token \in Fresh :
             /\ identity' = [identity EXCEPT ![t] = token]
             /\ created' = created \cup {token}
             /\ overlapped' = (overlapped \/ \E other \in Tabs : pc[other] = "store")
             /\ pc' = [pc EXCEPT ![t] = "store"]
        BY <1>2 DEF Creates, Goto
    <2>2. token \in Tokens
        BY DEF Fresh
    <2>3. TypeOK'
        BY <1>1, <2>1, <2>2 DEF IInv, TypeOK
    <2>4. LastReported' /\ LatestPageReported'
        BY <1>1, <2>1 DEF IInv, TypeOK, LastReported, LatestPageReported, Live, Silent
    <2>5. ~overlapped' => ~overlapped /\ \A other \in Tabs : pc[other] # "store"
        BY <2>1
    <2>6. OneCreator' /\ OneIdentity'
        <3> SUFFICES ASSUME Stores', ~overlapped'
                     PROVE  OneCreator' /\ OneIdentity'
            BY DEF OneCreator, OneIdentity
        <3>1. created = {} /\ named = NoIdentity
            BY <1>1, <1>2, <2>5 DEF IInv, OneCreator, Stores
        <3>2. \A other \in Tabs \ {t} : pc'[other] = pc[other]
            BY <2>1 DEF IInv, TypeOK
        <3>3. pc'[t] = "store"
            BY <2>1 DEF IInv, TypeOK
        <3>4. \A other \in Tabs : pc[other] \notin {"replay", "live"}
            BY <1>2, <2>5 DEF IInv, OneCreator
        <3>5. OneCreator'
            BY <1>1, <1>2, <2>5, <3>1, <3>2, <3>3, <3>4 DEF OneCreator
        <3>6. OneIdentity'
            BY <1>1, <2>1, <3>1 DEF OneIdentity
        <3> QED
            BY <3>5, <3>6
    <2>7. StoresOnly' /\ OptedOutUntouched'
        BY <1>1, <1>2, <2>1, <2>2 DEF IInv, TypeOK, StoresOnly, OptedOutUntouched, Stores
    <2> QED
        BY <2>3, <2>4, <2>6, <2>7 DEF IInv
<1>3. CASE UNCHANGED <<created, overlapped>> /\ Goto(t, "replay")
           /\ (\/ Stores /\ storage # NoIdentity
                  /\ identity' = [identity EXCEPT ![t] = storage]
               \/ ~Stores /\ \E token \in Tokens : identity' = [identity EXCEPT ![t] = token])
    <2>1. TypeOK'
        BY <1>1, <1>3, IdentityAssumption DEF Goto, IInv, TypeOK
    <2>2. LastReported' /\ LatestPageReported'
        BY <1>1, <1>3 DEF Goto, IInv, TypeOK, LastReported, LatestPageReported, Live, Silent
    <2>3. OneCreator' /\ OneIdentity'
        BY <1>1, <1>3 DEF Goto, IInv, TypeOK, OneCreator, OneIdentity, Stores
    <2>4. StoresOnly' /\ OptedOutUntouched'
        BY <1>1, <1>3 DEF Goto, IInv, TypeOK, StoresOnly, OptedOutUntouched, Stores
    <2> QED
        BY <2>1, <2>2, <2>3, <2>4 DEF IInv
<1> QED
    BY <1>2, <1>3 DEF ReadIdentity

LEMMA StoreIdentityStep ==
    ASSUME IInv, NEW t \in Tabs, StoreIdentity(t)
    PROVE  IInv'
<1>1. /\ pc[t] = "store" /\ storage' = identity[t] /\ pc' = [pc EXCEPT ![t] = "replay"]
      /\ UNCHANGED <<options, url, last, identity, timers, boot, reported, sent, created,
                     overlapped, named>>
    BY DEF StoreIdentity, Goto
<1>2. Stores /\ identity[t] \in Tokens /\ identity[t] # NoIdentity
    BY <1>1, IdentityAssumption DEF IInv, StoresOnly
<1>3. TypeOK'
    BY <1>1, <1>2 DEF IInv, TypeOK
<1>4. LastReported' /\ LatestPageReported'
    BY <1>1 DEF IInv, TypeOK, LastReported, LatestPageReported, Live, Silent
<1>5. OneCreator' /\ OneIdentity'
    <2> SUFFICES ASSUME ~overlapped
                 PROVE  OneCreator' /\ OneIdentity'
        BY <1>1 DEF OneCreator, OneIdentity
    <2>1. storage = NoIdentity /\ named = NoIdentity
        BY <1>1, <1>2 DEF IInv, OneCreator
    <2>2. \A other \in Tabs : pc'[other] # "store"
        BY <1>1, <1>2 DEF IInv, TypeOK, OneCreator
    <2> QED
        BY <1>1, <1>2, <2>1, <2>2 DEF IInv, OneCreator, OneIdentity
<1>6. StoresOnly' /\ OptedOutUntouched'
    BY <1>1, <1>2 DEF IInv, TypeOK, StoresOnly, OptedOutUntouched, Stores
<1> QED
    BY <1>3, <1>4, <1>5, <1>6 DEF IInv

----------------------------------------------------------------------------
\* What a call of the page changes, from wherever it is made.
Called(t) ==
    /\ pc[t] \in {"replay", "live"}
    /\ UNCHANGED <<options, url, overlapped, created>>
    /\ \A other \in Tabs : pc'[other] = "store" <=> pc[other] = "store"
    /\ \A other \in Tabs : pc'[other] \in {"replay", "live"} <=> pc[other] \in {"replay", "live"}

\* Calls of the page, whatever else the task does to pc, timers and boot.
LEMMA CallStep ==
    ASSUME IInv, NEW t \in Tabs, Call(t), Called(t)
    PROVE  LastReported' /\ OneCreator' /\ OneIdentity' /\ StoresOnly' /\ OptedOutUntouched'
<1>1. CASE Pageview(t) \/ Track(t)
    <2>1. LastReported'
        BY <1>1 DEF Pageview, Track, Called, IInv, TypeOK, LastReported, Silent
    <2>2. OneCreator' /\ OneIdentity' /\ StoresOnly'
        BY <1>1 DEF Pageview, Track, Called, IInv, OneCreator, OneIdentity, StoresOnly, Stores
    <2>3. OptedOutUntouched'
        BY <1>1 DEF Pageview, Track, Sends, Called, IInv, OptedOutUntouched, Silent
    <2> QED
        BY <2>1, <2>2, <2>3
<1>2. ASSUME NEW name \in Names, Identify(t, name)
      PROVE  LastReported' /\ OneCreator' /\ OneIdentity' /\ StoresOnly' /\ OptedOutUntouched'
    <2>1. /\ identity' = [identity EXCEPT ![t] = name] /\ named' = name
          /\ storage' = IF Stores THEN name ELSE storage
          /\ UNCHANGED <<options, url, overlapped, created, last, reported>>
        BY <1>2 DEF Identify, Called
    <2>2. name # NoIdentity
        BY IdentityAssumption
    <2>3. LastReported'
        BY <2>1 DEF IInv, LastReported, Silent
    <2>4. OneCreator' /\ OneIdentity'
        <3> SUFFICES ASSUME Stores, ~overlapped
                     PROVE  OneCreator' /\ OneIdentity'
            BY <2>1 DEF OneCreator, OneIdentity, Stores
        <3>1. \A other \in Tabs : pc[other] # "store"
            BY DEF IInv, OneCreator, Called
        <3> QED
            BY <2>1, <2>2, <3>1 DEF Called, IInv, OneCreator, OneIdentity
    <2>5. StoresOnly'
        <3>1. \A other \in Tabs \ {t} : identity'[other] = identity[other]
            BY <2>1 DEF IInv, TypeOK
        <3>2. pc'[t] # "store"
            BY DEF Called
        <3> QED
            BY <2>1, <3>1, <3>2 DEF Called, IInv, StoresOnly, Stores
    <2>6. OptedOutUntouched'
        BY <1>2, <2>1 DEF Identify, Sends, IInv, OptedOutUntouched, Silent, Stores
    <2> QED
        BY <2>3, <2>4, <2>5, <2>6
<1> QED
    BY <1>1, <1>2 DEF Call

\* Its types.
LEMMA CallTypes ==
    ASSUME IInv, NEW t \in Tabs, Call(t), pc[t] \in {"replay", "live"}
    PROVE  /\ storage' \in Tokens \cup Names \cup {NoIdentity}
           /\ last' \in [Tabs -> URLs \cup {NoURL}] /\ reported' \in [Tabs -> URLs \cup {NoURL}]
           /\ identity' \in [Tabs -> Tokens \cup Names \cup {NoIdentity}]
           /\ sent' \subseteq Tokens \cup Names /\ created' \subseteq Tokens
           /\ overlapped' \in BOOLEAN /\ named' \in Names \cup {NoIdentity}
           /\ identity'[t] # NoIdentity
           /\ \A other \in Tabs \ {t} : identity'[other] = identity[other]
           /\ \A other \in Tabs \ {t} : reported'[other] = reported[other]
<1>1. identity[t] \in Tokens \cup Names
    BY DEF IInv, TypeOK
<1>2. CASE Pageview(t) \/ Track(t)
    BY <1>1, <1>2, IdentityAssumption DEF Pageview, Track, Sends, IInv, TypeOK
<1>3. ASSUME NEW name \in Names, Identify(t, name)
      PROVE  /\ storage' \in Tokens \cup Names \cup {NoIdentity}
             /\ last' \in [Tabs -> URLs \cup {NoURL}] /\ reported' \in [Tabs -> URLs \cup {NoURL}]
             /\ identity' \in [Tabs -> Tokens \cup Names \cup {NoIdentity}]
             /\ sent' \subseteq Tokens \cup Names /\ created' \subseteq Tokens
             /\ overlapped' \in BOOLEAN /\ named' \in Names \cup {NoIdentity}
             /\ identity'[t] # NoIdentity
             /\ \A other \in Tabs \ {t} : identity'[other] = identity[other]
             /\ \A other \in Tabs \ {t} : reported'[other] = reported[other]
    BY <1>3, IdentityAssumption DEF Identify, Sends, IInv, TypeOK
<1> QED
    BY <1>2, <1>3 DEF Call

\* The page a tab is on has been reported after a call too.
LEMMA CallReports ==
    ASSUME IInv, NEW t \in Tabs, Call(t), UNCHANGED <<options, url>>, ~Silent
    PROVE  reported'[t] \in {reported[t], url[t]} /\ (Pageview(t) => reported'[t] = url[t])
BY DEF Call, Pageview, Track, Identify, IInv, TypeOK

LEMMA BootStep ==
    ASSUME IInv, NEW t \in Tabs, Boot(t)
    PROVE  IInv'
<1>1. /\ pc[t] = "replay" /\ pc' = [pc EXCEPT ![t] = "live"]
      /\ boot' = [boot EXCEPT ![t] = options.autoTrack]
      /\ UNCHANGED <<options, url, timers>>
    BY DEF Boot, Goto
<1>2. boot' \in [Tabs -> BOOLEAN]
    BY <1>1, OptionsType DEF IInv, TypeOK
<1>3. CASE Call(t)
    <2>1. Called(t)
        BY <1>1, <1>3 DEF Called, Call, Pageview, Track, Identify, IInv, TypeOK
    <2>2. TypeOK'
        BY <1>1, <1>2, <1>3, CallTypes DEF IInv, TypeOK
    <2>3. LatestPageReported'
        BY <1>1, <1>3, CallTypes DEF IInv, TypeOK, LatestPageReported, Live, Silent
    <2> QED
        BY <1>3, <2>1, <2>2, <2>3, CallStep DEF IInv
<1>4. CASE UNCHANGED <<last, identity, reported, shared>>
    <2>1. TypeOK'
        BY <1>1, <1>2, <1>4 DEF shared, IInv, TypeOK
    <2>2. LastReported' /\ LatestPageReported'
        BY <1>1, <1>4 DEF shared, IInv, TypeOK, LastReported, LatestPageReported, Live, Silent
    <2>3. OneCreator' /\ OneIdentity' /\ StoresOnly' /\ OptedOutUntouched'
        BY <1>1, <1>4 DEF shared, IInv, TypeOK, OneCreator, OneIdentity, StoresOnly,
           OptedOutUntouched, Stores
    <2> QED
        BY <2>1, <2>2, <2>3 DEF IInv
<1> QED
    BY <1>3, <1>4 DEF Boot

\* The tasks of a live tab that call the tracker.
LEMMA LiveCallStep ==
    ASSUME IInv, NEW t \in Tabs, Live(t), Call(t), UNCHANGED <<options, pc, url>>,
           timers' \in [Tabs -> 0..MaxTimers], boot' \in [Tabs -> BOOLEAN],
           \A other \in Tabs \ {t} : timers'[other] = timers[other] /\ boot'[other] = boot[other],
           Pageview(t) \/ UNCHANGED <<timers, boot>>
    PROVE  IInv'
<1>1. Called(t)
    BY DEF Called, Call, Pageview, Track, Identify, Live
<1>2. TypeOK'
    BY CallTypes DEF Live, IInv, TypeOK
<1>3. LatestPageReported'
    <2> SUFFICES ASSUME Tracks, NEW x \in Tabs, Live(x), timers'[x] = 0, ~boot'[x]
                 PROVE  reported'[x] = url[x]
        BY DEF LatestPageReported, Live, Silent, Tracks
    <2>1. CASE x # t
        BY <2>1, CallTypes DEF IInv, LatestPageReported, Live, Tracks
    <2>2. CASE x = t
        BY <2>2, CallReports DEF IInv, LatestPageReported, Tracks
    <2> QED
        BY <2>1, <2>2
<1> QED
    BY <1>1, <1>2, <1>3, CallStep DEF IInv

LEMMA ReadyStep ==
    ASSUME IInv, NEW t \in Tabs, Ready(t)
    PROVE  IInv'
BY LiveCallStep DEF Ready, Call, IInv, TypeOK

LEMMA PageCallsStep ==
    ASSUME IInv, NEW t \in Tabs, PageCalls(t)
    PROVE  IInv'
BY LiveCallStep DEF PageCalls, IInv, TypeOK

LEMMA RunTimerStep ==
    ASSUME IInv, NEW t \in Tabs, RunTimer(t)
    PROVE  IInv'
<1>1. /\ Live(t) /\ timers[t] > 0 /\ timers' = [timers EXCEPT ![t] = timers[t] - 1]
      /\ UNCHANGED <<options, pc, url, boot>>
    BY DEF RunTimer
<1>2. timers' \in [Tabs -> 0..MaxTimers]
    BY <1>1, IdentityAssumption DEF IInv, TypeOK
<1>3. CASE Pageview(t)
    BY <1>1, <1>2, <1>3, LiveCallStep DEF Call, IInv, TypeOK
<1>4. CASE url[t] = last[t] /\ UNCHANGED <<last, identity, reported, shared>>
    <2>1. TypeOK'
        BY <1>1, <1>2, <1>4 DEF shared, IInv, TypeOK
    <2>2. LastReported' /\ LatestPageReported'
        BY <1>1, <1>4 DEF shared, IInv, TypeOK, LastReported, LatestPageReported, Live, Silent
    <2>3. OneCreator' /\ OneIdentity' /\ StoresOnly' /\ OptedOutUntouched'
        BY <1>1, <1>4 DEF shared, IInv, OneCreator, OneIdentity, StoresOnly,
           OptedOutUntouched, Stores
    <2> QED
        BY <2>1, <2>2, <2>3 DEF IInv
<1> QED
    BY <1>3, <1>4 DEF RunTimer

LEMMA NavigateStep ==
    ASSUME IInv, NEW t \in Tabs, NEW u \in URLs, NEW how \in {"pushState", "replaceState", "popstate"},
           Navigate(t, how, u)
    PROVE  IInv'
<1>1. TypeOK'
    BY IdentityAssumption DEF Navigate, shared, IInv, TypeOK
<1>2. LastReported'
    BY DEF Navigate, IInv, LastReported, Silent
<1>3. LatestPageReported'
    BY DEF Navigate, Hooked, IInv, TypeOK, LatestPageReported, Live, Silent
<1>4. OneCreator' /\ OneIdentity' /\ StoresOnly' /\ OptedOutUntouched'
    BY DEF Navigate, shared, IInv, OneCreator, OneIdentity, StoresOnly, OptedOutUntouched, Stores
<1> QED
    BY <1>1, <1>2, <1>3, <1>4 DEF IInv

LEMMA CloseStep ==
    ASSUME IInv, NEW t \in Tabs, Close(t)
    PROVE  IInv'
<1>1. TypeOK'
    BY IdentityAssumption DEF Close, Goto, shared, IInv, TypeOK
<1>2. LastReported' /\ LatestPageReported'
    BY DEF Close, Goto, IInv, TypeOK, LastReported, LatestPageReported, Live, Silent
<1>3. OneCreator' /\ OneIdentity' /\ StoresOnly' /\ OptedOutUntouched'
    BY DEF Close, Goto, shared, IInv, TypeOK, OneCreator, OneIdentity, StoresOnly,
       OptedOutUntouched, Stores, Live
<1> QED
    BY <1>1, <1>2, <1>3 DEF IInv

LEMMA InvStep == ASSUME IInv, [Next]_vars PROVE IInv'
<1>1. CASE UNCHANGED vars
    <2>1. TypeOK'
        BY <1>1 DEF vars, shared, IInv, TypeOK
    <2> QED
        BY <1>1, <2>1 DEF vars, shared, IInv, LastReported, LatestPageReported, OneCreator,
           OneIdentity, StoresOnly, OptedOutUntouched, Live, Silent, Stores
<1> QED
    BY <1>1, OpenStep, ReadIdentityStep, StoreIdentityStep, BootStep, ReadyStep, RunTimerStep,
       NavigateStep, PageCallsStep, CloseStep DEF Next, Tasks

LEMMA IInvInvariant == Spec => []IInv
BY InitInv, InvStep, PTL DEF Spec

----------------------------------------------------------------------------
\* The types; a tab that runs its script to the end has an identity.
THEOREM TypeCorrect == Spec => []TypeOK
BY IInvInvariant, PTL DEF IInv

\* With nothing pending, the tab has reported the page it is on.
THEOREM PageReported == Spec => []LatestPageReported
BY IInvInvariant, PTL DEF IInv

\* One visitor, one identity.
THEOREM IdentityKept == Spec => []OneIdentity
BY IInvInvariant, PTL DEF IInv

\* The opt-out reaches every path that sends or stores.
THEOREM OptOutHolds == Spec => []OptedOutUntouched
BY IInvInvariant, PTL DEF IInv
=============================================================================
