------------------------------- MODULE Tracker -------------------------------
(***************************************************************************)
(* public/tracker.js in the tabs of one browser.  Each tab runs its tasks  *)
(* one at a time: the script, deferred page views of history changes, the  *)
(* page view at boot, calls of the page.  Tabs share localStorage and run  *)
(* side by side, also between a read and the write that follows it.        *)
(*                                                                         *)
(* reported, sent, created, overlapped and named are history variables of  *)
(* the properties.  What an event contains besides the URL and the         *)
(* identity is left out, and so are rejected event names, which only keep  *)
(* track from calling send.  An event is sent when it is given to fetch:   *)
(* send drops the error of a request that fails, and nothing else in the   *)
(* tracker depends on the outcome, so that event is lost.                  *)
(***************************************************************************)
EXTENDS Naturals, FiniteSets

CONSTANTS
    Tabs,
    URLs, NoURL,        \* location.href; state.lastPageURL = ''
    Tokens,             \* what randomToken('dst') returns
    Names,              \* what pages pass to identify
    NoIdentity,         \* nothing under identityStorageKey
    Options,            \* how sites configure the tracker and browsers treat it
    MaxTimers           \* bound on deferred page views of a tab

ASSUME OptionsAssumption ==
    Options \subseteq [autoTrack : BOOLEAN, trackHistory : BOOLEAN,
                       suppressed : BOOLEAN,    \* respectDoNotTrack && hasDoNotTrack()
                       configured : BOOLEAN,    \* validConfig()
                       fetch : BOOLEAN,         \* window.fetch is a function
                       storage : {"works", "fails"}]

ASSUME IdentityAssumption == NoIdentity \notin Tokens \cup Names /\ MaxTimers \in Nat

VARIABLES
    options,
    storage,            \* the identity in localStorage
    pc,                 \* where the tracker of each tab is
    url,                \* the tab's location
    last,               \* state.lastPageURL
    identity,           \* state.distinctID
    timers,             \* pending callbacks of scheduleRoutePageview
    boot,               \* the callback given to onReady is pending
    reported,           \* history: the URL of the tab's last page view given to fetch
    sent,               \* history: the identities of all events given to fetch
    created,            \* history: tokens taken for want of a stored identity
    overlapped,         \* history: two tabs did so at the same time
    named               \* history: the last identity given to identify

shared == <<storage, sent, created, overlapped, named>>
vars == <<options, pc, url, last, identity, timers, boot, reported, shared>>

Live(t)   == pc[t] = "live"
Silent    == options.suppressed \/ ~options.configured \/ ~options.fetch
Stores    == options.storage = "works" /\ ~options.suppressed
Fresh     == Tokens \ created

----------------------------------------------------------------------------
Init ==
    /\ options \in Options
    /\ storage = NoIdentity
    /\ pc = [t \in Tabs |-> "closed"]
    /\ url = [t \in Tabs |-> NoURL]
    /\ last = [t \in Tabs |-> NoURL]
    /\ identity = [t \in Tabs |-> NoIdentity]
    /\ timers = [t \in Tabs |-> 0]
    /\ boot = [t \in Tabs |-> FALSE]
    /\ reported = [t \in Tabs |-> NoURL]
    /\ sent = {} /\ created = {} /\ overlapped = FALSE /\ named = NoIdentity

Goto(t, label) == pc' = [pc EXCEPT ![t] = label]

\* A page loads and its tracker script starts.
Open(t, u) ==
    /\ pc[t] = "closed"
    /\ Goto(t, "read")
    /\ url' = [url EXCEPT ![t] = u]
    /\ UNCHANGED <<options, last, identity, timers, boot, reported, shared>>

\* initialDistinctID takes a token and goes on to store it, if it can.
Creates(t) ==
    \E token \in Fresh :
       /\ identity' = [identity EXCEPT ![t] = token]
       /\ created' = created \cup {token}
       /\ overlapped' = (overlapped \/ \E other \in Tabs : pc[other] = "store")
       /\ Goto(t, "store")

\* Mutants: what storage holds is used even if it holds nothing; a stored identity is
\* not looked for.
ReadIdentityTrusting(t) ==
    /\ pc[t] = "read"
    /\ identity' = [identity EXCEPT ![t] = storage]
    /\ Goto(t, "replay")
    /\ UNCHANGED <<options, url, last, timers, boot, reported, shared>>
ReadIdentityAnew(t) ==
    /\ pc[t] = "read"
    /\ Creates(t)
    /\ UNCHANGED <<options, url, last, timers, boot, reported, storage, sent, named>>

\* The script takes its identity from storage, or makes one.
ReadIdentity(t) ==
    /\ pc[t] = "read"
    /\ \/ /\ Stores /\ storage # NoIdentity
          /\ identity' = [identity EXCEPT ![t] = storage]
          /\ Goto(t, "replay")
          /\ UNCHANGED <<created, overlapped>>
       \/ Stores /\ storage = NoIdentity /\ Creates(t)
       \/ /\ ~Stores
          /\ \E token \in Tokens : identity' = [identity EXCEPT ![t] = token]
          /\ Goto(t, "replay")
          /\ UNCHANGED <<created, overlapped>>
    /\ UNCHANGED <<options, url, last, timers, boot, reported, storage, sent, named>>

StoreIdentity(t) ==
    /\ pc[t] = "store"
    /\ storage' = identity[t]
    /\ Goto(t, "replay")
    /\ UNCHANGED <<options, url, last, identity, timers, boot, reported, sent, created,
                   overlapped, named>>

\* send returns before it calls fetch, or calls it and looks at no answer.
Sends(id) == sent' = IF Silent THEN sent ELSE sent \cup {id}

\* The page counts as reported from here on, whatever send does.
Pageview(t) ==
    /\ last' = [last EXCEPT ![t] = url[t]]
    /\ reported' = IF Silent THEN reported ELSE [reported EXCEPT ![t] = url[t]]
    /\ Sends(identity[t])
    /\ UNCHANGED <<storage, identity, created, overlapped, named>>

Track(t) ==
    /\ Sends(identity[t])
    /\ UNCHANGED <<storage, last, identity, reported, created, overlapped, named>>

\* Mutant: the opt-out is left to send.
IdentifyStores(t, name) ==
    /\ identity' = [identity EXCEPT ![t] = name]
    /\ named' = name
    /\ storage' = IF options.storage = "works" THEN name ELSE storage
    /\ Sends(name)
    /\ UNCHANGED <<last, reported, created, overlapped>>

Identify(t, name) ==
    /\ identity' = [identity EXCEPT ![t] = name]
    /\ named' = name
    /\ storage' = IF Stores THEN name ELSE storage
    /\ Sends(name)
    /\ UNCHANGED <<last, reported, created, overlapped>>

Call(t) == Pageview(t) \/ Track(t) \/ \E name \in Names : Identify(t, name)

\* The rest of the script: a call the page queued before it is replayed, history is
\* hooked, and the first page view waits for the document.
Boot(t) ==
    /\ pc[t] = "replay"
    /\ \/ Call(t)
       \/ UNCHANGED <<last, identity, reported, shared>>
    /\ boot' = [boot EXCEPT ![t] = options.autoTrack]
    /\ Goto(t, "live")
    /\ UNCHANGED <<options, url, timers>>

Ready(t) ==
    /\ Live(t) /\ boot[t]
    /\ boot' = [boot EXCEPT ![t] = FALSE]
    /\ Pageview(t)
    /\ UNCHANGED <<options, pc, url, timers>>

\* Mutant: replaceState is not hooked.
HookedButReplace(how) == options.trackHistory /\ how # "replaceState"

Hooked(how) == options.trackHistory /\ how \in {"pushState", "replaceState", "popstate"}

\* The page changes its location without leaving the document.
Navigate(t, how, u) ==
    /\ Live(t) /\ timers[t] < MaxTimers
    /\ url' = [url EXCEPT ![t] = u]
    /\ timers' = IF Hooked(how) THEN [timers EXCEPT ![t] = @ + 1] ELSE timers
    /\ UNCHANGED <<options, pc, last, identity, boot, reported, shared>>

\* Mutant: only the first page of a document is reported.
RunTimerFirstOnly(t) ==
    /\ Live(t) /\ timers[t] > 0
    /\ timers' = [timers EXCEPT ![t] = @ - 1]
    /\ IF last[t] = NoURL THEN Pageview(t) ELSE UNCHANGED <<last, identity, reported, shared>>
    /\ UNCHANGED <<options, pc, url, boot>>

\* The callback of scheduleRoutePageview sees the location of its own time.
RunTimer(t) ==
    /\ Live(t) /\ timers[t] > 0
    /\ timers' = [timers EXCEPT ![t] = @ - 1]
    /\ IF url[t] # last[t] THEN Pageview(t) ELSE UNCHANGED <<last, identity, reported, shared>>
    /\ UNCHANGED <<options, pc, url, boot>>

PageCalls(t) ==
    /\ Live(t)
    /\ Call(t)
    /\ UNCHANGED <<options, pc, url, timers, boot>>

\* The document goes away between two tasks, with its callbacks.
Close(t) ==
    /\ Live(t)
    /\ Goto(t, "closed")
    /\ url' = [url EXCEPT ![t] = NoURL]
    /\ last' = [last EXCEPT ![t] = NoURL]
    /\ identity' = [identity EXCEPT ![t] = NoIdentity]
    /\ timers' = [timers EXCEPT ![t] = 0]
    /\ boot' = [boot EXCEPT ![t] = FALSE]
    /\ reported' = [reported EXCEPT ![t] = NoURL]
    /\ UNCHANGED <<options, shared>>

Tasks(t) == ReadIdentity(t) \/ StoreIdentity(t) \/ Boot(t) \/ Ready(t) \/ RunTimer(t)

Next ==
    \E t \in Tabs :
       \/ \E u \in URLs : Open(t, u)
       \/ Tasks(t)
       \/ \E u \in URLs, how \in {"pushState", "replaceState", "popstate"} : Navigate(t, how, u)
       \/ PageCalls(t)
       \/ Close(t)

Spec == Init /\ [][Next]_vars

\* The event loop runs every task that is due: the script goes on, the document
\* becomes ready, zero timeouts fire.
FairSpec == Spec /\ \A t \in Tabs : WF_vars(ReadIdentity(t) \/ StoreIdentity(t) \/ Boot(t))
                                   /\ WF_vars(Ready(t)) /\ WF_vars(RunTimer(t))

----------------------------------------------------------------------------
TypeOK ==
    /\ options \in Options
    /\ storage \in Tokens \cup Names \cup {NoIdentity}
    /\ pc \in [Tabs -> {"closed", "read", "store", "replay", "live"}]
    /\ url \in [Tabs -> URLs \cup {NoURL}]
    /\ last \in [Tabs -> URLs \cup {NoURL}]
    /\ identity \in [Tabs -> Tokens \cup Names \cup {NoIdentity}]
    /\ timers \in [Tabs -> 0..MaxTimers]
    /\ boot \in [Tabs -> BOOLEAN]
    /\ reported \in [Tabs -> URLs \cup {NoURL}]
    /\ sent \subseteq Tokens \cup Names
    /\ created \subseteq Tokens
    /\ overlapped \in BOOLEAN
    /\ named \in Names \cup {NoIdentity}
    /\ \A t \in Tabs : pc[t] \in {"replay", "live"} => identity[t] # NoIdentity

\* However navigations, their deferred callbacks, the page view at boot and calls of
\* the page follow one another, a tab that has nothing pending has given the page view of
\* the page it is on to fetch (tracker.js:367-374, 401-405).  A request that fails is not
\* repeated (tracker.js:308-311).
LatestPageReported ==
    options.autoTrack /\ options.trackHistory /\ ~Silent =>
       \A t \in Tabs : Live(t) /\ timers[t] = 0 /\ ~boot[t] => reported[t] = url[t]

\* A visitor gets a second identity, or loses the one given to identify, only if two
\* tabs without one started at the same time (tracker.js:72-81, 329-337).
OneIdentity ==
    Stores /\ ~overlapped =>
       /\ \A token, other \in created : token = other
       /\ named # NoIdentity => storage = named

\* A visitor who opted out is neither reported nor remembered, whatever the page
\* calls before or after the script has loaded (tracker.js:46, 240-241, 332).
OptedOutUntouched == options.suppressed => sent = {} /\ storage = NoIdentity

\* The page view of a page the tab stays on is given to fetch.
PagesReported ==
    \A t \in Tabs, u \in URLs :
       options.autoTrack /\ options.trackHistory /\ ~Silent /\ Live(t) /\ url[t] = u
          ~> reported[t] = u \/ url[t] # u
=============================================================================
