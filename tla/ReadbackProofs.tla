---------------------------- MODULE ReadbackProofs ----------------------------
(***************************************************************************)
(* The read routes for any number of concurrent requests, any rotation of  *)
(* credentials, any clock, any documents: the types, who is let in, what   *)
(* storage is asked, that a refusal has its reason, and ReadGate.          *)
(*                                                                         *)
(* The first part shows that the accepted credentials are the entries the  *)
(* operator wrote, no more; the second carries, for each place a request   *)
(* can be at, what has been checked for it; the third maps each step to    *)
(* one of ReadGate.                                                        *)
(***************************************************************************)
EXTENDS Readback, TLAPS

----------------------------------------------------------------------------
(* Credentials.                                                            *)

LEMMA EntriesType ==
    ASSUME NEW e \in Environments
    PROVE  /\ DOMAIN Entries(e) \subseteq Nat \ {0} /\ 1 \in DOMAIN Entries(e)
           /\ Entries(e)[1] = e.primary
           /\ \A i \in DOMAIN Entries(e) : Entries(e)[i] \in EntryTypes
BY DEF Environments, Entries

\* A credential newHandler accepts is the decoding of a kept entry: the bare copies
\* of the tokens that runtime.New passes along add nothing.
LEMMA AcceptedConfigured ==
    ASSUME NEW e \in Environments
    PROVE  AcceptedCredentials(e) = {Decoded(Entries(e)[i]) : i \in Kept(Entries(e))}
<1> DEFINE creds == QueryCredentialsFromEnv(e)
<1>1. e.primary.token # BlankToken => e.primary.token \in QueryTokenValues(creds)
    <2> SUFFICES ASSUME e.primary.token # BlankToken
                 PROVE  e.primary.token \in QueryTokenValues(creds)
        OBVIOUS
    <2>1. 1 \in Kept(Entries(e))
        BY EntriesType DEF Kept
    <2>2. Decoded(e.primary) \in creds
        BY <2>1, EntriesType DEF QueryCredentialsFromEnv
    <2>3. Decoded(e.primary).token = e.primary.token
        BY DEF Decoded, Credential
    <2> QED
        BY <2>2, <2>3 DEF QueryTokenValues
<1>2. ({e.primary.token} \cup QueryTokenValues(creds))
         \ ({BlankToken} \cup QueryTokenValues(creds)) = {}
    BY <1>1
<1>3. AcceptedCredentials(e) = creds
    BY <1>2 DEF AcceptedCredentials, NormalizeQueryCredentials
<1> QED
    BY <1>3 DEF QueryCredentialsFromEnv

LEMMA DecodedFields ==
    ASSUME NEW x
    PROVE  /\ Decoded(x).token = x.token
           /\ Decoded(x).notBefore = x.notBefore /\ Decoded(x).expiresAt = x.expiresAt
           /\ Decoded(x).scopes = x.scopes \ {BlankScope}
           /\ Decoded(x).writeKeys = x.writeKeys \ {BlankKey}
BY DEF Decoded, Credential

\* The credentials a token selects, in terms of what the operator wrote.
LEMMA MatchesConfigured ==
    ASSUME env \in Environments, now \in Nat, NEW c \in Calls, query[c].token \in Tokens \cup {BlankToken}
    PROVE  /\ \A cred \in Matches(c) :
                 \E x \in EntriesFor(query[c]) : cred = Decoded(x) /\ Opens(x, now)
           /\ \A x \in EntriesFor(query[c]) :
                 x \in EntryTypes /\ (Opens(x, now) => Decoded(x) \in Matches(c))
<1>1. ASSUME NEW cred \in Matches(c)
      PROVE  \E x \in EntriesFor(query[c]) : cred = Decoded(x) /\ Opens(x, now)
    <2>1. PICK i \in Kept(Entries(env)) : cred = Decoded(Entries(env)[i])
        BY <1>1, AcceptedConfigured DEF Matches, Authorized, Accepted
    <2> DEFINE x == Entries(env)[i]
    <2>2. i \in DOMAIN Entries(env) /\ x \in EntryTypes
        BY <2>1, EntriesType DEF Kept
    <2>3. x.token = query[c].token /\ InWindow(Decoded(x), now)
        BY <1>1, <2>1, DecodedFields DEF Matches, Authorized
    <2>4. x \in EntriesFor(query[c])
        BY <2>1, <2>2, <2>3 DEF EntriesFor, ConfiguredFor, Kept
    <2>5. Opens(x, now)
        BY <2>2, <2>3, DecodedFields DEF InWindow, Opens, EntryTypes
    <2> QED
        BY <2>1, <2>4, <2>5
<1>2. ASSUME NEW x \in EntriesFor(query[c])
      PROVE  x \in EntryTypes /\ (Opens(x, now) => Decoded(x) \in Matches(c))
    <2>1. PICK i \in DOMAIN Entries(env) :
             /\ x = Entries(env)[i]
             /\ x.token = query[c].token /\ query[c].token # BlankToken
             /\ \A j \in 1..(i - 1) : Entries(env)[j].token # query[c].token
        BY <1>2 DEF EntriesFor, ConfiguredFor
    <2>2. x \in EntryTypes
        BY <2>1, EntriesType
    <2>3. i \in Kept(Entries(env))
        BY <2>1 DEF Kept
    <2>4. Decoded(x) \in Accepted
        BY <2>1, <2>3, AcceptedConfigured DEF Accepted
    <2>5. Opens(x, now) => InWindow(Decoded(x), now)
        BY <2>2, DecodedFields DEF InWindow, Opens, EntryTypes
    <2> QED
        BY <2>1, <2>2, <2>4, <2>5, DecodedFields DEF Matches, Authorized
<1> QED
    BY <1>1, <1>2

\* The limits of a credential are those of its entry.
LEMMA LimitsConfigured ==
    ASSUME NEW x \in EntryTypes, NEW q
    PROVE  /\ q.route \in ProcessRoutes /\ AllowsReadbackRoute(Decoded(x), q.route) => Admits(x, q)
           /\ AllowsReadbackRoute(Decoded(x), q.route) /\ AllowsWriteKey(Decoded(x), QueryWriteKey(q))
                 => Admits(x, q)
           /\ q.route # BlankScope /\ ~AllowsReadbackRoute(Decoded(x), q.route) => ~Admits(x, q)
           /\ q.route \notin ProcessRoutes /\ ~AllowsWriteKey(Decoded(x), QueryWriteKey(q))
                 => ~Admits(x, q)
<1> DEFINE k == QueryWriteKey(q)
<1>1. AllowsReadbackRoute(Decoded(x), q.route)
         <=> x.scopes \ {BlankScope} = {} \/ q.route \in x.scopes \ {BlankScope}
    BY DecodedFields DEF AllowsReadbackRoute
<1>2. AllowsWriteKey(Decoded(x), k)
         <=> k = BlankKey \/ x.writeKeys \ {BlankKey} = {} \/ k \in x.writeKeys \ {BlankKey}
    BY DecodedFields DEF AllowsWriteKey
<1> QED
    BY <1>1, <1>2 DEF Admits

\* Starts refuses read routes without credentials, so none is hidden for want of them.
LEMMA HiddenUnassembled ==
    ASSUME Starts(env), NEW c \in Calls, query[c].route \in Routes, ~Shown(c)
    PROVE  ~Assembled(env, query[c].route)
BY DEF Starts, Shown, Accepted, Assembled, Routes, SourceRoutes, ProcessRoutes
----------------------------------------------------------------------------
(* One request.                                                            *)

Key(c) == QueryWriteKey(query[c])

\* The request was inside the limits of the entry of its token at some instant of it.
Admitted(c) == \E t \in During(c), x \in EntriesFor(query[c]) : Opens(x, t) /\ Admits(x, query[c])

Resolving(c) ==
    /\ pc[c] = "resolve" =>
          /\ query[c].route \in SourceRoutes
          /\ call[c].key = Key(c) /\ Key(c) \in Keys /\ authority[Key(c)] \in inForce[c]
    /\ call[c].status = "answered" =>
          /\ call[c].answer.err = "nil" =>
                call[c].answer.source \in inForce[c] /\ Usable(Key(c), call[c].answer.source)
          /\ call[c].answer.err = "not_found" => Missing \in inForce[c]
          /\ call[c].answer.err = "disabled" =>
                Gone \in inForce[c] \/ \E d \in inForce[c] \cap Docs : d \notin Enabled

AuthSound(c) ==
    pc[c] \in {"resolve", "read"} \/ read[c] # NoRead \/ response[c] \in {"200", "400", "500"}
       => Admitted(c)

ReadSound(c) ==
    read[c] # NoRead =>
       LET q == query[c] d == read[c].source IN
       /\ d \in inForce[c] /\ Usable(QueryWriteKey(q), d) /\ InSurface(d)
       /\ read[c].route = q.route /\ read[c].scope = ScopeOf[d]
       /\ AllowsOrigin(d, q.origin) /\ q.route \in ReadbackPolicy[d]
       /\ q.route = "events" =>
             \A i \in DOMAIN q.filters : AllowsPropertyFilter(d, q.filters[i])

\* Why request c may be answered with a status.
Reason(c, status) ==
    LET q == query[c] IN
    /\ status = "404" => ~Assembled(env, q.route)
    /\ status = "401" =>
          (\E t \in During(c) : \A x \in EntriesFor(q) : ~Opens(x, t)) \/ Missing \in inForce[c]
    /\ status = "403" =>
          \/ \E x \in EntriesFor(q) : ~Admits(x, q)
          \/ Gone \in inForce[c]
          \/ \E d \in inForce[c] \cap Docs :
                \/ d \notin Enabled \/ ~AllowsOrigin(d, q.origin)
                \/ q.route \notin ReadbackPolicy[d]

Sound(c) ==
    /\ Resolving(c) /\ AuthSound(c) /\ ReadSound(c) /\ Reason(c, response[c])
    /\ arrived[c] <= now

\* What TypeOK says of one request.
Typed(c) ==
    /\ call[c] \in [status : {"idle", "pending", "answered"},
                    key : Keys \cup {BlankKey}, answer : Answers]
    /\ pc[c] \in {"idle", "authenticate", "resolve", "read", "respond"}
    /\ query[c] \in Queries \cup {NoQuery}
    /\ read[c] \in Reads \cup {NoRead}
    /\ response[c] \in Responses
    /\ arrived[c] \in 0..MaxTime
    /\ inForce[c] \in SUBSET Holdings
    /\ pc[c] = "idle" <=> query[c] = NoQuery
    /\ pc[c] = "resolve" <=> call[c].status # "idle"
    /\ pc[c] # "respond" <=> response[c] = "none"
    /\ pc[c] = "read" => read[c] # NoRead
    /\ pc[c] \in {"idle", "authenticate", "resolve"} => read[c] = NoRead

IInv == TypeOK /\ \A c \in Calls : Sound(c)

\* A step of request c: the rest of the world stays.
OnlyCall(c) ==
    /\ call' = [call EXCEPT ![c] = call'[c]]
    /\ pc' = [pc EXCEPT ![c] = pc'[c]]
    /\ query' = [query EXCEPT ![c] = query'[c]]
    /\ read' = [read EXCEPT ![c] = read'[c]]
    /\ response' = [response EXCEPT ![c] = response'[c]]
    /\ arrived' = [arrived EXCEPT ![c] = arrived'[c]]
    /\ inForce' = [inForce EXCEPT ![c] = inForce'[c]]
    /\ UNCHANGED <<authority, env, now>>

LEMMA CallsTyped == ASSUME IInv PROVE \A c \in Calls : Typed(c)
BY DEF IInv, TypeOK, Typed

\* It is enough to look at request c.
LEMMA OneCall ==
    ASSUME IInv, NEW c \in Calls, OnlyCall(c), Typed(c)', Sound(c)'
    PROVE  IInv'
<1>1. \A x \in Calls \ {c} :
         /\ call'[x] = call[x] /\ pc'[x] = pc[x] /\ query'[x] = query[x] /\ read'[x] = read[x]
         /\ response'[x] = response[x] /\ arrived'[x] = arrived[x] /\ inForce'[x] = inForce[x]
    BY DEF OnlyCall, IInv, TypeOK
<1>2. UNCHANGED <<authority, env, now>>
    BY DEF OnlyCall
<1>3. ASSUME NEW x \in Calls
      PROVE  Typed(x)'
    BY <1>1, CallsTyped DEF Typed
<1>4. ASSUME NEW x \in Calls
      PROVE  Sound(x)'
    <2>1. CASE x # c
        <3>1. Sound(x)
            BY DEF IInv
        <3>2. Resolving(x)' /\ ReadSound(x)'
            BY <1>1, <1>2, <2>1, <3>1 DEF Sound, Resolving, ReadSound, Key
        <3>3. AuthSound(x)' /\ Reason(x, response[x])' /\ (arrived[x] <= now)'
            BY <1>1, <1>2, <2>1, <3>1
            DEF Sound, AuthSound, Admitted, Reason, During, EntriesFor
        <3> QED
            BY <3>2, <3>3 DEF Sound
    <2> QED
        BY <2>1
<1>5. /\ call' \in [Calls -> [status : {"idle", "pending", "answered"},
                              key : Keys \cup {BlankKey}, answer : Answers]]
      /\ pc' \in [Calls -> {"idle", "authenticate", "resolve", "read", "respond"}]
      /\ query' \in [Calls -> Queries \cup {NoQuery}]
      /\ response' \in [Calls -> Responses]
    <2>1. /\ call' = [x \in Calls |-> call'[x]] /\ pc' = [x \in Calls |-> pc'[x]]
          /\ query' = [x \in Calls |-> query'[x]] /\ response' = [x \in Calls |-> response'[x]]
        BY DEF OnlyCall, IInv, TypeOK
    <2> QED
        BY <1>3, <2>1 DEF Typed
<1>6. /\ read' \in [Calls -> Reads \cup {NoRead}]
      /\ arrived' \in [Calls -> 0..MaxTime]
      /\ inForce' \in [Calls -> SUBSET Holdings]
    <2>1. /\ read' = [x \in Calls |-> read'[x]] /\ arrived' = [x \in Calls |-> arrived'[x]]
          /\ inForce' = [x \in Calls |-> inForce'[x]]
        BY DEF OnlyCall, IInv, TypeOK
    <2> QED
        BY <1>3, <2>1 DEF Typed
<1>7. TypeOK'
    BY <1>2, <1>3, <1>5, <1>6 DEF IInv, TypeOK, Typed
<1> QED
    BY <1>4, <1>7 DEF IInv

----------------------------------------------------------------------------
LEMMA MaxTimeType == MaxTime \in Nat
BY MaxTimeAssumption

LEMMA InitInv == Init => IInv
<1> SUFFICES ASSUME Init
             PROVE  IInv
    OBVIOUS
<1>1. TypeOK
    <2>1. /\ authority \in [Keys -> Holdings]
          /\ call \in [Calls -> [status : {"idle", "pending", "answered"},
                                 key : Keys \cup {BlankKey}, answer : Answers]]
          /\ \A c \in Calls : call[c].status = "idle"
        BY DEF Init, Resolver!Init, Resolver!Idle, Resolver!NoAnswer, Resolver!Refuse,
           Resolver!Answer, Resolver!Holdings, Holdings, Answers, Errors
    <2>2. env \in Envs /\ Starts(env) /\ 0 \in 0..MaxTime
        BY MaxTimeType DEF Init
    <2> QED
        BY <2>1, <2>2 DEF Init, TypeOK, Responses
<1>2. ASSUME NEW c \in Calls
      PROVE  Sound(c)
    BY <1>2 DEF Init, Sound, Resolving, AuthSound, ReadSound, Reason,
       Resolver!Init, Resolver!Idle
<1> QED
    BY <1>1, <1>2 DEF IInv

LEMMA PublishStep ==
    ASSUME IInv, NEW k \in Keys, NEW h \in Holdings, Publish(k, h)
    PROVE  IInv'
<1>1. TypeOK'
    BY DEF IInv, TypeOK, Publish, Resolver!Publish
<1>2. ASSUME NEW x \in Calls
      PROVE  Sound(x)'
    <2>1. Sound(x) /\ inForce[x] \subseteq inForce'[x]
        BY DEF IInv, TypeOK, Publish
    <2>2. Resolving(x)'
        <3>1. pc[x] = "resolve" => authority'[Key(x)] \in inForce'[x]
            BY <2>1 DEF IInv, TypeOK, Sound, Resolving, Publish, Resolver!Publish
        <3> QED
            BY <2>1, <3>1 DEF Sound, Resolving, Key, Publish, Resolver!Publish
    <2>3. ReadSound(x)'
        BY <2>1 DEF Sound, ReadSound, Publish, Resolver!Publish
    <2>4. AuthSound(x)' /\ Reason(x, response[x])' /\ (arrived[x] <= now)'
        BY <2>1 DEF Sound, AuthSound, Admitted, Reason, During, EntriesFor, Publish
    <2> QED
        BY <2>2, <2>3, <2>4 DEF Sound
<1> QED
    BY <1>1, <1>2 DEF IInv

LEMMA TickStep == ASSUME IInv, Tick PROVE IInv'
<1>1. now \in Nat /\ now' = now + 1 /\ now' \in 0..MaxTime
    BY MaxTimeType DEF IInv, TypeOK, Tick
<1>2. TypeOK'
    BY <1>1 DEF IInv, TypeOK, Tick
<1>3. ASSUME NEW x \in Calls
      PROVE  Sound(x)'
    <2>1. Sound(x) /\ arrived[x] \in Nat /\ arrived'[x] = arrived[x]
        BY DEF IInv, TypeOK, Tick
    <2>2. During(x) \subseteq During(x)' /\ (arrived[x] <= now)'
        BY <1>1, <2>1 DEF During, Sound, Tick
    <2>3. Resolving(x)' /\ ReadSound(x)'
        BY <2>1 DEF Sound, Resolving, ReadSound, Key, Tick
    <2>4. AuthSound(x)' /\ Reason(x, response[x])'
        <3>1. UNCHANGED <<env, query, response, inForce, pc, read>>
            BY DEF Tick
        <3> HIDE DEF During
        <3>2. Admitted(x) => Admitted(x)'
            BY <2>2, <3>1 DEF Admitted, EntriesFor
        <3> QED
            BY <2>1, <2>2, <3>1, <3>2 DEF Sound, AuthSound, Reason, EntriesFor
    <2> QED
        BY <2>2, <2>3, <2>4 DEF Sound
<1> QED
    BY <1>2, <1>3 DEF IInv
----------------------------------------------------------------------------
(* The steps of a request.                                                 *)

LEMMA QueryType ==
    ASSUME IInv, NEW c \in Calls, pc[c] # "idle"
    PROVE  /\ query[c] \in Queries /\ query[c].route \in Routes
           /\ query[c].token \in Tokens \cup {BlankToken}
           /\ Key(c) \in Keys \cup {BlankKey}
           /\ env \in Environments /\ Starts(env) /\ now \in 0..MaxTime /\ now \in Nat
           /\ arrived[c] \in 0..MaxTime /\ now \in During(c)
<1>1. query[c] \in Queries
    BY DEF IInv, TypeOK
<1>2. /\ query[c].route \in Routes /\ query[c].token \in Tokens \cup {BlankToken}
      /\ query[c].header \in Keys \cup {BlankKey} /\ query[c].param \in Keys \cup {BlankKey}
    BY <1>1, QueryAssumption
<1>3. env \in Environments /\ Starts(env)
    BY QueryAssumption DEF IInv, TypeOK
<1>4. now \in 0..MaxTime /\ arrived[c] \in 0..MaxTime /\ arrived[c] <= now
    BY DEF IInv, TypeOK, Sound
<1> QED
    BY <1>1, <1>2, <1>3, <1>4, MaxTimeType DEF Key, QueryWriteKey, During

LEMMA ReceiveStep ==
    ASSUME IInv, NEW c \in Calls, NEW q \in Queries, Receive(c, q)
    PROVE  IInv'
<1>1. /\ pc'[c] = "authenticate" /\ query'[c] = q /\ arrived'[c] = now
      /\ call'[c] = call[c] /\ read'[c] = read[c] /\ response'[c] = response[c]
      /\ inForce'[c] = inForce[c] /\ pc[c] = "idle" /\ now' = now
    BY DEF Receive, IInv, TypeOK
<1>2. OnlyCall(c)
    BY DEF Receive, OnlyCall, IInv, TypeOK
<1>3. read[c] = NoRead /\ response[c] = "none" /\ call[c].status = "idle" /\ now \in 0..MaxTime
    BY <1>1 DEF IInv, TypeOK
<1>4. q # NoQuery
    BY QueryAssumption
<1>5. Typed(c)'
    BY <1>1, <1>3, <1>4, CallsTyped DEF Typed
<1>6. Sound(c)'
    BY <1>1, <1>3, MaxTimeType DEF Sound, Resolving, AuthSound, ReadSound, Reason
<1> QED
    BY <1>2, <1>5, <1>6, OneCall

\* An answer is given for a reason.
LEMMA RespondsStep ==
    ASSUME IInv, NEW c \in Calls, NEW status \in Responses \ {"none"}, Responds(c, status),
           pc[c] # "idle",
           NEW id, call' = [call EXCEPT ![c] = id],
           id \in [status : {"idle"}, key : Keys \cup {BlankKey}, answer : Answers],
           UNCHANGED <<authority, env, now, query, read, arrived, inForce>>,
           status \in {"200", "400", "500"} => Admitted(c),
           Reason(c, status)
    PROVE  IInv'
<1>1. /\ pc'[c] = "respond" /\ response'[c] = status /\ call'[c] = id
      /\ query'[c] = query[c] /\ read'[c] = read[c] /\ arrived'[c] = arrived[c]
      /\ inForce'[c] = inForce[c] /\ now' = now /\ env' = env
    BY DEF Responds, IInv, TypeOK
<1>2. OnlyCall(c)
    BY DEF Responds, OnlyCall, IInv, TypeOK
<1>3. Typed(c)'
    BY <1>1, CallsTyped DEF Typed
<1>4. Sound(c)
    BY DEF IInv
<1>5. Resolving(c)' /\ ReadSound(c)' /\ (arrived[c] <= now)'
    BY <1>1, <1>4 DEF Sound, Resolving, ReadSound
<1>6. AuthSound(c)'
    BY <1>1, <1>4 DEF Sound, AuthSound, Admitted, During, EntriesFor
<1>7. Reason(c, response[c])'
    BY <1>1 DEF Reason, During, EntriesFor
<1> QED
    BY <1>2, <1>3, <1>5, <1>6, <1>7, OneCall DEF Sound

\* Checks that pass, pass for the entry of the token.
LEMMA OnKeyAdmitted ==
    ASSUME IInv, NEW c \in Calls, pc[c] # "idle",
           \/ InScope(c) # {} /\ query[c].route \in ProcessRoutes
           \/ OnKey(c) # {}
    PROVE  Admitted(c)
<1>1. PICK cred \in InScope(c) : query[c].route \in ProcessRoutes \/ cred \in OnKey(c)
    BY DEF OnKey
<1>2. PICK x \in EntriesFor(query[c]) : cred = Decoded(x) /\ Opens(x, now) /\ x \in EntryTypes
    BY <1>1, QueryType, MatchesConfigured DEF InScope
<1>3. Admits(x, query[c])
    BY <1>1, <1>2, LimitsConfigured DEF InScope, OnKey
<1> QED
    BY <1>2, <1>3, QueryType DEF Admitted

LEMMA ConcludeStep ==
    ASSUME IInv, NEW c \in Calls,
           RejectHidden(c) \/ RejectToken(c) \/ RejectScope(c) \/ RejectWriteKey(c) \/ Snapshot(c)
    PROVE  IInv'
<1>1. pc[c] = "authenticate"
    BY DEF RejectHidden, RejectToken, RejectScope, RejectWriteKey, Snapshot, Checks
<1>2. call[c].status = "idle"
    BY <1>1 DEF IInv, TypeOK
<1>3. ASSUME NEW status \in Responses \ {"none"}, Concludes(c, status), Reason(c, status),
             status \in {"200", "400", "500"} => Admitted(c)
      PROVE  IInv'
    <2>1. /\ call' = [call EXCEPT ![c] = call[c]]
          /\ call[c] \in [status : {"idle"}, key : Keys \cup {BlankKey}, answer : Answers]
        BY <1>2, <1>3 DEF Concludes, IInv, TypeOK
    <2> QED
        BY <1>1, <1>3, <2>1, RespondsStep DEF Concludes
<1>4. query[c].route \in Routes /\ now \in During(c)
    BY <1>1, QueryType
<1>5. CASE RejectHidden(c)
    <2>1. Reason(c, "404")
        BY <1>4, <1>5, HiddenUnassembled DEF RejectHidden, Reason, IInv, TypeOK
    <2> QED
        BY <1>3, <1>5, <2>1 DEF RejectHidden, Responses
<1>6. CASE RejectToken(c)
    <2>1. \A x \in EntriesFor(query[c]) : ~Opens(x, now)
        BY <1>1, <1>6, QueryType, MatchesConfigured DEF RejectToken
    <2>2. Reason(c, "401")
        BY <1>4, <2>1 DEF Reason
    <2> QED
        BY <1>3, <1>6, <2>2 DEF RejectToken, Responses
<1>7. ASSUME NEW cred \in Matches(c),
             \/ ~AllowsReadbackRoute(cred, query[c].route)
             \/ query[c].route \in SourceRoutes /\ ~AllowsWriteKey(cred, Key(c))
      PROVE  Reason(c, "403")
    <2>1. PICK x \in EntriesFor(query[c]) : cred = Decoded(x) /\ x \in EntryTypes
        BY <1>1, QueryType, MatchesConfigured
    <2>2. ~Admits(x, query[c])
        BY <1>4, <1>7, <2>1, LimitsConfigured
        DEF Key, Routes, SourceRoutes, ProcessRoutes, BlankScope
    <2> QED
        BY <2>1, <2>2 DEF Reason
<1>8. CASE RejectScope(c)
    <2>1. PICK cred \in Matches(c) : ~AllowsReadbackRoute(cred, query[c].route)
        BY <1>8 DEF RejectScope, InScope
    <2> QED
        BY <1>3, <1>7, <1>8, <2>1 DEF RejectScope, Responses
<1>9. CASE RejectWriteKey(c)
    <2>1. CASE OnKey(c) = {}
        <3>1. PICK cred \in Matches(c) : ~AllowsWriteKey(cred, Key(c))
            BY <1>9, <2>1 DEF RejectWriteKey, OnKey, InScope, Key
        <3> QED
            BY <1>3, <1>7, <1>9, <2>1, <3>1 DEF RejectWriteKey, Responses
    <2>2. CASE OnKey(c) # {}
        <3>1. Admitted(c) /\ Reason(c, "400")
            BY <1>1, <2>2, OnKeyAdmitted DEF Reason
        <3> QED
            BY <1>3, <1>9, <2>2, <3>1 DEF RejectWriteKey, Responses
    <2> QED
        BY <2>1, <2>2
<1>10. CASE Snapshot(c)
    <2>1. Admitted(c) /\ Reason(c, "200")
        BY <1>1, <1>10, OnKeyAdmitted DEF Snapshot, Reason
    <2> QED
        BY <1>3, <1>10, <2>1 DEF Snapshot, Responses
<1> QED
    BY <1>5, <1>6, <1>8, <1>9, <1>10

LEMMA ResolveStep ==
    ASSUME IInv, NEW c \in Calls, Resolve(c)
    PROVE  IInv'
<1> DEFINE k == Key(c)
<1>1. pc[c] = "authenticate" /\ query[c].route \in SourceRoutes /\ OnKey(c) # {} /\ k # BlankKey
    BY DEF Resolve, Checks, Key
<1>2. k \in Keys /\ Admitted(c)
    BY <1>1, QueryType, OnKeyAdmitted
<1>3. /\ pc'[c] = "resolve" /\ inForce'[c] = {authority[k]}
      /\ call'[c] = [status |-> "pending", key |-> k, answer |-> NoAnswer]
      /\ UNCHANGED <<authority, env, now, query, read, response, arrived>>
    BY DEF Resolve, Key, IInv, TypeOK, Resolver!Invoke, Resolver!NoAnswer, Resolver!Refuse,
       Resolver!Answer, NoAnswer, Refuse, Answer
<1>4. OnlyCall(c)
    BY DEF Resolve, OnlyCall, Resolver!Invoke, IInv, TypeOK
<1>5. authority[k] \in Holdings /\ read[c] = NoRead /\ response[c] = "none" /\ query[c] # NoQuery
    BY <1>1, <1>2 DEF IInv, TypeOK
<1>6. NoAnswer \in Answers
    BY DEF NoAnswer, Refuse, Answer, Answers, Errors
<1>7. Typed(c)'
    BY <1>1, <1>2, <1>3, <1>5, <1>6, CallsTyped DEF Typed
<1>8. Sound(c) /\ k = QueryWriteKey(query[c])
    BY DEF IInv, Key
<1>9. Sound(c)'
    <2>1. Resolving(c)'
        BY <1>1, <1>2, <1>3 DEF Resolving, Key
    <2>2. AuthSound(c)'
        BY <1>2, <1>3 DEF AuthSound, Admitted, During, EntriesFor
    <2>3. ReadSound(c)' /\ Reason(c, response[c])' /\ (arrived[c] <= now)'
        BY <1>3, <1>5, <1>8 DEF Sound, ReadSound, Reason
    <2> QED
        BY <2>1, <2>2, <2>3 DEF Sound
<1> QED
    BY <1>4, <1>7, <1>9, OneCall
\* A verdict on what is held tells why it is not a source.
LEMMA VerdictSound ==
    ASSUME NEW k \in Keys, NEW h \in Holdings
    PROVE  /\ Verdict(k, h) \in Answers
           /\ Verdict(k, h).err = "nil" => Verdict(k, h).source = h /\ Usable(k, h)
           /\ Verdict(k, h).err = "not_found" => h = Missing
           /\ Verdict(k, h).err = "disabled" => h = Gone \/ (h \in Docs /\ h \notin Enabled)
BY DocsAssumption, BlankKeyAssumption
   DEF Verdict, Decode, Usable, Answers, Answer, Refuse, Errors, Holdings

LEMMA ResolvingFacts ==
    ASSUME IInv, NEW c \in Calls, call[c].status # "idle"
    PROVE  /\ pc[c] = "resolve" /\ read[c] = NoRead /\ response[c] = "none"
           /\ call[c].key = Key(c) /\ Key(c) \in Keys /\ Key(c) # BlankKey
           /\ authority[Key(c)] \in inForce[c] \cap Holdings
           /\ Admitted(c) /\ Resolving(c) /\ query[c].route \in SourceRoutes
           /\ query[c] \in Queries
<1>1. pc[c] = "resolve" /\ read[c] = NoRead /\ response[c] = "none" /\ query[c] \in Queries
    BY DEF IInv, TypeOK
<1>2. Resolving(c) /\ Admitted(c)
    BY <1>1 DEF IInv, Sound, AuthSound
<1> QED
    BY <1>1, <1>2, BlankKeyAssumption DEF Resolving, IInv, TypeOK

LEMMA AnswerStep ==
    ASSUME IInv, NEW c \in Calls, ResolverAnswers(c)
    PROVE  IInv'
<1> DEFINE k == Key(c)
           h == authority[k]
<1>1. /\ call[c].status = "pending" /\ UNCHANGED authority
      /\ UNCHANGED <<env, now, pc, query, read, response, arrived, inForce>>
    BY DEF ResolverAnswers, Resolver!TakeEffect
<1>2. /\ pc[c] = "resolve" /\ call[c].key = k /\ k \in Keys /\ k # BlankKey
      /\ h \in inForce[c] \cap Holdings /\ Resolving(c)
    BY <1>1, ResolvingFacts
<1>3. PICK a \in Resolver!Verdicts(k) :
         call' = [call EXCEPT ![c] = [status |-> "answered", key |-> k, answer |-> a]]
    BY <1>2 DEF ResolverAnswers, Resolver!TakeEffect
<1>4. a \in {Refuse("failed"), Verdict(k, h)}
    <2>1. Resolver!Verdict(k, h) = Verdict(k, h) /\ Resolver!Refuse("failed") = Refuse("failed")
        BY DEF Resolver!Verdict, Resolver!Decode, Resolver!Refuse, Resolver!Answer,
           Verdict, Decode, Refuse, Answer
    <2> QED
        BY <1>2, <1>3, <2>1 DEF Resolver!Verdicts
<1>5. /\ a \in Answers
      /\ a.err = "nil" => a.source \in inForce[c] /\ Usable(k, a.source)
      /\ a.err = "not_found" => Missing \in inForce[c]
      /\ a.err = "disabled" =>
            Gone \in inForce[c] \/ \E d \in inForce[c] \cap Docs : d \notin Enabled
    <2>1. Refuse("failed") \in Answers /\ Refuse("failed").err = "failed"
        BY DEF Refuse, Answer, Answers, Errors
    <2> QED
        BY <1>2, <1>4, <2>1, VerdictSound
<1>6. call'[c] = [status |-> "answered", key |-> k, answer |-> a]
    BY <1>3 DEF IInv, TypeOK
<1>7. OnlyCall(c)
    BY <1>1, <1>3 DEF OnlyCall, IInv, TypeOK
<1>8. Typed(c)'
    BY <1>1, <1>2, <1>5, <1>6, CallsTyped DEF Typed
<1>9. Sound(c)'
    <2>1. Sound(c)
        BY DEF IInv
    <2>2. Resolving(c)'
        BY <1>1, <1>2, <1>5, <1>6 DEF Resolving, Key
    <2>3. AuthSound(c)' /\ ReadSound(c)' /\ Reason(c, response[c])' /\ (arrived[c] <= now)'
        BY <1>1, <2>1 DEF Sound, AuthSound, Admitted, ReadSound, Reason, During, EntriesFor
    <2> QED
        BY <2>2, <2>3 DEF Sound
<1> QED
    BY <1>7, <1>8, <1>9, OneCall

LEMMA IdleCall ==
    Resolver!Idle \in [status : {"idle"}, key : Keys \cup {BlankKey}, answer : Answers]
BY DEF Resolver!Idle, Resolver!NoAnswer, Resolver!Refuse, Resolver!Answer, Answers, Errors

\* Why a resolver error is answered as it is.
LEMMA StatusOfError ==
    ASSUME NEW e \in Errors
    PROVE  /\ ResolveStatus(e) \in {"401", "403", "500"}
           /\ ResolveStatus(e) = "401" => e = "not_found"
           /\ ResolveStatus(e) = "403" => e = "disabled"
BY DEF ResolveStatus, Errors

LEMMA UnresolvedStep ==
    ASSUME IInv, NEW c \in Calls, Unresolved(c)
    PROVE  IInv'
<1> DEFINE a == call[c].answer
<1>1. /\ call[c].status = "answered" /\ pc[c] = "resolve"
      /\ call' = [call EXCEPT ![c] = Resolver!Idle]
      /\ UNCHANGED <<authority, env, now, query, read, arrived, inForce>>
    BY DEF Unresolved, Resolver!Return
<1>2. Admitted(c) /\ Resolving(c)
    BY <1>1, ResolvingFacts
<1>3. a.err \in Errors
    BY <1>1 DEF IInv, TypeOK, Answers
<1>4. CASE a.err # "nil" /\ Responds(c, ResolveStatus(a.err))
    <2>1. Reason(c, ResolveStatus(a.err))
        BY <1>1, <1>2, <1>3, StatusOfError DEF Resolving, Reason
    <2>2. ResolveStatus(a.err) \in Responses \ {"none"}
        BY <1>3, StatusOfError DEF Responses
    <2> QED
        BY <1>1, <1>2, <1>4, <2>1, <2>2, IdleCall, RespondsStep
<1>5. CASE Responds(c, "500")
    <2>1. Reason(c, "500") /\ "500" \in Responses \ {"none"}
        BY DEF Reason, Responses
    <2> QED
        BY <1>1, <1>2, <1>5, <2>1, IdleCall, RespondsStep
<1> QED
    BY <1>4, <1>5 DEF Unresolved

LEMMA ResolvesFacts ==
    ASSUME IInv, NEW c \in Calls, NEW d \in Docs, Resolves(c, d)
    PROVE  /\ pc[c] = "resolve" /\ call' = [call EXCEPT ![c] = Resolver!Idle]
           /\ UNCHANGED <<authority, env, now, query, arrived, inForce>>
           /\ d \in inForce[c] /\ Usable(Key(c), d) /\ InSurface(d)
           /\ Admitted(c) /\ read[c] = NoRead /\ response[c] = "none"
           /\ query[c] \in Queries /\ query[c].route \in SourceRoutes
BY ResolvingFacts DEF Resolves, Resolver!Return, Resolving

LEMMA RefuseSourceStep ==
    ASSUME IInv, NEW c \in Calls, NEW d \in Docs, RefuseSource(c, d)
    PROVE  IInv'
<1>1. Resolves(c, d) /\ UNCHANGED read
    BY DEF RefuseSource
<1>2. CASE Responds(c, "403") /\ (~AllowsOrigin(d, query[c].origin) \/ ~AllowsReadback(d, query[c].route))
    <2>1. Reason(c, "403") /\ "403" \in Responses \ {"none"}
        BY <1>1, <1>2, ResolvesFacts DEF Reason, AllowsReadback, Responses
    <2> QED
        BY <1>1, <1>2, <2>1, ResolvesFacts, IdleCall, RespondsStep
<1>3. CASE Responds(c, "400")
    <2>1. Reason(c, "400") /\ "400" \in Responses \ {"none"}
        BY DEF Reason, Responses
    <2> QED
        BY <1>1, <1>3, <2>1, ResolvesFacts, IdleCall, RespondsStep
<1> QED
    BY <1>2, <1>3 DEF RefuseSource

\* Parameters that pass the checks make a query with bounds.
LEMMA ReadType ==
    ASSUME NEW q \in Queries, NEW d \in Docs, NEW t \in Nat, GoodParams(q, d),
           q.route \in SourceRoutes
    PROVE  /\ Read(q, d, t) \in Reads
           /\ Read(q, d, t).source = d /\ Read(q, d, t).scope = ScopeOf[d]
           /\ Read(q, d, t).route = q.route
<1>1. /\ q.from \in Int \cup {Absent, Malformed} /\ q.to \in Int \cup {Absent, Malformed}
      /\ q.limit \in Int \cup {Absent, Malformed} /\ q.offset \in Int \cup {Absent, Malformed}
    BY QueryAssumption
<1>2. /\ RealtimeWindow \in Nat /\ RealtimeQueryCap \in Nat \ {0} /\ EventsQueryCap \in Nat \ {0}
      /\ CatalogLimit \in 1..MaxCatalogLimit /\ MaxCatalogLimit \in Nat
    <2>1. /\ RealtimeWindow \in Nat /\ {RealtimeQueryCap, EventsQueryCap, CatalogLimit} \subseteq Nat \ {0}
          /\ MaxCatalogLimit \in Nat /\ CatalogLimit <= MaxCatalogLimit
        BY QueryAssumption
    <2> QED
        BY <2>1
<1>3. ScopeOf[d] \in Scopes
    BY ScopeOfAssumption
<1>4. CASE q.route = "realtime"
    <2>1. OrDefault(q.from, t - RealtimeWindow) \in Int
        BY <1>1, <1>2, <1>4 DEF GoodParams, OrDefault
    <2>2. OrDefault(q.limit, RealtimeQueryCap) \in Nat \ {0}
        BY <1>1, <1>2, <1>4 DEF GoodParams, AtLeast, OrDefault
    <2> HIDE DEF OrDefault
    <2> QED
        BY <1>3, <1>4, <2>1, <2>2 DEF Read, Reads
<1>5. CASE q.route = "events"
    <2>1. q.from \in Int /\ q.to \in Int
        BY <1>1, <1>5 DEF GoodParams, Given
    <2>2. OrDefault(q.limit, EventsQueryCap) \in Nat \ {0} /\ OrDefault(q.offset, 0) \in Nat
        BY <1>1, <1>2, <1>5 DEF GoodParams, AtLeast, OrDefault
    <2> HIDE DEF OrDefault
    <2> QED
        BY <1>3, <1>5, <2>1, <2>2 DEF Read, Reads
<1>6. CASE q.route = "goals"
    <2>1. q.from \in Int /\ q.to \in Int
        BY <1>1, <1>6 DEF GoodParams, Given
    <2> QED
        BY <1>3, <1>6, <2>1 DEF Read, Reads
<1>7. CASE q.route = "properties"
    <2>1. OrDefault(q.limit, CatalogLimit) \in 1..MaxCatalogLimit
        <3>1. q.limit # Malformed /\ (q.limit # Absent => q.limit >= 1 /\ q.limit <= MaxCatalogLimit)
            BY <1>7 DEF GoodParams, AtLeast
        <3> QED
            BY <1>1, <1>2, <3>1 DEF OrDefault
    <2> HIDE DEF OrDefault
    <2> QED
        BY <1>3, <1>7, <2>1 DEF Read, Reads
<1> QED
    BY <1>4, <1>5, <1>6, <1>7 DEF SourceRoutes

LEMMA AskStorageStep ==
    ASSUME IInv, NEW c \in Calls, NEW d \in Docs, AskStorage(c, d)
    PROVE  IInv'
<1> DEFINE q == query[c]
           r == Read(q, d, now)
<1>1. /\ Resolves(c, d) /\ AllowsOrigin(d, q.origin) /\ AllowsReadback(d, q.route)
      /\ GoodParams(q, d) /\ UNCHANGED response
    BY DEF AskStorage
<1>2. /\ pc[c] = "resolve" /\ call' = [call EXCEPT ![c] = Resolver!Idle]
      /\ UNCHANGED <<authority, env, now, query, arrived, inForce>>
      /\ d \in inForce[c] /\ Usable(Key(c), d) /\ InSurface(d)
      /\ Admitted(c) /\ response[c] = "none" /\ q \in Queries /\ q.route \in SourceRoutes
    BY <1>1, ResolvesFacts
<1>3. now \in Nat
    BY <1>2, QueryType
<1>4. r \in Reads /\ r.source = d /\ r.scope = ScopeOf[d] /\ r.route = q.route /\ r # NoRead
    BY <1>1, <1>2, <1>3, ReadType, NoReadAssumption
<1>5. pc'[c] = "read" /\ read'[c] = r /\ call'[c] = Resolver!Idle
    BY <1>2 DEF AskStorage, IInv, TypeOK
<1>6. OnlyCall(c)
    BY <1>1, <1>2 DEF AskStorage, OnlyCall, IInv, TypeOK
<1>7. q # NoQuery
    BY <1>2, QueryAssumption
<1> HIDE DEF r
<1>8. Typed(c)'
    BY <1>1, <1>2, <1>4, <1>5, <1>7, IdleCall, CallsTyped DEF Typed
<1>9. Sound(c)'
    <2>1. Sound(c)
        BY DEF IInv
    <2>2. Resolving(c)'
        BY <1>5, IdleCall DEF Resolving
    <2>3. AuthSound(c)' /\ Reason(c, response[c])' /\ (arrived[c] <= now)'
        BY <1>1, <1>2, <2>1 DEF Sound, AuthSound, Admitted, Reason, During, EntriesFor
    <2>4. \A i \in DOMAIN q.filters : q.route = "events" => AllowsPropertyFilter(d, q.filters[i])
        BY <1>1 DEF GoodParams, GoodFilter
    <2>5. ReadSound(c)'
        BY <1>1, <1>2, <1>4, <1>5, <2>4 DEF ReadSound, Key, AllowsReadback, InSurface
    <2> QED
        BY <2>2, <2>3, <2>5 DEF Sound
<1> QED
    BY <1>6, <1>8, <1>9, OneCall

LEMMA StorageReturnsStep ==
    ASSUME IInv, NEW c \in Calls, StorageReturns(c)
    PROVE  IInv'
<1>1. PICK status \in {"200", "400", "500"} : Responds(c, status)
    BY DEF StorageReturns, StorageStatuses
<1>2. /\ pc[c] = "read" /\ UNCHANGED <<authority, call, env, now, query, read, arrived, inForce>>
    BY DEF StorageReturns, StorageStatuses
<1>3. /\ call' = [call EXCEPT ![c] = call[c]]
      /\ call[c] \in [status : {"idle"}, key : Keys \cup {BlankKey}, answer : Answers]
    BY <1>2 DEF IInv, TypeOK
<1>4. Admitted(c) /\ Reason(c, status) /\ status \in Responses \ {"none"}
    BY <1>1, <1>2 DEF IInv, Sound, AuthSound, Reason, Responses
<1> QED
    BY <1>1, <1>2, <1>3, <1>4, RespondsStep

LEMMA RespondStep ==
    ASSUME IInv, NEW c \in Calls, Respond(c)
    PROVE  IInv'
<1>1. /\ pc[c] = "respond" /\ pc'[c] = "idle" /\ query'[c] = NoQuery /\ read'[c] = NoRead
      /\ response'[c] = "none" /\ arrived'[c] = 0 /\ inForce'[c] = {}
      /\ UNCHANGED <<authority, call, env, now>>
    BY DEF Respond, IInv, TypeOK
<1>2. OnlyCall(c)
    BY DEF Respond, OnlyCall, IInv, TypeOK
<1>3. call[c].status = "idle" /\ now \in 0..MaxTime
    BY <1>1 DEF IInv, TypeOK
<1>4. Typed(c)'
    BY <1>1, <1>3, CallsTyped, MaxTimeType DEF Typed, Responses
<1>5. Sound(c)'
    BY <1>1, <1>3, MaxTimeType DEF Sound, Resolving, AuthSound, ReadSound, Reason
<1> QED
    BY <1>2, <1>4, <1>5, OneCall

----------------------------------------------------------------------------
LEMMA InvStep == ASSUME IInv, [Next]_vars PROVE IInv'
<1>1. ASSUME NEW c \in Calls, Steps(c)
      PROVE  IInv'
    BY <1>1, ConcludeStep, ResolveStep, AnswerStep, UnresolvedStep, RefuseSourceStep,
       AskStorageStep, StorageReturnsStep, RespondStep DEF Steps
<1>2. CASE UNCHANGED vars
    <2>1. TypeOK'
        BY <1>2 DEF vars, IInv, TypeOK
    <2> QED
        BY <1>2, <2>1 DEF vars, IInv, Sound, Resolving, Key, AuthSound, Admitted, ReadSound, Reason,
           During, EntriesFor
<1> QED
    BY <1>1, <1>2, PublishStep, TickStep, ReceiveStep DEF Next

LEMMA IInvInvariant == Spec => []IInv
BY InitInv, InvStep, PTL DEF Spec

\* The types, and what a request has at each place it can be at.
THEOREM TypeCorrect == Spec => []TypeOK
BY IInvInvariant, PTL DEF IInv

\* Nobody is let in on anything but the first entry of his token.
THEOREM AuthorizedOnly == Spec => []CallersAuthorized
<1>1. IInv => CallersAuthorized
    BY DEF IInv, TypeOK, Sound, AuthSound, Admitted, CallersAuthorized
<1> QED
    BY <1>1, IInvInvariant, PTL

\* Storage is only asked what the source in force allows.
THEOREM ReadsInForce == Spec => []ReadsJustified
<1>1. IInv => ReadsJustified
    BY DEF IInv, Sound, ReadSound, ReadsJustified
<1> QED
    BY <1>1, IInvInvariant, PTL

\* Refusals have their reasons.
THEOREM RefusalTruth == Spec => []RefusalsJustified
<1>1. IInv => RefusalsJustified
    BY DEF IInv, Sound, Reason, RefusalsJustified
<1> QED
    BY <1>1, IInvInvariant, PTL

----------------------------------------------------------------------------
(* The refinement of ReadGate.                                             *)

\* Seen from the contract, a request and what it is about are what they are here.
LEMMA ContractTerms ==
    /\ Contract!NotAsked = NotAsked /\ Contract!Holdings = Holdings
    /\ \A q : /\ Contract!QueryWriteKey(q) = QueryWriteKey(q) /\ Contract!Asked(q) = Asked(q)
             /\ Contract!StorageStatuses(q) = StorageStatuses(q)
    /\ \A q, s : Contract!Ended(q, s) = Ended(q, s)
    /\ \A q, r : Contract!Reading(q, r) = Reading(q, r)
BY DEF Contract!NotAsked, NotAsked, Contract!Holdings, Holdings, Contract!QueryWriteKey,
   QueryWriteKey, Contract!Asked, Asked, Contract!Ended, Ended, Contract!Reading, Reading,
   Contract!At, At, Contract!StorageStatuses, StorageStatuses

LEMMA ContractReads ==
    ASSUME NEW q, NEW d, NEW t
    PROVE  Contract!Read(q, d, t) = Read(q, d, t)
BY DEF Contract!Read, Read, Contract!OrDefault, OrDefault

LEMMA ContractJudgement ==
    ASSUME NEW q, NEW a
    PROVE  Contract!Judged(q, a) = Judged(q, a)
BY DEF Contract!Judged, Judged, Contract!Refusal, Refusal, Contract!ResolveStatus, ResolveStatus,
   Contract!InSurface, InSurface, Contract!OnSurface, OnSurface, Contract!SurfaceKey, SurfaceKey,
   Contract!AllowsOrigin, AllowsOrigin,
   Contract!AllowsReadback, AllowsReadback, Contract!GoodParams, GoodParams, Contract!Given, Given,
   Contract!AtLeast, AtLeast, Contract!GoodFilter, GoodFilter, Contract!AllowsPropertyFilter,
   AllowsPropertyFilter, Contract!Granted, Granted, Contract!Ended, Ended, Contract!At, At

LEMMA ContractGate ==
    ASSUME NEW e, NEW q, NEW t
    PROVE  Contract!Gated(e, q, t) = Gated(e, q, t)
BY DEF Contract!Gated, Gated, Contract!GateStatus, GateStatus, Contract!ConfiguredFor, ConfiguredFor,
   Contract!Entries, Entries, Contract!Opens, Opens, Contract!Admits, Admits, Contract!Assembled,
   Assembled, Contract!QueryWriteKey, QueryWriteKey, Contract!ProcessRoutes, ProcessRoutes,
   Contract!BlankScope, BlankScope, Contract!Passed, Passed, Contract!Ended, Ended, Contract!At, At

LEMMA ContractStarts ==
    ASSUME NEW e
    PROVE  Contract!Starts(e) = Starts(e)
BY DEF Contract!Starts, Starts, Contract!Entries, Entries, Contract!Unacceptable, Unacceptable,
   Contract!EmptyWindow, EmptyWindow, Contract!AcceptedCredentials, AcceptedCredentials,
   Contract!QueryCredentialsFromEnv, QueryCredentialsFromEnv, Contract!Kept, Kept, Contract!Decoded,
   Decoded, Contract!Credential, Credential, Contract!NormalizeQueryCredentials,
   NormalizeQueryCredentials, Contract!QueryTokenValues, QueryTokenValues, Contract!Bare, Bare,
   Contract!BlankScope, BlankScope

\* A step of request c makes it what it stands for afterwards.
LEMMA StandingBecomes ==
    ASSUME IInv, NEW c \in Calls, OnlyCall(c), NEW r, Standing(c)' = r
    PROVE  Contract!Becomes(c, r)
<1>1. \A x \in Calls \ {c} :
         /\ call'[x] = call[x] /\ pc'[x] = pc[x] /\ query'[x] = query[x] /\ read'[x] = read[x]
         /\ response'[x] = response[x]
    BY DEF OnlyCall, IInv, TypeOK
<1>2. \A x \in Calls \ {c} : Standing(x)' = Standing(x)
    BY <1>1 DEF Standing
<1>3. requestBar' = [requestBar EXCEPT ![c] = r]
    BY <1>2 DEF requestBar
<1> QED
    BY <1>3 DEF Contract!Becomes, OnlyCall

LEMMA InitMaps == Init => Contract!Init
<1> SUFFICES ASSUME Init
             PROVE  Contract!Init
    OBVIOUS
<1>1. requestBar = [c \in Calls |-> Contract!NotAsked]
    BY ContractTerms DEF Init, requestBar, Standing
<1>2. authority \in [Keys -> Contract!Holdings]
    BY DEF Init, Resolver!Init, Resolver!Holdings, Contract!Holdings
<1>3. env \in {e \in Envs : Contract!Starts(e)} /\ now = 0
    BY ContractStarts DEF Init
<1> QED
    BY <1>1, <1>2, <1>3 DEF Contract!Init

LEMMA WorldMaps ==
    /\ \A k \in Keys, h \in Holdings : Publish(k, h) => Contract!Publish(k, h)
    /\ Tick => Contract!Tick
<1>1. ASSUME NEW k \in Keys, NEW h \in Holdings, Publish(k, h)
      PROVE  Contract!Publish(k, h)
    <2>1. UNCHANGED <<pc, query, read, response, call, env, now>>
        BY <1>1 DEF Publish, Resolver!Publish
    <2>2. requestBar' = requestBar
        BY <2>1 DEF requestBar, Standing
    <2> QED
        BY <1>1, <2>1, <2>2 DEF Publish, Resolver!Publish, Contract!Publish
<1>2. ASSUME Tick
      PROVE  Contract!Tick
    <2>1. requestBar' = requestBar
        BY <1>2 DEF Tick, requestBar, Standing
    <2> QED
        BY <1>2, <2>1 DEF Tick, Contract!Tick
<1> QED
    BY <1>1, <1>2

LEMMA ReceiveMaps ==
    ASSUME IInv, NEW c \in Calls, NEW q \in Queries, Receive(c, q)
    PROVE  Contract!Ask(c, q)
<1>1. requestBar[c].stage = "idle"
    BY DEF Receive, requestBar, Standing, NotAsked, At
<1>2. Standing(c)' = Contract!Asked(q)
    BY ContractTerms DEF Receive, Standing, IInv, TypeOK
<1>3. OnlyCall(c)
    BY DEF Receive, OnlyCall, IInv, TypeOK
<1> QED
    BY <1>1, <1>2, <1>3, StandingBecomes DEF Contract!Ask

----------------------------------------------------------------------------
(* The gate: what the handlers decide from a list of credentials is what   *)
(* the contract decides from the first entry of the token.                 *)

\* A token has one first entry.
LEMMA OneEntry ==
    ASSUME env \in Environments, NEW q, NEW x \in EntriesFor(q), NEW y \in EntriesFor(q)
    PROVE  x = y
<1>1. PICK i \in DOMAIN Entries(env) :
         /\ x = Entries(env)[i] /\ x.token = q.token
         /\ \A n \in 1..(i - 1) : Entries(env)[n].token # q.token
    BY DEF EntriesFor, ConfiguredFor
<1>2. PICK j \in DOMAIN Entries(env) :
         /\ y = Entries(env)[j] /\ y.token = q.token
         /\ \A n \in 1..(j - 1) : Entries(env)[n].token # q.token
    BY DEF EntriesFor, ConfiguredFor
<1>3. i \in Nat \ {0} /\ j \in Nat \ {0}
    BY EntriesType
<1>4. ~(i < j) /\ ~(j < i)
    BY <1>1, <1>2, <1>3
<1> QED
    BY <1>1, <1>2, <1>3, <1>4

OpenEntries(c) == {e \in EntriesFor(query[c]) : Opens(e, now)}

\* The limits of a credential that is good now are those of the entry.
LEMMA GateFacts ==
    ASSUME IInv, NEW c \in Calls, pc[c] # "idle"
    PROVE  /\ Shown(c) => Assembled(env, query[c].route)
           /\ ~Shown(c) => ~Assembled(env, query[c].route)
           /\ OpenEntries(c) = {} <=> Matches(c) = {}
           /\ Matches(c) # {} /\ InScope(c) = {} => \E e \in OpenEntries(c) : ~Admits(e, query[c])
           /\ query[c].route \in SourceRoutes /\ InScope(c) # {} /\ OnKey(c) = {} =>
                 \E e \in OpenEntries(c) : ~Admits(e, query[c])
           /\ \/ query[c].route \in ProcessRoutes /\ InScope(c) # {}
              \/ OnKey(c) # {}
              => \A e \in OpenEntries(c) : Admits(e, query[c])
<1> DEFINE q == query[c]
<1>1. /\ env \in Environments /\ Starts(env) /\ now \in Nat /\ q.route \in Routes
      /\ q.token \in Tokens \cup {BlankToken}
    BY QueryType
<1>2. /\ \A cred \in Matches(c) : \E e \in OpenEntries(c) : cred = Decoded(e)
      /\ \A e \in OpenEntries(c) : e \in EntryTypes /\ Decoded(e) \in Matches(c)
    BY <1>1, MatchesConfigured DEF OpenEntries
<1>3. \A e \in OpenEntries(c), f \in OpenEntries(c) : e = f
    BY <1>1, OneEntry DEF OpenEntries
<1>4. ASSUME NEW cred \in Matches(c),
             \/ ~AllowsReadbackRoute(cred, q.route)
             \/ q.route \in SourceRoutes /\ ~AllowsWriteKey(cred, QueryWriteKey(q))
      PROVE  \E e \in OpenEntries(c) : ~Admits(e, q)
    <2>1. PICK e \in OpenEntries(c) : cred = Decoded(e) /\ e \in EntryTypes
        BY <1>2
    <2>2. q.route # BlankScope /\ (q.route \in SourceRoutes => q.route \notin ProcessRoutes)
        BY <1>1 DEF Routes, SourceRoutes, ProcessRoutes, BlankScope
    <2>3. ~Admits(e, q)
        BY <1>4, <2>1, <2>2, LimitsConfigured
    <2> QED
        BY <2>3
<1>5. ASSUME NEW cred \in Matches(c), AllowsReadbackRoute(cred, q.route),
             q.route \in ProcessRoutes \/ AllowsWriteKey(cred, QueryWriteKey(q))
      PROVE  \A e \in OpenEntries(c) : Admits(e, q)
    <2>1. PICK e \in OpenEntries(c) : cred = Decoded(e) /\ e \in EntryTypes
        BY <1>2
    <2>2. Admits(e, q)
        BY <1>5, <2>1, LimitsConfigured
    <2> QED
        BY <1>3, <2>2
<1>6. Shown(c) => Assembled(env, q.route)
    BY DEF Shown
<1>7. ~Shown(c) => ~Assembled(env, q.route)
    BY <1>1, HiddenUnassembled
<1>8. InScope(c) = {cred \in Matches(c) : AllowsReadbackRoute(cred, q.route)}
    BY DEF InScope
<1>9. OnKey(c) = {cred \in InScope(c) : AllowsWriteKey(cred, QueryWriteKey(q))}
    BY DEF OnKey
<1> HIDE DEF q
<1>10. OpenEntries(c) = {} <=> Matches(c) = {}
    BY <1>2
<1>11. Matches(c) # {} /\ InScope(c) = {} => \E e \in OpenEntries(c) : ~Admits(e, q)
    BY <1>4, <1>8
<1>12. q.route \in SourceRoutes /\ InScope(c) # {} /\ OnKey(c) = {} =>
          \E e \in OpenEntries(c) : ~Admits(e, q)
    BY <1>4, <1>8, <1>9
<1>13. \/ q.route \in ProcessRoutes /\ InScope(c) # {}
       \/ OnKey(c) # {}
       => \A e \in OpenEntries(c) : Admits(e, q)
    BY <1>5, <1>8, <1>9
<1> QED
    BY <1>6, <1>7, <1>10, <1>11, <1>12, <1>13 DEF q

\* The handlers that turn a request away, and the snapshot, say what the gate says.
LEMMA GateDecides ==
    ASSUME IInv, NEW c \in Calls, pc[c] = "authenticate"
    PROVE  LET s == GateStatus(env, query[c], now) IN
           /\ RejectHidden(c) \/ RejectToken(c) \/ RejectScope(c) \/ RejectWriteKey(c) \/ Snapshot(c)
                 => s # "none" /\ Concludes(c, s)
           /\ Resolve(c) => s = "none"
<1> DEFINE q == query[c]
           s == GateStatus(env, q, now)
<1>1. s = IF ~Assembled(env, q.route) THEN "404"
          ELSE IF OpenEntries(c) = {} THEN "401"
          ELSE IF \E e \in OpenEntries(c) : ~Admits(e, q) THEN "403"
          ELSE IF q.route \in ProcessRoutes THEN "200"
          ELSE IF QueryWriteKey(q) = BlankKey THEN "400"
          ELSE "none"
    BY DEF GateStatus, OpenEntries, EntriesFor
<1>2. ~(q.route \in SourceRoutes /\ q.route \in ProcessRoutes)
    BY DEF SourceRoutes, ProcessRoutes
<1>3. InScope(c) # {} => Matches(c) # {}
    BY DEF InScope
<1>4. OnKey(c) # {} => InScope(c) # {}
    BY DEF OnKey
<1> HIDE DEF s
<1>5. RejectHidden(c) => s = "404" /\ Concludes(c, "404")
    BY <1>1, GateFacts DEF RejectHidden
<1>6. RejectToken(c) => s = "401" /\ Concludes(c, "401")
    BY <1>1, GateFacts DEF RejectToken, Checks
<1>7. RejectScope(c) => s = "403" /\ Concludes(c, "403")
    BY <1>1, GateFacts DEF RejectScope, Checks
<1>8. RejectWriteKey(c) => \/ s = "403" /\ Concludes(c, "403")
                           \/ s = "400" /\ Concludes(c, "400")
    BY <1>1, <1>2, <1>3, GateFacts DEF RejectWriteKey, Checks
<1>9. Snapshot(c) => s = "200" /\ Concludes(c, "200")
    BY <1>1, <1>3, GateFacts DEF Snapshot, Checks
<1>10. Resolve(c) => s = "none"
    BY <1>1, <1>2, <1>3, <1>4, GateFacts DEF Resolve, Checks
<1> QED
    BY <1>5, <1>6, <1>7, <1>8, <1>9, <1>10 DEF s

LEMMA GateMaps ==
    ASSUME IInv, NEW c \in Calls,
           \/ RejectHidden(c) \/ RejectToken(c) \/ RejectScope(c) \/ RejectWriteKey(c)
           \/ Snapshot(c) \/ Resolve(c)
    PROVE  Contract!Gate(c)
<1> DEFINE q == query[c]
           s == GateStatus(env, q, now)
<1>1. pc[c] = "authenticate"
    BY DEF RejectHidden, RejectToken, RejectScope, RejectWriteKey, Snapshot, Resolve, Checks
<1>2. requestBar[c].stage = "asked" /\ requestBar[c].query = q
    BY <1>1 DEF requestBar, Standing, Asked, At
<1> HIDE DEF s
<1>3. OnlyCall(c) /\ Standing(c)' = Gated(env, q, now)
    <2>1. CASE Resolve(c)
        <3>1. OnlyCall(c)
            BY <2>1 DEF Resolve, OnlyCall, Resolver!Invoke, IInv, TypeOK
        <3>2. pc'[c] = "resolve" /\ call'[c].status = "pending" /\ query'[c] = q
            BY <2>1 DEF Resolve, Resolver!Invoke, IInv, TypeOK
        <3>3. s = "none"
            BY <1>1, <2>1, GateDecides DEF s
        <3> QED
            BY <3>1, <3>2, <3>3 DEF Standing, Gated, s
    <2>2. CASE ~Resolve(c)
        <3>1. s # "none" /\ Concludes(c, s)
            BY <1>1, <2>2, GateDecides DEF s
        <3>2. OnlyCall(c)
            BY <3>1 DEF Concludes, Responds, OnlyCall, IInv, TypeOK
        <3>3. pc'[c] = "respond" /\ response'[c] = s /\ query'[c] = q
            BY <3>1 DEF Concludes, Responds, IInv, TypeOK
        <3> QED
            BY <3>1, <3>2, <3>3 DEF Standing, Gated, s
    <2> QED
        BY <2>1, <2>2
<1>4. Contract!Becomes(c, Contract!Gated(env, requestBar[c].query, now))
    BY <1>2, <1>3, ContractGate, StandingBecomes
<1> QED
    BY <1>2, <1>4 DEF Contract!Gate

----------------------------------------------------------------------------
(* After the gate.                                                         *)

\* The request is judged by the word the resolver has on its write key.
LEMMA AnswerMaps ==
    ASSUME IInv, NEW c \in Calls, ResolverAnswers(c)
    PROVE  Contract!Judge(c)
<1> DEFINE q == query[c]
           k == QueryWriteKey(q)
<1>1. /\ call[c].status = "pending"
      /\ UNCHANGED <<authority, env, now, pc, query, read, response, arrived, inForce>>
    BY DEF ResolverAnswers, Resolver!TakeEffect
<1>2. pc[c] = "resolve" /\ call[c].key = k /\ k # BlankKey
    BY <1>1, ResolvingFacts DEF Key
<1>3. PICK a \in Resolver!Verdicts(k) :
         call' = [call EXCEPT ![c] = [status |-> "answered", key |-> k, answer |-> a]]
    BY <1>2 DEF ResolverAnswers, Resolver!TakeEffect
<1>4. requestBar[c].stage = "passed" /\ requestBar[c].query = q
    BY <1>1, <1>2 DEF requestBar, Standing, Passed, At
<1>5. call'[c].status = "answered" /\ call'[c].answer = a
    BY <1>3 DEF IInv, TypeOK
<1>6. Standing(c)' = Contract!Judged(q, a)
    BY <1>1, <1>2, <1>5, ContractJudgement DEF Standing
<1>7. OnlyCall(c)
    BY <1>1, <1>3 DEF OnlyCall, IInv, TypeOK
<1>8. a \in Contract!Words(k)
    BY <1>2, <1>3
    DEF Resolver!Verdicts, Resolver!Verdict, Resolver!Decode, Resolver!Refuse, Resolver!Answer,
        Contract!Words, Contract!Verdict, Contract!Decode, Contract!Refuse, Contract!Answer
<1>9. Contract!QueryWriteKey(q) = k
    BY ContractTerms
<1>10. Contract!Becomes(c, Contract!Judged(q, a))
    BY <1>6, <1>7, StandingBecomes
<1> QED
    BY <1>4, <1>8, <1>9, <1>10 DEF Contract!Judge

\* A request that is resolved and answered stands where its judgement put it.
LEMMA StandsJudged ==
    ASSUME IInv, NEW c \in Calls, pc[c] = "resolve", call[c].status = "answered"
    PROVE  requestBar[c] = Judged(query[c], call[c].answer)
BY DEF requestBar, Standing

\* The handler that passes a refusal on adds nothing to it.
LEMMA RefusalPassedOn ==
    ASSUME IInv, NEW c \in Calls, pc[c] = "resolve", call[c].status = "answered",
           call' = [call EXCEPT ![c] = Resolver!Idle],
           NEW status, status # "none", status = Refusal(query[c], call[c].answer),
           Responds(c, status),
           UNCHANGED <<authority, env, now, query, read, arrived, inForce>>
    PROVE  UNCHANGED Contract!vars
<1>1. OnlyCall(c)
    BY DEF Responds, OnlyCall, IInv, TypeOK
<1>2. pc'[c] = "respond" /\ response'[c] = status /\ query'[c] = query[c]
    BY DEF Responds, IInv, TypeOK
<1>3. Standing(c)' = requestBar[c]
    BY <1>2, StandsJudged DEF Standing, Judged
<1>4. Contract!Becomes(c, requestBar[c])
    BY <1>1, <1>3, StandingBecomes
<1>5. requestBar' = requestBar
    BY <1>4 DEF Contract!Becomes, requestBar
<1> QED
    BY <1>5 DEF Contract!vars

LEMMA RefusalMaps ==
    ASSUME IInv, NEW c \in Calls,
           Unresolved(c) \/ \E d \in Docs : RefuseSource(c, d)
    PROVE  UNCHANGED Contract!vars
<1> DEFINE q == query[c]
           a == call[c].answer
<1>1. CASE Unresolved(c)
    <2>1. /\ pc[c] = "resolve" /\ call[c].status = "answered"
          /\ call' = [call EXCEPT ![c] = Resolver!Idle]
          /\ UNCHANGED <<authority, env, now, query, read, arrived, inForce>>
        BY <1>1 DEF Unresolved, Resolver!Return
    <2>2. CASE a.err # "nil" /\ Responds(c, ResolveStatus(a.err))
        <3>1. a.err \in Errors
            BY <2>1 DEF IInv, TypeOK, Answers
        <3>2. ResolveStatus(a.err) # "none" /\ ResolveStatus(a.err) = Refusal(q, a)
            BY <2>2, <3>1, StatusOfError DEF Refusal
        <3> QED
            BY <2>1, <2>2, <3>2, RefusalPassedOn
    <2>3. CASE a.err = "nil" /\ ~InSurface(a.source) /\ Responds(c, "500")
        <3>1. "500" = Refusal(q, a)
            BY <2>3 DEF Refusal
        <3> QED
            BY <2>1, <2>3, <3>1, RefusalPassedOn
    <2> QED
        BY <1>1, <2>2, <2>3 DEF Unresolved
<1>2. ASSUME NEW d \in Docs, RefuseSource(c, d)
      PROVE  UNCHANGED Contract!vars
    <2>1. /\ pc[c] = "resolve" /\ call[c].status = "answered"
          /\ call' = [call EXCEPT ![c] = Resolver!Idle]
          /\ UNCHANGED <<authority, env, now, query, read, arrived, inForce>>
          /\ a.err = "nil" /\ a.source = d /\ InSurface(a.source)
        BY <1>2 DEF RefuseSource, Resolves, Resolver!Return
    <2> DEFINE barred == ~AllowsOrigin(a.source, q.origin) \/ ~AllowsReadback(a.source, q.route)
    <2>2. CASE barred /\ Responds(c, "403")
        <3>1. "403" = Refusal(q, a)
            BY <2>1, <2>2 DEF Refusal
        <3> QED
            BY <2>1, <2>2, <3>1, RefusalPassedOn
    <2>3. CASE ~barred /\ ~GoodParams(q, a.source) /\ Responds(c, "400")
        <3>1. "400" = Refusal(q, a)
            BY <2>1, <2>3 DEF Refusal
        <3> QED
            BY <2>1, <2>3, <3>1, RefusalPassedOn
    <2> QED
        BY <1>2, <2>1, <2>2, <2>3 DEF RefuseSource
<1> QED
    BY <1>1, <1>2

LEMMA AskStorageMaps ==
    ASSUME IInv, NEW c \in Calls, NEW d \in Docs, AskStorage(c, d)
    PROVE  Contract!AskStorage(c)
<1> DEFINE q == query[c]
           a == call[c].answer
           r == Read(q, d, now)
<1>1. /\ pc[c] = "resolve" /\ call[c].status = "answered"
      /\ call' = [call EXCEPT ![c] = Resolver!Idle]
      /\ UNCHANGED <<authority, env, now, query, response, arrived, inForce>>
      /\ a.err = "nil" /\ a.source = d /\ InSurface(a.source)
      /\ AllowsOrigin(a.source, q.origin) /\ AllowsReadback(a.source, q.route)
      /\ GoodParams(q, a.source)
    BY DEF AskStorage, Resolves, Resolver!Return
<1>2. Refusal(q, a) = "none"
    BY <1>1 DEF Refusal
<1>3. requestBar[c] = Granted(q, d)
    BY <1>1, <1>2, StandsJudged DEF Judged
<1>4. requestBar[c].stage = "granted" /\ requestBar[c].query = q /\ requestBar[c].source = d
    BY <1>3 DEF Granted, At
<1>5. OnlyCall(c)
    BY <1>1 DEF AskStorage, OnlyCall, IInv, TypeOK
<1> HIDE DEF r
<1>6. pc'[c] = "read" /\ read'[c] = r /\ query'[c] = q
    BY <1>1 DEF AskStorage, IInv, TypeOK, r
<1>7. Standing(c)' = Contract!Reading(q, Contract!Read(q, d, now))
    BY <1>6, ContractTerms, ContractReads DEF Standing, r
<1>8. Contract!Becomes(c, Contract!Reading(q, Contract!Read(q, d, now)))
    BY <1>5, <1>7, StandingBecomes
<1> QED
    BY <1>4, <1>8 DEF Contract!AskStorage

LEMMA StorageReturnsMaps ==
    ASSUME IInv, NEW c \in Calls, StorageReturns(c)
    PROVE  Contract!StorageReturns(c)
<1>1. PICK s \in StorageStatuses(query[c]) : Responds(c, s)
    BY DEF StorageReturns
<1>2. pc[c] = "read" /\ UNCHANGED <<authority, call, env, now, query, read, arrived, inForce>>
    BY DEF StorageReturns
<1>3. requestBar[c].stage = "reading" /\ requestBar[c].query = query[c]
    BY <1>2 DEF requestBar, Standing, Reading, At
<1>4. OnlyCall(c)
    BY <1>1, <1>2 DEF Responds, OnlyCall, IInv, TypeOK
<1>5. Standing(c)' = Contract!Ended(query[c], s)
    BY <1>1, <1>2, ContractTerms DEF Responds, Standing, IInv, TypeOK
<1>6. s \in Contract!StorageStatuses(query[c])
    BY <1>1, ContractTerms
<1>7. Contract!Becomes(c, Contract!Ended(query[c], s))
    BY <1>4, <1>5, StandingBecomes
<1> QED
    BY <1>3, <1>6, <1>7 DEF Contract!StorageReturns

LEMMA RespondMaps ==
    ASSUME IInv, NEW c \in Calls, Respond(c)
    PROVE  Contract!Close(c)
<1>1. requestBar[c].stage = "ended"
    BY DEF Respond, requestBar, Standing, Ended, At
<1>2. Standing(c)' = Contract!NotAsked
    BY ContractTerms DEF Respond, Standing, IInv, TypeOK
<1>3. OnlyCall(c)
    BY DEF Respond, OnlyCall, IInv, TypeOK
<1> QED
    BY <1>1, <1>2, <1>3, StandingBecomes DEF Contract!Close

LEMMA RefinementStep == IInv /\ [Next]_vars => [Contract!Next]_(Contract!vars)
<1> SUFFICES ASSUME IInv, [Next]_vars
             PROVE  Contract!Next \/ UNCHANGED Contract!vars
    OBVIOUS
<1>1. ASSUME NEW k \in Keys, NEW h \in Holdings, Publish(k, h)
      PROVE  Contract!Next
    BY <1>1, WorldMaps, ContractTerms DEF Contract!Next
<1>2. CASE Tick
    BY <1>2, WorldMaps DEF Contract!Next
<1>3. ASSUME NEW c \in Calls, NEW q \in Queries, Receive(c, q)
      PROVE  Contract!Next
    BY <1>3, ReceiveMaps DEF Contract!Next
<1>4. ASSUME NEW c \in Calls, Steps(c)
      PROVE  Contract!Next \/ UNCHANGED Contract!vars
    <2>1. CASE \/ RejectHidden(c) \/ RejectToken(c) \/ RejectScope(c) \/ RejectWriteKey(c)
               \/ Snapshot(c) \/ Resolve(c)
        BY <2>1, GateMaps DEF Contract!Next
    <2>2. CASE ResolverAnswers(c)
        BY <2>2, AnswerMaps DEF Contract!Next
    <2>3. CASE Unresolved(c) \/ \E d \in Docs : RefuseSource(c, d)
        BY <2>3, RefusalMaps
    <2>4. ASSUME NEW d \in Docs, AskStorage(c, d)
          PROVE  Contract!Next
        BY <2>4, AskStorageMaps DEF Contract!Next
    <2>5. CASE StorageReturns(c) \/ Respond(c)
        BY <2>5, StorageReturnsMaps, RespondMaps DEF Contract!Next
    <2> QED
        BY <1>4, <2>1, <2>2, <2>3, <2>4, <2>5 DEF Steps
<1>5. CASE UNCHANGED vars
    BY <1>5 DEF vars, Contract!vars, requestBar, Standing
<1> QED
    BY <1>1, <1>2, <1>3, <1>4, <1>5 DEF Next

\* The read routes are atomic: one instant of the operator's environment lets a query
\* in, one instant of the control plane says what it may read, and the handlers
\* report or ask exactly that.
THEOREM Refinement == Spec => ImplementsReadGate
BY InitMaps, RefinementStep, IInvInvariant, PTL DEF Spec, ImplementsReadGate, Contract!Spec
=============================================================================
