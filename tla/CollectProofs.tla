---------------------------- MODULE CollectProofs ----------------------------
(***************************************************************************)
(* POST /collect for any number of concurrent requests, any documents and  *)
(* any startup surface: the types, and that what is on the bus, what       *)
(* clients are told and the policy in force belong together.               *)
(*                                                                         *)
(* The properties say nothing of a request half-way.  The inductive        *)
(* invariant says, for each place a request can be at, what its resolver   *)
(* call may answer and what has been checked of the source it was given.   *)
(***************************************************************************)
EXTENDS Collect, TLAPS

----------------------------------------------------------------------------
\* A resolver call is about the request's key and sees only what was held during it.
CallSound(c) ==
    /\ pc[c] = "resolve" =>
          /\ call[c].key = WriteKey(req[c])
          /\ call[c].key # BlankKey => authority[call[c].key] \in inForce[c]
    /\ call[c].status = "answered" =>
          /\ call[c].answer.err = "nil" =>
                /\ call[c].answer.source \in inForce[c]
                /\ Usable(call[c].key, call[c].answer.source)
                /\ call[c].key # BlankKey
          /\ call[c].answer.err = "not_found" => call[c].key = BlankKey \/ Missing \in inForce[c]
          /\ call[c].answer.err = "disabled" =>
                Gone \in inForce[c] \/ \E d \in inForce[c] \cap Docs : d \notin Enabled

\* A request is handled under a source that passed every check before.
HandleSound(c) ==
    pc[c] = "handle" =>
       /\ source[c] \in inForce[c]
       /\ Usable(WriteKey(req[c]), source[c])
       /\ WriteKey(req[c]) # BlankKey
       /\ AllowsOrigin(source[c], req[c].origin)
       /\ InSurface(source[c])

\* Nothing is answered or published before the request is.
NotYet(c) == pc[c] # "respond" => response[c] = "none" /\ published[c] = NoEvent

\* The properties, of one request and of one event.
AckSound(c) ==
    /\ response[c] = "accepted" => published[c] \in queue
    /\ response[c] \in {"filtered", "400", "401", "403"} => published[c] = NoEvent
    /\ published[c] # NoEvent => published[c].source \in inForce[c]
RefusalSound(c) ==
    /\ response[c] = "401" => WriteKey(req[c]) = BlankKey \/ Missing \in inForce[c]
    /\ response[c] = "403" =>
          \/ Gone \in inForce[c]
          \/ \E d \in inForce[c] \cap Docs : d \notin Enabled \/ ~AllowsOrigin(d, req[c].origin)
EventSound(e) ==
    /\ Usable(e.key, e.source)
    /\ e.scope = ScopeOf[e.source]
    /\ AllowsOrigin(e.source, e.origin)
    /\ e.visitor \notin FilteredBy[e.source]
    /\ InSurface(e.source)

Sound(c) == CallSound(c) /\ HandleSound(c) /\ NotYet(c) /\ AckSound(c) /\ RefusalSound(c)

IInv ==
    /\ TypeOK
    /\ \A c \in Calls : Sound(c)
    /\ \A e \in queue : EventSound(e)

----------------------------------------------------------------------------
(* What the operators return.                                              *)

LEMMA WriteKeyType ==
    ASSUME NEW r \in Requests
    PROVE  WriteKey(r) \in Keys \cup {BlankKey}
BY RequestsAssumption DEF WriteKey

\* A verdict on what is held tells why it is not a source.
LEMMA VerdictSound ==
    ASSUME NEW k \in Keys, NEW h \in Holdings
    PROVE  /\ Verdict(k, h) \in Answers
           /\ Verdict(k, h).err = "nil" => Verdict(k, h).source = h /\ Usable(k, h)
           /\ Verdict(k, h).err = "not_found" => h = Missing
           /\ Verdict(k, h).err = "disabled" => h = Gone \/ (h \in Docs /\ h \notin Enabled)
BY DocsAssumption, BlankKeyAssumption
   DEF Verdict, Decode, Usable, Answers, Answer, Refuse, Errors, Holdings

\* The instant at which the resolver takes effect.
LEMMA EffectSound ==
    ASSUME IInv, NEW c \in Calls, Resolver!TakeEffect(c)
    PROVE  \E a \in Answers :
              /\ call' = [call EXCEPT ![c] = [status |-> "answered", key |-> call[c].key, answer |-> a]]
              /\ UNCHANGED authority
              /\ pc[c] = "resolve"
              /\ a.err = "nil" => /\ a.source \in inForce[c]
                                  /\ Usable(call[c].key, a.source)
                                  /\ call[c].key # BlankKey
              /\ a.err = "not_found" => call[c].key = BlankKey \/ Missing \in inForce[c]
              /\ a.err = "disabled" =>
                    Gone \in inForce[c] \/ \E d \in inForce[c] \cap Docs : d \notin Enabled
<1>1. PICK a \in Resolver!Verdicts(call[c].key) :
         /\ call' = [call EXCEPT ![c] = [status |-> "answered", key |-> call[c].key, answer |-> a]]
         /\ UNCHANGED authority
    BY DEF Resolver!TakeEffect
<1>2. pc[c] = "resolve" /\ CallSound(c) /\ call[c].key \in Keys \cup {BlankKey}
    BY DEF IInv, TypeOK, Sound, Resolver!TakeEffect
<1>3. CASE call[c].key = BlankKey
    <2>1. a = Refuse("not_found")
        BY <1>1, <1>3 DEF Resolver!Verdicts, Resolver!Refuse, Resolver!Answer, Refuse, Answer
    <2>2. a \in Answers
        BY <2>1 DEF Refuse, Answer, Answers, Errors
    <2> QED
        BY <1>1, <1>2, <1>3, <2>1, <2>2 DEF Refuse, Answer
<1>4. CASE call[c].key \in Keys
    <2> DEFINE k == call[c].key
               h == authority[k]
    <2>1. h \in Holdings /\ h \in inForce[c] /\ k # BlankKey
        BY <1>2, <1>4, BlankKeyAssumption DEF IInv, TypeOK, CallSound
    <2>2. Resolver!Verdict(k, h) = Verdict(k, h)
        BY DEF Resolver!Verdict, Resolver!Decode, Resolver!Refuse, Resolver!Answer,
           Verdict, Decode, Refuse, Answer
    <2>3. a \in {Refuse("failed"), Verdict(k, h)}
        BY <1>1, <2>1, <2>2 DEF Resolver!Verdicts, Resolver!Refuse, Resolver!Answer, Refuse, Answer
    <2>4. CASE a = Refuse("failed")
        <3>1. a \in Answers /\ a.err = "failed"
            BY <2>4 DEF Refuse, Answer, Answers, Errors
        <3> QED
            BY <1>1, <1>2, <3>1
    <2>5. CASE a = Verdict(k, h)
        BY <1>1, <1>2, <1>4, <2>1, <2>5, VerdictSound
    <2> QED
        BY <2>3, <2>4, <2>5
<1> QED
    BY <1>2, <1>3, <1>4

----------------------------------------------------------------------------
LEMMA InitInv == Init => IInv
BY DEF Init, HandlerInit, IInv, TypeOK, Sound, CallSound, HandleSound, NotYet, AckSound, RefusalSound,
   Resolver!Init, Resolver!Idle, Resolver!NoAnswer, Resolver!Refuse, Resolver!Answer,
   Resolver!Holdings, Holdings, Answers, Errors, Responses, NoRequestAssumption

\* A step that changes call c alone keeps what is said of the other calls.
Others(c) ==
    \A x \in Calls \ {c} :
       /\ pc'[x] = pc[x] /\ req'[x] = req[x] /\ source'[x] = source[x]
       /\ response'[x] = response[x] /\ call'[x] = call[x]
       /\ inForce'[x] = inForce[x] /\ published'[x] = published[x]

LEMMA OthersSound ==
    ASSUME IInv, NEW c \in Calls, Others(c), UNCHANGED authority, queue \subseteq queue'
    PROVE  \A x \in Calls \ {c} : Sound(x)'
<1> SUFFICES ASSUME NEW x \in Calls \ {c}
             PROVE  Sound(x)'
    OBVIOUS
<1>1. Sound(x)
    BY DEF IInv
<1>2. CallSound(x)' /\ HandleSound(x)' /\ NotYet(x)'
    BY <1>1 DEF Sound, CallSound, HandleSound, NotYet, Others
<1>3. AckSound(x)' /\ RefusalSound(x)'
    BY <1>1 DEF Sound, AckSound, RefusalSound, Others
<1> QED
    BY <1>2, <1>3 DEF Sound

LEMMA PublishStep ==
    ASSUME IInv, NEW k \in Keys, NEW h \in Holdings, Publish(k, h)
    PROVE  IInv'
<1>1. TypeOK'
    BY DEF IInv, TypeOK, Publish, Watches, Resolver!Publish
<1>2. ASSUME NEW x \in Calls
      PROVE  Sound(x)'
    <2>1. Sound(x) /\ inForce[x] \subseteq inForce'[x] /\ inForce'[x] \subseteq Holdings
        BY <1>1 DEF IInv, TypeOK, Publish, Watches
    <2>2. CallSound(x)'
        <3>1. pc[x] = "resolve" /\ call[x].key # BlankKey => authority'[call[x].key] \in inForce'[x]
            BY <2>1 DEF IInv, TypeOK, Sound, CallSound, Publish, Watches, Resolver!Publish
        <3> QED
            BY <2>1, <3>1 DEF Sound, CallSound, Publish, Watches, Resolver!Publish
    <2>3. HandleSound(x)' /\ NotYet(x)'
        BY <2>1 DEF Sound, HandleSound, NotYet, Publish, Watches, Resolver!Publish
    <2>4. AckSound(x)' /\ RefusalSound(x)'
        BY <2>1 DEF Sound, AckSound, RefusalSound, Publish, Watches, Resolver!Publish
    <2> QED
        BY <2>2, <2>3, <2>4 DEF Sound
<1>3. \A e \in queue' : EventSound(e)
    BY DEF IInv, Publish, Watches
<1> QED
    BY <1>1, <1>2, <1>3 DEF IInv, EventSound

LEMMA ReceiveStep ==
    ASSUME IInv, NEW c \in Calls, NEW r \in Requests, Receive(c, r)
    PROVE  IInv'
<1>1. WriteKey(r) \in Keys \cup {BlankKey} /\ r # NoRequest
    BY WriteKeyType, NoRequestAssumption
<1>2. CASE ~r.parses
    <2>1. /\ pc' = [pc EXCEPT ![c] = "respond"] /\ response' = [response EXCEPT ![c] = "400"]
          /\ req' = [req EXCEPT ![c] = r]
          /\ UNCHANGED <<authority, call, inForce, source, queue, published>>
        BY <1>2 DEF Receive, Rejects, Opens, Responds
    <2>2. pc[c] = "idle" /\ published[c] = NoEvent /\ call[c].status = "idle"
        BY <1>2 DEF Receive, Rejects, Opens, IInv, TypeOK, Sound, NotYet
    <2>3. TypeOK'
        BY <1>1, <2>1, <2>2 DEF IInv, TypeOK, Responses
    <2>4. Sound(c)'
        BY <2>1, <2>2 DEF IInv, TypeOK, Sound, CallSound, HandleSound, NotYet, AckSound, RefusalSound
    <2>5. Others(c)
        BY <2>1 DEF IInv, TypeOK, Others
    <2>6. \A x \in Calls \ {c} : Sound(x)'
        BY <2>1, <2>5, OthersSound
    <2> QED
        BY <2>1, <2>3, <2>4, <2>6 DEF IInv, EventSound
<1>3. CASE r.parses
    <2> DEFINE k == WriteKey(r)
    <2>1. /\ pc' = [pc EXCEPT ![c] = "resolve"] /\ req' = [req EXCEPT ![c] = r]
          /\ call' = [call EXCEPT ![c] = [status |-> "pending", key |-> k, answer |-> NoAnswer]]
          /\ inForce' = [inForce EXCEPT ![c] = IF k = BlankKey THEN {} ELSE {authority[k]}]
          /\ UNCHANGED <<authority, response, source, queue, published>>
        BY <1>3 DEF Receive, Rejects, Opens, Resolver!Invoke, Resolver!NoAnswer, Resolver!Refuse, Resolver!Answer,
           NoAnswer, Refuse, Answer
    <2>2. pc[c] = "idle" /\ published[c] = NoEvent /\ response[c] = "none"
        BY <1>3 DEF Receive, Rejects, Opens, IInv, Sound, NotYet
    <2>3. NoAnswer \in Answers
        BY DEF NoAnswer, Refuse, Answer, Answers, Errors
    <2>4. TypeOK'
        BY <1>1, <2>1, <2>2, <2>3 DEF IInv, TypeOK
    <2>5. Sound(c)'
        BY <1>1, <2>1, <2>2
        DEF IInv, TypeOK, Sound, CallSound, HandleSound, NotYet, AckSound, RefusalSound
    <2>6. Others(c)
        BY <2>1 DEF IInv, TypeOK, Others
    <2>7. \A x \in Calls \ {c} : Sound(x)'
        BY <2>1, <2>6, OthersSound
    <2> QED
        BY <2>1, <2>4, <2>5, <2>7 DEF IInv, EventSound
<1> QED
    BY <1>2, <1>3

LEMMA AnswerStep ==
    ASSUME IInv, NEW c \in Calls, ResolverAnswers(c)
    PROVE  IInv'
<1>1. PICK a \in Answers :
         /\ call' = [call EXCEPT ![c] = [status |-> "answered", key |-> call[c].key, answer |-> a]]
         /\ UNCHANGED authority
         /\ pc[c] = "resolve"
         /\ a.err = "nil" => /\ a.source \in inForce[c]
                             /\ Usable(call[c].key, a.source)
                             /\ call[c].key # BlankKey
         /\ a.err = "not_found" => call[c].key = BlankKey \/ Missing \in inForce[c]
         /\ a.err = "disabled" =>
               Gone \in inForce[c] \/ \E d \in inForce[c] \cap Docs : d \notin Enabled
    BY EffectSound DEF ResolverAnswers
<1>2. UNCHANGED <<pc, req, source, response, queue, inForce, published>>
    BY DEF ResolverAnswers
<1>3. TypeOK'
    BY <1>1, <1>2 DEF IInv, TypeOK
<1>4. Sound(c)'
    <2>1. CallSound(c)'
        BY <1>1, <1>2 DEF IInv, TypeOK, Sound, CallSound
    <2>2. HandleSound(c)' /\ NotYet(c)'
        BY <1>2 DEF IInv, Sound, HandleSound, NotYet
    <2>3. AckSound(c)' /\ RefusalSound(c)'
        BY <1>2 DEF IInv, Sound, AckSound, RefusalSound
    <2> QED
        BY <2>1, <2>2, <2>3 DEF Sound
<1>5. Others(c)
    BY <1>1, <1>2 DEF IInv, TypeOK, Others
<1>6. \A x \in Calls \ {c} : Sound(x)'
    BY <1>1, <1>2, <1>5, OthersSound
<1> QED
    BY <1>2, <1>3, <1>4, <1>6 DEF IInv, EventSound

\* Why a resolver error is answered as it is.
LEMMA StatusOfError ==
    ASSUME NEW e \in Errors
    PROVE  /\ ResolveStatus(e) \in Responses \ {"none", "accepted", "filtered"}
           /\ ResolveStatus(e) = "401" => e = "not_found"
           /\ ResolveStatus(e) = "403" => e = "disabled"
BY DEF ResolveStatus, Responses, Errors

\* The response of request c leaves everything else as it was.
LEMMA RespondsStep ==
    ASSUME IInv, NEW c \in Calls, NEW status \in Responses, Responds(c, status),
           NEW id, call' = [call EXCEPT ![c] = id],
           id \in [status : {"idle"}, key : Keys \cup {BlankKey}, answer : Answers],
           NEW d \in Docs \cup {ZeroSource}, source' = [source EXCEPT ![c] = d],
           NEW e \in Events \cup {NoEvent}, published' = [published EXCEPT ![c] = e],
           UNCHANGED <<authority, req, inForce>>,
           pc[c] # "idle",
           queue \subseteq queue', queue' \subseteq Events, \A x \in queue' : EventSound(x),
           status = "accepted" => e \in queue',
           status \in {"filtered", "400", "401", "403"} => e = NoEvent,
           e # NoEvent => e.source \in inForce[c],
           status = "401" => WriteKey(req[c]) = BlankKey \/ Missing \in inForce[c],
           status = "403" =>
              \/ Gone \in inForce[c]
              \/ \E x \in inForce[c] \cap Docs : x \notin Enabled \/ ~AllowsOrigin(x, req[c].origin)
    PROVE  IInv'
<1>1. pc' = [pc EXCEPT ![c] = "respond"] /\ response' = [response EXCEPT ![c] = status]
    BY DEF Responds
<1>2. TypeOK'
    BY <1>1 DEF IInv, TypeOK
<1>3. pc'[c] = "respond" /\ response'[c] = status /\ call'[c] = id /\ published'[c] = e
    BY <1>1 DEF IInv, TypeOK
<1>4. CallSound(c)' /\ HandleSound(c)' /\ NotYet(c)'
    BY <1>3 DEF CallSound, HandleSound, NotYet
<1>5. AckSound(c)'
    BY <1>3 DEF AckSound
<1>6. RefusalSound(c)'
    BY <1>3 DEF RefusalSound
<1>7. Others(c)
    BY <1>1 DEF IInv, TypeOK, Others
<1>8. \A x \in Calls \ {c} : Sound(x)'
    BY <1>7, OthersSound
<1>9. (\A x \in queue : EventSound(x))'
    BY DEF EventSound
<1> QED
    BY <1>2, <1>4, <1>5, <1>6, <1>8, <1>9 DEF IInv, Sound

LEMMA IdleCall ==
    Resolver!Idle \in [status : {"idle"}, key : Keys \cup {BlankKey}, answer : Answers]
BY DEF Resolver!Idle, Resolver!NoAnswer, Resolver!Refuse, Resolver!Answer, Answers, Errors

LEMMA ResolvedStep ==
    ASSUME IInv, NEW c \in Calls, Resolved(c)
    PROVE  IInv'
<1> DEFINE a == call[c].answer
<1>1. /\ pc[c] = "resolve" /\ call[c].status = "answered"
      /\ call' = [call EXCEPT ![c] = Resolver!Idle]
      /\ UNCHANGED <<authority, req, queue, inForce, published>>
    BY DEF Resolved, Proceeds, Resolver!Return
<1>2. a \in Answers /\ a.err \in Errors
    BY <1>1 DEF IInv, TypeOK, Answers
<1>3. CallSound(c) /\ call[c].key = WriteKey(req[c]) /\ published[c] = NoEvent /\ response[c] = "none"
    BY <1>1 DEF IInv, Sound, CallSound, NotYet
<1>4. queue \subseteq Events /\ (\A x \in queue : EventSound(x)) /\ source \in [Calls -> Docs \cup {ZeroSource}]
      /\ published \in [Calls -> Events \cup {NoEvent}]
    BY DEF IInv, TypeOK
<1>5. published' = [published EXCEPT ![c] = NoEvent]
    BY <1>1, <1>3, <1>4
<1>6. CASE a.err # "nil"
    <2>1. Responds(c, ResolveStatus(a.err)) /\ source' = [source EXCEPT ![c] = source[c]]
        BY <1>4, <1>6 DEF Resolved, Proceeds
    <2>2. /\ ResolveStatus(a.err) = "401" => WriteKey(req[c]) = BlankKey \/ Missing \in inForce[c]
          /\ ResolveStatus(a.err) = "403" =>
                Gone \in inForce[c] \/ \E x \in inForce[c] \cap Docs : x \notin Enabled
        BY <1>1, <1>2, <1>3, StatusOfError DEF CallSound
    <2>3. ResolveStatus(a.err) \in Responses \ {"none", "accepted", "filtered"}
        BY <1>2, StatusOfError
    <2>4. source[c] \in Docs \cup {ZeroSource}
        BY <1>4
    <2> QED
        BY <1>1, <1>4, <1>5, <2>1, <2>2, <2>3, <2>4, IdleCall, RespondsStep
<1>7. CASE a.err = "nil" /\ ~InSurface(a.source)
    <2>1. Responds(c, "500") /\ source' = [source EXCEPT ![c] = source[c]]
        BY <1>4, <1>7 DEF Resolved, Proceeds
    <2>2. source[c] \in Docs \cup {ZeroSource} /\ "500" \in Responses
        BY <1>4 DEF Responses
    <2> QED
        BY <1>1, <1>4, <1>5, <2>1, <2>2, IdleCall, RespondsStep
<1>8. CASE a.err = "nil" /\ InSurface(a.source)
    <2>1. /\ a.source \in inForce[c] \cap Docs
          /\ Usable(WriteKey(req[c]), a.source) /\ WriteKey(req[c]) # BlankKey
        BY <1>1, <1>3, <1>8 DEF CallSound, Usable
    <2>2. source' = [source EXCEPT ![c] = a.source]
        BY <1>8 DEF Resolved, Proceeds
    <2>3. CASE ~AllowsOrigin(a.source, req[c].origin)
        <3>1. Responds(c, "403")
            BY <1>8, <2>3 DEF Resolved, Proceeds
        <3>2. "403" \in Responses
            BY DEF Responses
        <3> QED
            BY <1>1, <1>4, <1>5, <2>1, <2>2, <2>3, <3>1, <3>2, IdleCall, RespondsStep
    <2>4. CASE AllowsOrigin(a.source, req[c].origin) /\ ~BuildsStages(a.source)
        <3>1. Responds(c, "500")
            BY <1>8, <2>4 DEF Resolved, Proceeds
        <3>2. "500" \in Responses
            BY DEF Responses
        <3> QED
            BY <1>1, <1>4, <1>5, <2>1, <2>2, <3>1, <3>2, IdleCall, RespondsStep
    <2>5. CASE AllowsOrigin(a.source, req[c].origin) /\ BuildsStages(a.source)
        <3>1. pc' = [pc EXCEPT ![c] = "handle"] /\ UNCHANGED response
            BY <1>8, <2>5 DEF Resolved, Proceeds
        <3>2. TypeOK'
            BY <1>1, <2>1, <2>2, <3>1, IdleCall DEF IInv, TypeOK
        <3>3. pc'[c] = "handle" /\ source'[c] = a.source /\ call'[c] = Resolver!Idle
            BY <1>1, <2>2, <3>1 DEF IInv, TypeOK
        <3>4. CallSound(c)'
            BY <3>3, IdleCall DEF CallSound
        <3>5. HandleSound(c)'
            BY <1>1, <1>8, <2>1, <2>5, <3>3 DEF HandleSound, InSurface
        <3>6. NotYet(c)' /\ AckSound(c)' /\ RefusalSound(c)'
            BY <1>1, <1>3, <3>1 DEF NotYet, AckSound, RefusalSound
        <3>7. Others(c)
            BY <1>1, <2>2, <3>1 DEF IInv, TypeOK, Others
        <3>8. \A x \in Calls \ {c} : Sound(x)'
            BY <1>1, <3>7, OthersSound
        <3> QED
            BY <1>1, <3>2, <3>4, <3>5, <3>6, <3>8 DEF IInv, Sound, EventSound
    <2> QED
        BY <2>3, <2>4, <2>5
<1> QED
    BY <1>6, <1>7, <1>8

\* What is known where a request is handled.
LEMMA HandleFacts ==
    ASSUME IInv, NEW c \in Calls, pc[c] = "handle"
    PROVE  /\ HandleSound(c) /\ published[c] = NoEvent
           /\ req[c] \in Requests /\ source[c] \in Docs
           /\ call[c] \in [status : {"idle"}, key : Keys \cup {BlankKey}, answer : Answers]
           /\ call = [call EXCEPT ![c] = call[c]]
           /\ source = [source EXCEPT ![c] = source[c]]
<1>1. HandleSound(c) /\ published[c] = NoEvent
    BY DEF IInv, Sound, NotYet
<1>2. req[c] \in Requests
    BY DEF IInv, TypeOK
<1>3. source[c] \in Docs
    BY <1>1 DEF HandleSound, Usable
<1>4. call[c].status = "idle"
    BY DEF IInv, TypeOK
<1>5. call[c] \in [status : {"idle"}, key : Keys \cup {BlankKey}, answer : Answers]
    BY <1>4 DEF IInv, TypeOK
<1> QED
    BY <1>1, <1>2, <1>3, <1>5 DEF IInv, TypeOK

LEMMA RefusedStep ==
    ASSUME IInv, NEW c \in Calls, HandleInvalid(c) \/ HandleFiltered(c),
           UNCHANGED <<authority, call>>
    PROVE  IInv'
<1>1. PICK status \in {"400", "filtered"} :
         /\ pc[c] = "handle" /\ Responds(c, status)
         /\ UNCHANGED <<authority, call, req, source, queue, inForce, published>>
    BY DEF HandleInvalid, HandleFiltered
<1>2. status \in Responses
    BY DEF Responses
<1>3. queue \subseteq Events /\ (\A x \in queue : EventSound(x))
      /\ published = [published EXCEPT ![c] = NoEvent]
    BY <1>1, HandleFacts DEF IInv, TypeOK
<1> QED
    BY <1>1, <1>2, <1>3, HandleFacts, RespondsStep

LEMMA BusStep ==
    ASSUME IInv, NEW c \in Calls, BusAccepts(c) \/ BusFails(c), UNCHANGED <<authority, call>>
    PROVE  IInv'
<1> DEFINE e == Event(req[c], source[c])
<1>1. /\ pc[c] = "handle" /\ req[c].visitor \notin FilteredBy[source[c]]
      /\ published' = [published EXCEPT ![c] = e]
      /\ UNCHANGED <<authority, call, req, source, inForce>>
    BY DEF BusAccepts, BusFails, Publishes
<1>2. /\ HandleSound(c) /\ req[c] \in Requests /\ source[c] \in Docs
      /\ published[c] = NoEvent
    BY <1>1, HandleFacts
<1>3. e \in Events
    BY <1>1, <1>2, RequestsAssumption, ScopeOfAssumption, WriteKeyType
    DEF Event, Events, HandleSound
<1>4. EventSound(e) /\ e.source \in inForce[c]
    BY <1>1, <1>2 DEF EventSound, HandleSound, Event
<1>5. published'[c] = e
    BY <1>1 DEF IInv, TypeOK
<1>6. PICK status \in {"accepted", "500"} :
         /\ Responds(c, status)
         /\ queue' \in {queue, queue \cup {e}}
         /\ status = "accepted" => e \in queue'
    BY <1>5 DEF BusAccepts, BusFails
<1>7. /\ queue \subseteq queue' /\ queue' \subseteq Events
      /\ \A x \in queue' : EventSound(x)
    BY <1>3, <1>4, <1>6 DEF IInv, TypeOK
<1>8. status \in Responses
    BY DEF Responses
<1> HIDE DEF e
<1>9. /\ call' = [call EXCEPT ![c] = call[c]] /\ source' = [source EXCEPT ![c] = source[c]]
      /\ call[c] \in [status : {"idle"}, key : Keys \cup {BlankKey}, answer : Answers]
    BY <1>1, HandleFacts
<1> QED
    BY <1>1, <1>2, <1>3, <1>4, <1>6, <1>7, <1>8, <1>9, RespondsStep

LEMMA RespondStep ==
    ASSUME IInv, NEW c \in Calls, Respond(c), UNCHANGED <<authority, call>>
    PROVE  IInv'
<1>1. TypeOK'
    BY NoRequestAssumption DEF Respond, IInv, TypeOK, Responses
<1>2. Sound(c)'
    BY DEF Respond, IInv, TypeOK, Sound, CallSound, HandleSound, NotYet, AckSound, RefusalSound
<1>3. Others(c)
    BY DEF Respond, IInv, TypeOK, Others
<1>4. \A x \in Calls \ {c} : Sound(x)'
    BY <1>3, OthersSound DEF Respond
<1> QED
    BY <1>1, <1>2, <1>4 DEF Respond, IInv, EventSound

LEMMA InvStep == IInv /\ [Next]_vars => IInv'
<1> SUFFICES ASSUME IInv, [Next]_vars
             PROVE  IInv'
    OBVIOUS
<1>1. ASSUME NEW k \in Keys, NEW h \in Holdings, Publish(k, h)
      PROVE  IInv'
    BY <1>1, PublishStep
<1>2. ASSUME NEW c \in Calls, NEW r \in Requests, Receive(c, r)
      PROVE  IInv'
    BY <1>2, ReceiveStep
<1>3. ASSUME NEW c \in Calls, Steps(c)
      PROVE  IInv'
    BY <1>3, AnswerStep, ResolvedStep, RefusedStep, BusStep, RespondStep DEF Steps, Handles
<1>4. CASE UNCHANGED vars
    BY <1>4 DEF vars, IInv, TypeOK, Sound, CallSound, HandleSound, NotYet, AckSound,
       RefusalSound, EventSound
<1> QED
    BY <1>1, <1>2, <1>3, <1>4 DEF Next

LEMMA IInvInvariant == Spec => []IInv
BY InitInv, InvStep, PTL DEF Spec

----------------------------------------------------------------------------
\* The types, and that a resolver call is in progress exactly where a request waits
\* for it.
THEOREM TypeCorrect == Spec => []TypeOK
<1>1. IInv => TypeOK
    BY DEF IInv
<1> QED
    BY <1>1, IInvInvariant, PTL

\* Every event on the bus is sealed and permitted by a usable source of its write
\* key, inside the startup surface.
THEOREM QueueTrust == Spec => []QueueTrusted
<1>1. ASSUME NEW e \in queue, EventSound(e), queue \subseteq Events
      PROVE  IngestionEnabled /\ StartupSources # {} =>
                \E s \in StartupSources \cap Enabled : KeyOf[s] = e.key /\ ScopeOf[s] = e.scope
    <2>1. KeyOf[e.source] = e.key
        BY <1>1 DEF EventSound, Usable, Decode, Refuse, Answer
    <2> QED
        BY <1>1, <2>1 DEF EventSound, InSurface, OnSurface, SurfaceKey
<1>2. IInv => QueueTrusted
    BY <1>1 DEF IInv, TypeOK, EventSound, QueueTrusted
<1> QED
    BY <1>2, IInvInvariant, PTL

\* 202 means queued, a refusal means not queued.
THEOREM AckTruth == Spec => []AckedIsQueued
<1>1. IInv => AckedIsQueued
    BY DEF IInv, Sound, AckSound, AckedIsQueued
<1> QED
    BY <1>1, IInvInvariant, PTL

\* An event is published under a policy that was in force during its own request.
THEOREM PolicyInForce == Spec => []PublishedInForce
<1>1. IInv => PublishedInForce
    BY DEF IInv, Sound, AckSound, PublishedInForce
<1> QED
    BY <1>1, IInvInvariant, PTL

\* 401 and 403 are answered only for a reason that held during the request.
THEOREM RefusalTruth == Spec => []RefusalsJustified
<1>1. IInv => RefusalsJustified
    BY DEF IInv, Sound, RefusalSound, RefusalsJustified
<1> QED
    BY <1>1, IInvInvariant, PTL

----------------------------------------------------------------------------
(* The refinement, step by step.  The invariant is needed where the word   *)
(* on the write key is given: the resolver was asked for the request's key. *)

\* The terms of the contract are those of the handler.
LEMMA ContractTerms ==
    ASSUME NEW r, NEW a, NEW d, NEW k, NEW h, NEW status, NEW ends
    PROVE  /\ Contract!WriteKey(r) = WriteKey(r)
           /\ Contract!Ends(r, a) = Ends(r, a)
           /\ Contract!End(status, ends) = End(status, ends)
           /\ Contract!NotOpened = NotOpened
           /\ Contract!Opened(r) = Opened(r)
           /\ Contract!Judged(r, ends) = Judged(r, ends)
           /\ Contract!Ended(r, status) = Ended(r, status)
<1>1. Contract!WriteKey(r) = WriteKey(r)
    BY DEF Contract!WriteKey, WriteKey
<1>2. /\ \A s, es : Contract!End(s, es) = End(s, es)
      /\ Contract!NotOpened = NotOpened /\ Contract!Opened(r) = Opened(r)
      /\ Contract!Judged(r, ends) = Judged(r, ends)
      /\ Contract!Ended(r, status) = Ended(r, status)
    BY DEF Contract!End, End, Contract!NotOpened, NotOpened, Contract!Opened, Opened,
       Contract!Judged, Judged, Contract!Ended, Ended
<1>3. /\ \A e : Contract!ResolveStatus(e) = ResolveStatus(e)
      /\ \A x, o : Contract!AllowsOrigin(x, o) = AllowsOrigin(x, o)
      /\ \A x : Contract!BuildsStages(x) = BuildsStages(x)
    BY DEF Contract!ResolveStatus, ResolveStatus, Contract!AllowsOrigin, AllowsOrigin,
       Contract!BuildsStages, BuildsStages
<1>4. \A x : Contract!InSurface(x) = InSurface(x)
    BY DEF Contract!InSurface, InSurface, Contract!OnSurface, OnSurface,
       Contract!SurfaceKey, SurfaceKey
<1>5. \A x : Contract!Handled(r, x) = Handled(r, x)
    BY <1>1, <1>2 DEF Contract!Handled, Handled, Contract!Event, Event
<1>6. Contract!Ends(r, a) = Ends(r, a)
    BY <1>2, <1>3, <1>4, <1>5 DEF Contract!Ends, Ends
<1> QED
    BY <1>1, <1>2, <1>6

\* Only request c moves in a step of request c.
LEMMA OneMoves ==
    ASSUME IInv, NEW c \in Calls, Others(c)
    PROVE  requestBar' = [requestBar EXCEPT ![c] = Standing(c)']
<1>1. ASSUME NEW x \in Calls \ {c}
      PROVE  Standing(x)' = Standing(x)
    BY DEF Others, Standing
<1> QED
    BY <1>1 DEF requestBar

\* A judged request ends in one of its ways.
LEMMA FinishMaps ==
    ASSUME IInv, NEW c \in Calls, Others(c), UNCHANGED authority,
           NEW ends, Standing(c) = Judged(req[c], ends),
           NEW status, NEW events, End(status, events) \in ends,
           Standing(c)' = Ended(req[c], status), queue' = queue \cup events
    PROVE  Contract!Finish(c)
<1> DEFINE e == End(status, events)
<1>1. requestBar' = [requestBar EXCEPT ![c] = Ended(req[c], status)]
    BY OneMoves
<1>2. requestBar[c].stage = "judged" /\ requestBar[c].req = req[c] /\ requestBar[c].ends = ends
    BY DEF requestBar, Judged
<1>3. e.status = status /\ e.events = events
    BY DEF End
<1>4. Contract!Ended(requestBar[c].req, e.status) = Ended(req[c], status)
    BY <1>2, <1>3, ContractTerms
<1> HIDE DEF e
<1>5. /\ requestBar' = [requestBar EXCEPT ![c] = Contract!Ended(requestBar[c].req, e.status)]
      /\ queue' = queue \cup e.events /\ e \in requestBar[c].ends
    BY <1>1, <1>2, <1>3, <1>4 DEF e
<1> QED
    BY <1>2, <1>5 DEF Contract!Finish

LEMMA InitMaps == Init => Contract!Init
<1> SUFFICES ASSUME Init
             PROVE  Contract!Init
    OBVIOUS
<1>1. requestBar = [c \in Calls |-> Contract!NotOpened]
    BY ContractTerms DEF Init, HandlerInit, requestBar, Standing
<1>2. authority \in [Keys -> Contract!Holdings] /\ queue = {}
    BY DEF Init, HandlerInit, Resolver!Init, Resolver!Holdings, Contract!Holdings
<1> QED
    BY <1>1, <1>2 DEF Contract!Init

LEMMA PublishMaps ==
    ASSUME NEW k \in Keys, NEW h \in Holdings, Publish(k, h)
    PROVE  Contract!Publish(k, h)
<1>1. UNCHANGED <<pc, req, source, response, call, queue>>
    BY DEF Publish, Watches, Resolver!Publish
<1>2. requestBar' = requestBar
    BY <1>1 DEF requestBar, Standing
<1> QED
    BY <1>1, <1>2 DEF Publish, Resolver!Publish, Contract!Publish

LEMMA ReceiveMaps ==
    ASSUME IInv, NEW c \in Calls, NEW r \in Requests, Receive(c, r)
    PROVE  Contract!Open(c, r)
<1>1. pc[c] = "idle" /\ UNCHANGED <<authority, queue, source>> /\ req' = [req EXCEPT ![c] = r]
    BY DEF Receive, Rejects, Opens, Resolver!Invoke
<1>2. requestBar[c].stage = "idle"
    BY <1>1 DEF requestBar, Standing, NotOpened
<1>3. Others(c)
    BY DEF Receive, Rejects, Opens, Responds, Resolver!Invoke, IInv, TypeOK, Others
<1>4. Standing(c)' = IF r.parses THEN Opened(r) ELSE Ended(r, "400")
    <2>1. req'[c] = r
        BY <1>1 DEF IInv, TypeOK
    <2>2. CASE r.parses
        <3>1. pc'[c] = "resolve" /\ call'[c].status = "pending"
            BY <2>2 DEF Receive, Rejects, Opens, Resolver!Invoke, IInv, TypeOK
        <3> QED
            BY <2>1, <2>2, <3>1 DEF Standing
    <2>3. CASE ~r.parses
        <3>1. pc'[c] = "respond" /\ response'[c] = "400"
            BY <2>3 DEF Receive, Rejects, Opens, Responds, IInv, TypeOK
        <3> QED
            BY <2>1, <2>3, <3>1 DEF Standing
    <2> QED
        BY <2>2, <2>3
<1>5. requestBar' = [requestBar EXCEPT ![c] =
                        IF r.parses THEN Contract!Opened(r) ELSE Contract!Ended(r, "400")]
    BY <1>3, <1>4, OneMoves, ContractTerms
<1> QED
    BY <1>1, <1>2, <1>5 DEF Contract!Open

\* The request is judged by the word the resolver has on its write key.
LEMMA AnswerMaps ==
    ASSUME IInv, NEW c \in Calls, ResolverAnswers(c)
    PROVE  Contract!Judge(c)
<1>1. PICK a \in Resolver!Verdicts(call[c].key) :
         call' = [call EXCEPT ![c] = [status |-> "answered", key |-> call[c].key, answer |-> a]]
    BY DEF ResolverAnswers, Resolver!TakeEffect
<1>2. /\ call[c].status = "pending"
      /\ UNCHANGED <<authority, pc, req, source, response, queue, inForce, published>>
    BY DEF ResolverAnswers, Resolver!TakeEffect
<1>3. pc[c] = "resolve" /\ call[c].key = WriteKey(req[c])
    BY <1>2 DEF IInv, TypeOK, Sound, CallSound
<1>4. Standing(c) = Opened(req[c])
    BY <1>2, <1>3 DEF Standing
<1>5. requestBar[c].stage = "open" /\ requestBar[c].req = req[c]
    BY <1>4 DEF requestBar, Opened
<1>6. call'[c].status = "answered" /\ call'[c].answer = a
    BY <1>1 DEF IInv, TypeOK
<1>7. Standing(c)' = Judged(req[c], Ends(req[c], a))
    BY <1>2, <1>3, <1>6 DEF Standing
<1>8. Others(c)
    BY <1>1, <1>2 DEF IInv, TypeOK, Others
<1>9. a \in Contract!Words(Contract!WriteKey(requestBar[c].req))
    <2>1. Contract!WriteKey(requestBar[c].req) = call[c].key
        BY <1>3, <1>5, ContractTerms
    <2>2. Resolver!Verdicts(call[c].key) = Contract!Words(call[c].key)
        BY DEF Resolver!Verdicts, Resolver!Verdict, Resolver!Decode, Resolver!Refuse,
           Resolver!Answer, Contract!Words, Contract!Verdict, Contract!Decode,
           Contract!Refuse, Contract!Answer
    <2> QED
        BY <2>1, <2>2
<1>10. requestBar' = [requestBar EXCEPT ![c] =
             Contract!Judged(requestBar[c].req, Contract!Ends(requestBar[c].req, a))]
    BY <1>5, <1>7, <1>8, OneMoves, ContractTerms
<1> QED
    BY <1>2, <1>5, <1>9, <1>10 DEF Contract!Judge

\* What the answer leaves open is settled at once, or the request goes on to be
\* handled with the same ends as before.
LEMMA ResolvedMaps ==
    ASSUME IInv, NEW c \in Calls, Resolved(c)
    PROVE  Contract!Finish(c) \/ UNCHANGED Contract!vars
<1> DEFINE a == call[c].answer
           ends == Ends(req[c], a)
<1>1. /\ pc[c] = "resolve" /\ call[c].status = "answered"
      /\ call' = [call EXCEPT ![c] = Resolver!Idle]
      /\ UNCHANGED <<authority, req, queue, inForce, published>>
    BY DEF Resolved, Proceeds, Resolver!Return
<1>2. Standing(c) = Judged(req[c], ends)
    BY <1>1 DEF Standing
<1>3. Others(c)
    BY <1>1 DEF Resolved, Proceeds, Responds, IInv, TypeOK, Others
<1>4. queue' = queue \cup {}
    BY <1>1
<1>5. ASSUME NEW status, Responds(c, status), End(status, {}) \in ends
      PROVE  Contract!Finish(c)
    <2>1. Standing(c)' = Ended(req[c], status)
        BY <1>1, <1>5 DEF Responds, Standing, IInv, TypeOK
    <2> QED
        BY <1>1, <1>2, <1>3, <1>4, <1>5, <2>1, FinishMaps
<1>6. CASE a.err # "nil"
    BY <1>5, <1>6 DEF Resolved, Proceeds, Ends
<1>7. CASE a.err = "nil" /\ ~InSurface(a.source)
    BY <1>5, <1>7 DEF Resolved, Proceeds, Ends
<1>8. CASE /\ a.err = "nil" /\ InSurface(a.source)
           /\ ~AllowsOrigin(a.source, req[c].origin)
    BY <1>5, <1>8 DEF Resolved, Proceeds, Ends
<1>9. CASE /\ a.err = "nil" /\ InSurface(a.source)
           /\ AllowsOrigin(a.source, req[c].origin) /\ ~BuildsStages(a.source)
    BY <1>5, <1>9 DEF Resolved, Proceeds, Ends
<1>10. CASE /\ a.err = "nil" /\ InSurface(a.source)
            /\ AllowsOrigin(a.source, req[c].origin) /\ BuildsStages(a.source)
    <2>1. pc'[c] = "handle" /\ source'[c] = a.source
        BY <1>10 DEF Resolved, Proceeds, IInv, TypeOK
    <2>2. ends = Handled(req[c], a.source)
        BY <1>10 DEF Ends
    <2>3. Standing(c)' = Standing(c)
        BY <1>1, <1>2, <2>1, <2>2 DEF Standing
    <2>4. requestBar' = requestBar
        BY <1>3, <2>3, OneMoves DEF requestBar
    <2> QED
        BY <1>1, <2>4 DEF Contract!vars
<1> QED
    BY <1>6, <1>7, <1>8, <1>9, <1>10

LEMMA HandledMaps ==
    ASSUME IInv, NEW c \in Calls, UNCHANGED <<authority, call>>,
           HandleInvalid(c) \/ HandleFiltered(c) \/ BusAccepts(c) \/ BusFails(c)
    PROVE  Contract!Finish(c)
<1> DEFINE ends == Handled(req[c], source[c])
<1>1. pc[c] = "handle" /\ UNCHANGED <<req, source>>
    BY DEF HandleInvalid, HandleFiltered, BusAccepts, BusFails, Publishes
<1>2. Standing(c) = Judged(req[c], ends)
    BY <1>1 DEF Standing
<1>3. ASSUME NEW status, NEW events, End(status, events) \in ends,
             Responds(c, status), queue' = queue \cup events,
             \E e : published' = [published EXCEPT ![c] = e], UNCHANGED inForce
      PROVE  Contract!Finish(c)
    <2>1. Standing(c)' = Ended(req[c], status)
        BY <1>1, <1>3 DEF Responds, Standing, IInv, TypeOK
    <2>2. Others(c)
        BY <1>1, <1>3 DEF Responds, IInv, TypeOK, Others
    <2> QED
        BY <1>2, <1>3, <2>1, <2>2, FinishMaps
<1>4. UNCHANGED published => \E e : published' = [published EXCEPT ![c] = e]
    BY DEF IInv, TypeOK
<1>5. CASE HandleInvalid(c)
    <2>1. Responds(c, "400") /\ queue' = queue \cup {} /\ UNCHANGED <<published, inForce>>
        BY <1>5 DEF HandleInvalid
    <2>2. End("400", {}) \in ends
        BY <1>5 DEF HandleInvalid, Handled, End
    <2> QED
        BY <1>3, <1>4, <2>1, <2>2
<1>6. CASE HandleFiltered(c)
    <2>1. Responds(c, "filtered") /\ queue' = queue \cup {} /\ UNCHANGED <<published, inForce>>
        BY <1>6 DEF HandleFiltered
    <2>2. End("filtered", {}) \in ends
        BY <1>6 DEF HandleFiltered, Handled, End
    <2> QED
        BY <1>3, <1>4, <2>1, <2>2
<1>7. CASE BusAccepts(c) \/ BusFails(c)
    <2> DEFINE sealed == Event(req[c], source[c])
    <2>1. /\ req[c].valid /\ req[c].visitor \notin FilteredBy[source[c]]
          /\ published' = [published EXCEPT ![c] = sealed] /\ UNCHANGED inForce
        BY <1>7 DEF BusAccepts, BusFails, Publishes
    <2>2. published'[c] = sealed
        BY <2>1 DEF IInv, TypeOK
    <2>3. PICK status \in {"accepted", "500"}, events \in {{}, {sealed}} :
             /\ Responds(c, status) /\ queue' = queue \cup events
             /\ status = "accepted" => events = {sealed}
        BY <1>7, <2>2 DEF BusAccepts, BusFails
    <2>4. End(status, events) \in ends
        BY <2>1, <2>3 DEF Handled, End
    <2> QED
        BY <1>3, <2>1, <2>3, <2>4
<1> QED
    BY <1>5, <1>6, <1>7

LEMMA RespondMaps ==
    ASSUME IInv, NEW c \in Calls, Respond(c), UNCHANGED <<authority, call>>
    PROVE  Contract!Close(c)
<1>1. requestBar[c].stage = "ended"
    BY DEF Respond, requestBar, Standing, Ended
<1>2. Standing(c)' = NotOpened
    BY DEF Respond, Standing, IInv, TypeOK
<1>3. Others(c)
    BY DEF Respond, Others, IInv, TypeOK
<1>4. requestBar' = [requestBar EXCEPT ![c] = Contract!NotOpened]
    BY <1>2, <1>3, OneMoves, ContractTerms
<1> QED
    BY <1>1, <1>4 DEF Respond, Contract!Close

LEMMA RefinementStep == IInv /\ [Next]_vars => [Contract!Next]_(Contract!vars)
<1> SUFFICES ASSUME IInv, [Next]_vars
             PROVE  Contract!Next \/ UNCHANGED Contract!vars
    OBVIOUS
<1>1. ASSUME NEW k \in Keys, NEW h \in Holdings, Publish(k, h)
      PROVE  Contract!Next
    <2>1. h \in Contract!Holdings
        BY DEF Holdings, Contract!Holdings
    <2> QED
        BY <1>1, <2>1, PublishMaps DEF Contract!Next
<1>2. ASSUME NEW c \in Calls, NEW r \in Requests, Receive(c, r)
      PROVE  Contract!Next
    BY <1>2, ReceiveMaps DEF Contract!Next
<1>3. ASSUME NEW c \in Calls, Steps(c)
      PROVE  Contract!Next \/ UNCHANGED Contract!vars
    <2>1. CASE ResolverAnswers(c)
        BY <2>1, AnswerMaps DEF Contract!Next
    <2>2. CASE Resolved(c)
        BY <2>2, ResolvedMaps DEF Contract!Next
    <2>3. CASE Handles(c) /\ UNCHANGED <<authority, call>>
        BY <2>3, HandledMaps, RespondMaps DEF Handles, Contract!Next
    <2> QED
        BY <1>3, <2>1, <2>2, <2>3 DEF Steps
<1>4. CASE UNCHANGED vars
    BY <1>4 DEF vars, Contract!vars, requestBar, Standing
<1> QED
    BY <1>1, <1>2, <1>3, <1>4 DEF Next

\* Towards clients, the control plane and the bus a collect request is judged at
\* one instant and ends once, in one of the ways that judgement left open.
THEOREM Refinement == Spec => ImplementsAdmission
BY InitMaps, RefinementStep, IInvInvariant, PTL DEF Spec, ImplementsAdmission, Contract!Spec
=============================================================================
