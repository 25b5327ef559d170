------------------------- MODULE CollectServiceProofs -------------------------
(***************************************************************************)
(* POST /collect with its real resolver, for any number of requests, any   *)
(* keys, documents, tags and cache lifetime.  What is proved of the        *)
(* resolver alone (HTTPResolverProofs: it implements SourceAuthority) and  *)
(* of the handler over any SourceAuthority (CollectProofs) is put together *)
(* here: every step of the service is a step of that handler or invisible  *)
(* to it, so that all that holds of the handler holds of the service.      *)
(*                                                                         *)
(* The hypotheses are those of the resolver: no 304 that nothing asked     *)
(* for, and if the keys of the cache alias request buffers, tags that tell *)
(* write keys apart.                                                       *)
(***************************************************************************)
EXTENDS CollectService, HTTPResolverProofs

HandlerProofs == INSTANCE CollectProofs WITH pc <- at, call <- callBar

----------------------------------------------------------------------------
(* The service uses the resolver as its callers may.                       *)

LEMMA WriteKeyType ==
    ASSUME NEW r \in Requests
    PROVE  WriteKey(r) \in Keys \cup {BlankKey}
BY RequestsAssumption DEF WriteKey

LEMMA ResolverStep == [ServiceNext]_serviceVars => [Next]_vars
<1> SUFFICES ASSUME [ServiceNext]_serviceVars
             PROVE  Next \/ UNCHANGED vars
    OBVIOUS
<1>1. ASSUME NEW k \in Keys, NEW h \in Holdings, Edit(k, h)
      PROVE  Next
    BY <1>1 DEF Edit, Next
<1>2. CASE Passes
    BY <1>2 DEF Passes, Next
<1>3. ASSUME NEW c \in Calls, NEW r \in Requests, Receive(c, r)
      PROVE  Next \/ UNCHANGED vars
    BY <1>3, WriteKeyType DEF Receive, Next
<1>4. ASSUME NEW c \in Calls, RequestSteps(c)
      PROVE  Next \/ UNCHANGED vars
    BY <1>4 DEF RequestSteps, Resolve, Resolved, Handle, Next
<1>5. CASE UNCHANGED serviceVars
    BY <1>5 DEF serviceVars
<1> QED
    BY <1>1, <1>2, <1>3, <1>4, <1>5 DEF ServiceNext

\* Seen from the resolver the service is one of the clients it was proved for.
THEOREM UsesResolver == Service => Spec
<1>1. ServiceInit => Init
    BY DEF ServiceInit
<1> QED
    BY <1>1, ResolverStep, PTL DEF Service, Spec

LEMMA ServiceIInv ==
    ASSUME ~SpuriousNotModified
    PROVE  Service => []IInv
BY UsesResolver, IInvInvariant, PTL

----------------------------------------------------------------------------
(* Every step of the service is one of the handler, or none.               *)

LEMMA ServiceInitMaps == ServiceInit => Handler!Init
<1> SUFFICES ASSUME ServiceInit
             PROVE  Handler!Init
    OBVIOUS
<1>1. Authority!Init
    BY InitMaps DEF ServiceInit
<1>2. Handler!Resolver!Init
    BY <1>1 DEF Authority!Init, Authority!Idle, Authority!NoAnswer, Authority!Refuse,
       Authority!Answer, Authority!Holdings, Handler!Resolver!Init, Handler!Resolver!Idle,
       Handler!Resolver!NoAnswer, Handler!Resolver!Refuse, Handler!Resolver!Answer,
       Handler!Resolver!Holdings
<1> QED
    BY <1>2 DEF ServiceInit, Handler!Init

LEMMA EditMaps ==
    ASSUME NEW k \in Keys, NEW h \in Holdings, Edit(k, h)
    PROVE  Handler!Publish(k, h)
<1>1. Authority!Publish(k, h)
    BY PublishMaps DEF Edit
<1> QED
    BY <1>1 DEF Edit, Authority!Publish, Handler!Publish, Handler!Resolver!Publish

\* The handler sees nothing of a step that is invisible to the resolver's callers.
LEMMA UnseenMaps ==
    ASSUME UNCHANGED Authority!vars, UNCHANGED handlerVars
    PROVE  UNCHANGED Handler!vars
BY DEF Authority!vars, handlerVars, Handler!vars

LEMMA ReceiveMaps ==
    ASSUME IInv, NEW c \in Calls, NEW r \in Requests, Receive(c, r)
    PROVE  Handler!Receive(c, r)
<1>1. CASE Handler!Rejects(c, r) /\ UNCHANGED vars
    <2>1. UNCHANGED <<authority, callBar>>
        BY <1>1, HiddenMaps DEF Authority!vars
    <2> QED
        BY <1>1, <2>1 DEF Handler!Receive
<1>2. CASE Handler!Opens(c, r) /\ Invoke(c, WriteKey(r))
    <2>1. Authority!Invoke(c, WriteKey(r))
        BY <1>2, WriteKeyType, InvokeMaps
    <2>2. Handler!WriteKey(r) = WriteKey(r)
        BY DEF Handler!WriteKey, WriteKey
    <2>3. Handler!Resolver!Invoke(c, Handler!WriteKey(r))
        BY <2>1, <2>2 DEF Authority!Invoke, Authority!NoAnswer, Authority!Refuse,
           Authority!Answer, Handler!Resolver!Invoke, Handler!Resolver!NoAnswer,
           Handler!Resolver!Refuse, Handler!Resolver!Answer
    <2> QED
        BY <1>2, <2>3 DEF Handler!Receive
<1> QED
    BY <1>1, <1>2 DEF Receive

\* The resolver looks up, asks, stores: for the handler it answers once.
LEMMA ResolveMaps ==
    ASSUME ~SpuriousNotModified, KeysAlias => TagsNameKeys,
           IInv, NEW c \in Calls, Resolve(c)
    PROVE  Handler!ResolverAnswers(c) \/ UNCHANGED Handler!vars
<1>1. CASE UNCHANGED Authority!vars
    BY <1>1, UnseenMaps DEF Resolve
<1>2. CASE Authority!TakeEffect(c)
    <2>1. Authority!Verdicts(callBar[c].key) = Handler!Resolver!Verdicts(callBar[c].key)
        BY DEF Authority!Verdicts, Authority!Verdict, Authority!Decode, Authority!Refuse,
           Authority!Answer, Handler!Resolver!Verdicts, Handler!Resolver!Verdict,
           Handler!Resolver!Decode, Handler!Resolver!Refuse, Handler!Resolver!Answer
    <2>2. Handler!Resolver!TakeEffect(c)
        BY <1>2, <2>1 DEF Authority!TakeEffect, Handler!Resolver!TakeEffect
    <2> QED
        BY <2>2 DEF Resolve, handlerVars, Handler!ResolverAnswers
<1> QED
    BY <1>1, <1>2, CallMaps DEF Resolve

\* What the handler goes on with is what the call returned.
LEMMA ResolvedMaps ==
    ASSUME IInv, NEW c \in Calls, Resolved(c)
    PROVE  Handler!Resolved(c)
<1>1. Authority!Return(c) /\ callBar[c].answer = result[c]
    BY ReturnMaps DEF Resolved
<1>2. Handler!Resolver!Return(c)
    BY <1>1 DEF Authority!Return, Authority!Idle, Authority!NoAnswer, Authority!Refuse,
       Authority!Answer, Handler!Resolver!Return, Handler!Resolver!Idle,
       Handler!Resolver!NoAnswer, Handler!Resolver!Refuse, Handler!Resolver!Answer
<1>3. Handler!Proceeds(c, callBar[c].answer)
    BY <1>1 DEF Resolved
<1> QED
    BY <1>2, <1>3 DEF Handler!Resolved

LEMMA HandleMaps ==
    ASSUME NEW c \in Calls, Handle(c)
    PROVE  Handler!Handles(c) /\ UNCHANGED <<authority, callBar>>
BY HiddenMaps DEF Handle, Authority!vars

LEMMA ServiceStepMaps ==
    ASSUME ~SpuriousNotModified, KeysAlias => TagsNameKeys,
           IInv, [ServiceNext]_serviceVars
    PROVE  [Handler!Next]_(Handler!vars)
<1>1. ASSUME NEW k \in Keys, NEW h \in Holdings, Edit(k, h)
      PROVE  Handler!Next
    <2>1. h \in Handler!Holdings
        BY DEF Holdings, Handler!Holdings
    <2> QED
        BY <1>1, <2>1, EditMaps DEF Handler!Next
<1>2. CASE Passes
    BY <1>2, HiddenMaps, UnseenMaps DEF Passes
<1>3. ASSUME NEW c \in Calls, NEW r \in Requests, Receive(c, r)
      PROVE  Handler!Next
    BY <1>3, ReceiveMaps DEF Handler!Next
<1>4. ASSUME NEW c \in Calls, RequestSteps(c)
      PROVE  Handler!Next \/ UNCHANGED Handler!vars
    <2>1. CASE Resolve(c)
        BY <2>1, ResolveMaps DEF Handler!Steps, Handler!Next
    <2>2. CASE Resolved(c)
        BY <2>2, ResolvedMaps DEF Handler!Steps, Handler!Next
    <2>3. CASE Handle(c)
        BY <2>3, HandleMaps DEF Handler!Steps, Handler!Next
    <2> QED
        BY <1>4, <2>1, <2>2, <2>3 DEF RequestSteps
<1>5. CASE UNCHANGED serviceVars
    BY <1>5, HiddenMaps, UnseenMaps DEF serviceVars
<1> QED
    BY <1>1, <1>2, <1>3, <1>4, <1>5 DEF ServiceNext

----------------------------------------------------------------------------
\* The service is the handler over an uncached reading of the control plane: the
\* cache, the tags, the clock and the races of its resolver cannot be noticed.
THEOREM ServiceRefinement ==
    ASSUME ~SpuriousNotModified, KeysAlias => TagsNameKeys
    PROVE  Service => ImplementsCollect
<1>1. IInv /\ [ServiceNext]_serviceVars => [Handler!Next]_(Handler!vars)
    BY ServiceStepMaps
<1> QED
    BY <1>1, ServiceInitMaps, ServiceIInv, PTL
    DEF Service, ImplementsCollect, Handler!Spec

----------------------------------------------------------------------------
(* HandlerProofs is the same instance of Collect as Handler, with its      *)
(* theorems: the definitions of both expand to the same formulas.          *)

LEMMA SameSpec == HandlerProofs!Spec <=> Handler!Spec
BY DEF HandlerProofs!Spec, HandlerProofs!Init, HandlerProofs!HandlerInit, HandlerProofs!Next,
   HandlerProofs!vars, HandlerProofs!Publish, HandlerProofs!Watches,
   HandlerProofs!Receive, HandlerProofs!Rejects, HandlerProofs!Opens,
   HandlerProofs!Responds, HandlerProofs!ResolverAnswers, HandlerProofs!Resolved,
   HandlerProofs!Proceeds, HandlerProofs!Steps, HandlerProofs!Handles,
   HandlerProofs!HandleInvalid, HandlerProofs!HandleFiltered, HandlerProofs!Publishes,
   HandlerProofs!BusAccepts, HandlerProofs!BusFails, HandlerProofs!Respond,
   HandlerProofs!Resolver!Init, HandlerProofs!Resolver!Publish,
   HandlerProofs!Resolver!Invoke, HandlerProofs!Resolver!Verdicts,
   HandlerProofs!Resolver!TakeEffect, HandlerProofs!Resolver!Return,
   HandlerProofs!Resolver!Idle, HandlerProofs!Resolver!NoAnswer,
   HandlerProofs!Resolver!Refuse, HandlerProofs!Resolver!Answer,
   HandlerProofs!Resolver!Verdict, HandlerProofs!Resolver!Decode,
   HandlerProofs!Resolver!Holdings, HandlerProofs!WriteKey, HandlerProofs!InSurface,
   HandlerProofs!OnSurface, HandlerProofs!SurfaceKey, HandlerProofs!AllowsOrigin,
   HandlerProofs!ResolveStatus, HandlerProofs!BuildsStages, HandlerProofs!Event,
   HandlerProofs!Holdings, Handler!Spec, Handler!Init, Handler!HandlerInit, Handler!Next,
   Handler!vars, Handler!Publish, Handler!Watches, Handler!Receive, Handler!Rejects,
   Handler!Opens, Handler!Responds, Handler!ResolverAnswers, Handler!Resolved,
   Handler!Proceeds, Handler!Steps, Handler!Handles, Handler!HandleInvalid,
   Handler!HandleFiltered, Handler!Publishes, Handler!BusAccepts, Handler!BusFails,
   Handler!Respond, Handler!Resolver!Init, Handler!Resolver!Publish,
   Handler!Resolver!Invoke, Handler!Resolver!Verdicts, Handler!Resolver!TakeEffect,
   Handler!Resolver!Return, Handler!Resolver!Idle, Handler!Resolver!NoAnswer,
   Handler!Resolver!Refuse, Handler!Resolver!Answer, Handler!Resolver!Verdict,
   Handler!Resolver!Decode, Handler!Resolver!Holdings, Handler!WriteKey,
   Handler!InSurface, Handler!OnSurface, Handler!SurfaceKey, Handler!AllowsOrigin,
   Handler!ResolveStatus, Handler!BuildsStages, Handler!Event, Handler!Holdings

LEMMA SameContract == HandlerProofs!Contract!Spec <=> Handler!Contract!Spec
BY DEF HandlerProofs!Contract!Spec, HandlerProofs!Contract!Init, HandlerProofs!Contract!Next,
   HandlerProofs!Contract!vars, HandlerProofs!Contract!Publish,
   HandlerProofs!Contract!Open, HandlerProofs!Contract!Judge,
   HandlerProofs!Contract!Finish, HandlerProofs!Contract!Close,
   HandlerProofs!Contract!Words, HandlerProofs!Contract!Verdict,
   HandlerProofs!Contract!Decode, HandlerProofs!Contract!Refuse,
   HandlerProofs!Contract!Answer, HandlerProofs!Contract!Holdings,
   HandlerProofs!Contract!WriteKey, HandlerProofs!Contract!Ends,
   HandlerProofs!Contract!Handled, HandlerProofs!Contract!End,
   HandlerProofs!Contract!NotOpened, HandlerProofs!Contract!Opened,
   HandlerProofs!Contract!Judged, HandlerProofs!Contract!Ended,
   HandlerProofs!Contract!Event, HandlerProofs!Contract!InSurface,
   HandlerProofs!Contract!OnSurface, HandlerProofs!Contract!SurfaceKey,
   HandlerProofs!Contract!AllowsOrigin, HandlerProofs!Contract!ResolveStatus,
   HandlerProofs!Contract!BuildsStages, HandlerProofs!requestBar, HandlerProofs!Standing,
   HandlerProofs!NotOpened, HandlerProofs!Opened, HandlerProofs!Judged,
   HandlerProofs!Ended, HandlerProofs!Ends, HandlerProofs!Handled, HandlerProofs!End,
   HandlerProofs!WriteKey, HandlerProofs!InSurface, HandlerProofs!OnSurface,
   HandlerProofs!SurfaceKey, HandlerProofs!AllowsOrigin, HandlerProofs!ResolveStatus,
   HandlerProofs!BuildsStages, HandlerProofs!Event, Handler!Contract!Spec,
   Handler!Contract!Init, Handler!Contract!Next, Handler!Contract!vars,
   Handler!Contract!Publish, Handler!Contract!Open, Handler!Contract!Judge,
   Handler!Contract!Finish, Handler!Contract!Close, Handler!Contract!Words,
   Handler!Contract!Verdict, Handler!Contract!Decode, Handler!Contract!Refuse,
   Handler!Contract!Answer, Handler!Contract!Holdings, Handler!Contract!WriteKey,
   Handler!Contract!Ends, Handler!Contract!Handled, Handler!Contract!End,
   Handler!Contract!NotOpened, Handler!Contract!Opened, Handler!Contract!Judged,
   Handler!Contract!Ended, Handler!Contract!Event, Handler!Contract!InSurface,
   Handler!Contract!OnSurface, Handler!Contract!SurfaceKey,
   Handler!Contract!AllowsOrigin, Handler!Contract!ResolveStatus,
   Handler!Contract!BuildsStages, Handler!requestBar, Handler!Standing,
   Handler!NotOpened, Handler!Opened, Handler!Judged, Handler!Ended, Handler!Ends,
   Handler!Handled, Handler!End, Handler!WriteKey, Handler!InSurface, Handler!OnSurface,
   Handler!SurfaceKey, Handler!AllowsOrigin, Handler!ResolveStatus, Handler!BuildsStages,
   Handler!Event

LEMMA SameProperties ==
    /\ HandlerProofs!TypeOK <=> Handler!TypeOK
    /\ HandlerProofs!QueueTrusted <=> Handler!QueueTrusted
    /\ HandlerProofs!AckedIsQueued <=> Handler!AckedIsQueued
    /\ HandlerProofs!PublishedInForce <=> Handler!PublishedInForce
    /\ HandlerProofs!RefusalsJustified <=> Handler!RefusalsJustified
<1>1. HandlerProofs!TypeOK <=> Handler!TypeOK
    BY DEF HandlerProofs!TypeOK, HandlerProofs!Holdings, HandlerProofs!Answers,
       HandlerProofs!Errors, HandlerProofs!Responses, HandlerProofs!Events, Handler!TypeOK,
       Handler!Holdings, Handler!Answers, Handler!Errors, Handler!Responses, Handler!Events
<1>2. HandlerProofs!QueueTrusted <=> Handler!QueueTrusted
    BY DEF HandlerProofs!QueueTrusted, HandlerProofs!Usable, HandlerProofs!Decode,
       HandlerProofs!Refuse, HandlerProofs!Answer, HandlerProofs!AllowsOrigin,
       Handler!QueueTrusted, Handler!Usable, Handler!Decode, Handler!Refuse, Handler!Answer,
       Handler!AllowsOrigin
<1>3. HandlerProofs!AckedIsQueued <=> Handler!AckedIsQueued
    BY DEF HandlerProofs!AckedIsQueued, Handler!AckedIsQueued
<1>4. HandlerProofs!PublishedInForce <=> Handler!PublishedInForce
    BY DEF HandlerProofs!PublishedInForce, Handler!PublishedInForce
<1>5. HandlerProofs!RefusalsJustified <=> Handler!RefusalsJustified
    BY DEF HandlerProofs!RefusalsJustified, HandlerProofs!WriteKey, HandlerProofs!AllowsOrigin,
       Handler!RefusalsJustified, Handler!WriteKey, Handler!AllowsOrigin
<1> QED
    BY <1>1, <1>2, <1>3, <1>4, <1>5

\* Whatever its resolver caches, each request is admitted or refused by what the
\* control plane held for its key at one instant of it, and ends once.
THEOREM ServiceAdmission ==
    ASSUME ~SpuriousNotModified, KeysAlias => TagsNameKeys
    PROVE  Service => ImplementsAdmission
<1>1. HandlerProofs!Spec => HandlerProofs!Contract!Spec
    BY HandlerProofs!Refinement, BlankKeyAssumption, DocsAssumption, ScopeOfAssumption,
       StartupAssumption, RequestsAssumption, NoRequestAssumption
    DEF HandlerProofs!ImplementsAdmission
<1> QED
    BY <1>1, SameSpec, SameContract, ServiceRefinement, PTL
    DEF ImplementsCollect, ImplementsAdmission

\* An event on the bus of the service is sealed and permitted by a usable document of
\* its write key, inside the startup surface, although documents come through a cache.
THEOREM ServiceQueueTrust ==
    ASSUME ~SpuriousNotModified, KeysAlias => TagsNameKeys
    PROVE  Service => []QueueTrusted
<1>1. HandlerProofs!Spec => []HandlerProofs!QueueTrusted
    BY HandlerProofs!QueueTrust, BlankKeyAssumption, DocsAssumption, ScopeOfAssumption,
       StartupAssumption, RequestsAssumption, NoRequestAssumption
<1>2. HandlerProofs!QueueTrusted <=> QueueTrusted
    BY SameProperties DEF QueueTrusted
<1> QED
    BY <1>1, <1>2, SameSpec, ServiceRefinement, PTL DEF ImplementsCollect

\* 202 means queued and a refusal means not queued, with the real resolver.
THEOREM ServiceAckTruth ==
    ASSUME ~SpuriousNotModified, KeysAlias => TagsNameKeys
    PROVE  Service => []AckedIsQueued
<1>1. HandlerProofs!Spec => []HandlerProofs!AckedIsQueued
    BY HandlerProofs!AckTruth, BlankKeyAssumption, DocsAssumption, ScopeOfAssumption,
       StartupAssumption, RequestsAssumption, NoRequestAssumption
<1>2. HandlerProofs!AckedIsQueued <=> AckedIsQueued
    BY SameProperties DEF AckedIsQueued
<1> QED
    BY <1>1, <1>2, SameSpec, ServiceRefinement, PTL DEF ImplementsCollect

\* No event is published under a policy that was not in force during its request, however
\* long the cache keeps documents: disabling or editing a source takes effect at once.
THEOREM ServicePolicyInForce ==
    ASSUME ~SpuriousNotModified, KeysAlias => TagsNameKeys
    PROVE  Service => []PublishedInForce
<1>1. HandlerProofs!Spec => []HandlerProofs!PublishedInForce
    BY HandlerProofs!PolicyInForce, BlankKeyAssumption, DocsAssumption, ScopeOfAssumption,
       StartupAssumption, RequestsAssumption, NoRequestAssumption
<1>2. HandlerProofs!PublishedInForce <=> PublishedInForce
    BY SameProperties DEF PublishedInForce
<1> QED
    BY <1>1, <1>2, SameSpec, ServiceRefinement, PTL DEF ImplementsCollect

\* The reasons for 401 and 403 are those of the control plane, never of the cache.
THEOREM ServiceRefusalTruth ==
    ASSUME ~SpuriousNotModified, KeysAlias => TagsNameKeys
    PROVE  Service => []RefusalsJustified
<1>1. HandlerProofs!Spec => []HandlerProofs!RefusalsJustified
    BY HandlerProofs!RefusalTruth, BlankKeyAssumption, DocsAssumption, ScopeOfAssumption,
       StartupAssumption, RequestsAssumption, NoRequestAssumption
<1>2. HandlerProofs!RefusalsJustified <=> RefusalsJustified
    BY SameProperties DEF RefusalsJustified
<1> QED
    BY <1>1, <1>2, SameSpec, ServiceRefinement, PTL DEF ImplementsCollect

\* The types of the resolver and of the handler, and that the resolver is busy with a
\* request exactly while the handler waits for it.
THEOREM ServiceTypes ==
    ASSUME ~SpuriousNotModified, KeysAlias => TagsNameKeys
    PROVE  Service => []ServiceTypeOK
<1>1. HandlerProofs!Spec => []HandlerProofs!TypeOK
    BY HandlerProofs!TypeCorrect, BlankKeyAssumption, DocsAssumption, ScopeOfAssumption,
       StartupAssumption, RequestsAssumption, NoRequestAssumption
<1>2. HandlerProofs!TypeOK <=> Handler!TypeOK
    BY SameProperties
<1>3. Service => []TypeOK
    BY UsesResolver, TypeCorrect, PTL
<1>4. TypeOK /\ Handler!TypeOK => ServiceTypeOK
    BY DEF ServiceTypeOK
<1> QED
    BY <1>1, <1>2, <1>3, <1>4, SameSpec, ServiceRefinement, PTL DEF ImplementsCollect
=============================================================================
