SPECIFICATION FairService
CONSTANTS
    k1 = k1
    docA = docA
    docB = docB
    docC = docC
    off = off
    c1 = c1
    sa = sa
    sb = sb
    sc = sc
    good = good
    evil = evil
    human = human
    bot = bot
    ea = ea
    eb = eb
    Keys = {k1}
    BlankKey = BlankKey
    Docs = {docA, docB, docC, off}
    KeyOf <- MCKeyOf
    Valid = {docA, docB, docC, off}
    Enabled <- MCEnabled
    ZeroSource = ZeroSource
    Missing = Missing
    Gone = Gone
    Calls = {c1}
    ETags = {ea, eb}
    NoETag = NoETag
    ETagOf <- MCETagOf
    TTL = 1
    MaxTime = 1
    SpuriousNotModified = FALSE
    KeysAlias = FALSE
    Requests <- MCRequests
    NoRequest = NoRequest
    NoEvent = NoEvent
    Origins = {good, evil}
    NoOrigin = NoOrigin
    Visitors = {human, bot}
    Scopes = {sa, sb, sc}
    ScopeOf <- MCScopeOf
    AllowedOrigins <- MCAllowedOrigins
    FilteredBy <- MCFilteredBy
    BadStages = {docB}
    IngestionEnabled = TRUE
    StartupSources = {docA, docB, off}
INVARIANT ServiceTypeOK
INVARIANT AckedIsQueued
INVARIANT PublishedInForce
INVARIANT RefusalsJustified
INVARIANT QueueTrusted
PROPERTY ImplementsCollect
PROPERTY ImplementsAdmission
PROPERTY RequestsAnswered
