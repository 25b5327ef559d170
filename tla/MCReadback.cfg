SPECIFICATION FairSpec
CONSTANTS
    k1 = k1
    k2 = k2
    open = open
    live = live
    off = off
    fresh = fresh
    new = new
    old = old
    c1 = c1
    sa = sa
    sb = sb
    sc = sc
    good = good
    evil = evil
    plan = plan
    Keys = {k1}
    BlankKey = BlankKey
    Docs = {open, live, off, fresh}
    KeyOf <- MCKeyOf
    Valid = {open, live, off, fresh}
    Enabled <- MCEnabled
    ZeroSource = ZeroSource
    Missing = Missing
    Gone = Gone
    Origins = {good, evil}
    NoOrigin = NoOrigin
    Scopes = {sa, sb, sc}
    ScopeOf <- MCScopeOf
    AllowedOrigins <- MCAllowedOrigins
    IngestionEnabled = TRUE
    StartupSources = {open, live, off}
    Tokens = {new, old}
    BlankToken = BlankToken
    Unset = Unset
    CredentialKeys = {k1, k2}
    Calls = {c1}
    Queries <- MCQueries
    Filters <- MCFilters
    NoQuery = NoQuery
    Envs <- MCEnvs
    ReadbackPolicy <- MCReadbackPolicy
    PropertyFilters <- MCPropertyFilters
    Absent = Absent
    Malformed = Malformed
    RealtimeWindow = 1
    RealtimeQueryCap = 2
    EventsQueryCap = 2
    CatalogLimit = 2
    MaxCatalogLimit = 2
    PropertyFilterCap = 1
    NoRead = NoRead
    MaxTime = 2
INVARIANT TypeOK
INVARIANT CallersAuthorized
INVARIANT ReadsJustified
INVARIANT RefusalsJustified
PROPERTY QueriesAnswered
PROPERTY ImplementsReadGate
