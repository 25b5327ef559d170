SPECIFICATION Spec
CONSTANTS
    k1 = k1
    k2 = k2
    docA = docA
    docB = docB
    off = off
    bad = bad
    twin = twin
    s1 = s1
    s2 = s2
    r1 = r1
    r2 = r2
    Keys = {k1, k2}
    BlankKey = BlankKey
    Docs = {docA, docB, off, bad, twin}
    KeyOf <- MCKeyOf
    Valid = {docA, docB, off, twin}
    Enabled = {docA, docB, bad, twin}
    ZeroSource = ZeroSource
    Missing = Missing
    Gone = Gone
    Scopes = {s1, s2}
    ScopeOf <- MCScopeOf
    RouteKey <- MCRouteKey
    Environments <- MCEnvironments
INVARIANT TypeOK
INVARIANT AcceptedModesAssemble
INVARIANT AckedHasTables
INVARIANT MemoryAnswers
PROPERTY AckedSurvives
