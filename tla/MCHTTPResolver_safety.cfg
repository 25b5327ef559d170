SPECIFICATION Spec
CONSTANTS
    k1 = k1
    k2 = k2
    docA = docA
    docB = docB
    docZ = docZ
    untagged = untagged
    off = off
    invalid = invalid
    ea = ea
    eb = eb
    c1 = c1
    c2 = c2
    Keys = {k1}
    BlankKey = BlankKey
    Docs = {docA, docB, docZ, untagged, off, invalid}
    KeyOf <- MCKeyOf
    Valid <- MCValid
    Enabled <- MCEnabled
    ZeroSource = ZeroSource
    Missing = Missing
    Gone = Gone
    Calls = {c1, c2}
    ETags = {ea, eb}
    NoETag = NoETag
    ETagOf <- MCETagOf
    TTL = 1
    MaxTime = 2
    SpuriousNotModified = FALSE
    KeysAlias = FALSE
SYMMETRY Symmetry
INVARIANT TypeOK
INVARIANT CacheSound
PROPERTY ImplementsAuthority
