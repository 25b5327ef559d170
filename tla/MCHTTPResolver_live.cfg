SPECIFICATION FairSpec
CONSTANTS
    k1 = k1
    k2 = k2
    docA = docA
    docB = docB
    docZ = docZ
    untagged = untagged
    off = off
    invalid = invalid
    ea = ea
    eb = eb
    c1 = c1
    c2 = c2
    Keys = {k1, k2}
    BlankKey = BlankKey
    Docs = {docA}
    KeyOf <- MCKeyOf
    Valid <- MCValid
    Enabled <- MCEnabled
    ZeroSource = ZeroSource
    Missing = Missing
    Gone = Gone
    Calls = {c1}
    ETags = {ea, eb}
    NoETag = NoETag
    ETagOf <- MCETagOf
    TTL = 1
    MaxTime = 1
    SpuriousNotModified = TRUE
    KeysAlias = TRUE
PROPERTY CallsReturn
