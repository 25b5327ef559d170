SPECIFICATION FairSpec
CONSTANTS
    w1 = w1
    w2 = w2
    w3 = w3
    r1 = r1
    r2 = r2
    Workers = {w1, w2, w3}
    Routes = {r1, r2}
    PropertyIndexing = TRUE
    Nobody = Nobody
    NoRoute = NoRoute
INVARIANT TypeOK
INVARIANT HeldInSection
INVARIANT WritesHaveTables
INVARIANT NoDDLOnceEnsured
PROPERTY EventsFinish
