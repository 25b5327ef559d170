SPECIFICATION FairSpec
CONSTANTS
    t1 = t1
    t2 = t2
    page1 = page1
    page2 = page2
    tok1 = tok1
    tok2 = tok2
    name1 = name1
    Tabs = {t1, t2}
    URLs = {page1, page2}
    NoURL = NoURL
    Tokens = {tok1, tok2}
    Names = {name1}
    NoIdentity = NoIdentity
    Options <- MCOptions
    MaxTimers = 2
INVARIANT TypeOK
INVARIANT LatestPageReported
INVARIANT OneIdentity
INVARIANT OptedOutUntouched
PROPERTY PagesReported
