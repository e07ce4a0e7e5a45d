SPECIFICATION FairSpec
CONSTANTS
    w1 = w1
    w2 = w2
    c1 = c1
    k1 = k1
    one = one
    two = two
    Null = Null
    None = None
    Refused = Refused
    Workers <- TwoHandlers
    Clients <- OneClient
    Keys <- OneKey
    Values <- Numbers
    Fits <- Small
    Transform <- Count
    Attempts = 2
    Asks <- Script
    MaxRevision = 1
INVARIANT CopiesCurrent
INVARIANT CleanIsSaved
PROPERTY KeepsPromise
PROPERTY CallsReturn
