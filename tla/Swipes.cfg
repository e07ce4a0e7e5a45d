SPECIFICATION FairSpec
CONSTANTS
    w2 = w2
    w1 = w1
    s1 = s1
    s2 = s2
    f1 = f1
    r1 = r1
    r2 = r2
    r3 = r3
    r4 = r4
    Windows <- OneWindow
    Normal <- TwoSpaces
    Full <- NoSpace
    Strips <- ThreeRows
    MaxIndex = 1
    Startup <- OneRowEach
    AutoCreate = TRUE
    ReapEmpty = FALSE
    Inputs <- Swipes
PROPERTY FollowsTheSpace
