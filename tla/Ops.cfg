SPECIFICATION Spec
CONSTANTS
    a = a
    b = b
    c = c
    D1 = D1
    D2 = D2
    S = S
    T = T
    Windows <- Abc
    DisplayOrder <- TwoDisplays
    SpacesOf <- Spaces2
    OSSpace <- OnS
    MaxIndex = 1
    Asks <- AllOps
    World <- Changes
    MaxOps = 2
    MaxEvents = 1
    Start <- Mixed
INVARIANTS TiledOnce Predicted
PROPERTY KeepsWindows
CHECK_DEADLOCK FALSE
