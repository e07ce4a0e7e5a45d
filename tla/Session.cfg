SPECIFICATION Spec
CONSTANTS
    a = a
    b = b
    c = c
    s = s
    t = t
    none = none
    Windows <- Abc
    Spaces <- St
    Title <- Titles
    Untitled = none
    DisplayOf <- TwoDisplays
    ActiveSpace = s
    OrderOfSpaces <- InOrder
    DefaultRows = 1
    Floating <- JustC
    Restores = TRUE
    Files <- AnyFile
    Gone <- JustA
    Minimizable <- NoWindow
    Whereabouts <- Mixed
    MaxIndex = 1
    MaxMoves = 1
    MaxStarts = 2
INVARIANT TiledOnce
INVARIANT FrontRow
PROPERTY RestoresPlaces
CHECK_DEADLOCK FALSE
