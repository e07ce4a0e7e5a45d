SPECIFICATION Spec
CONSTANTS
    a = a
    b = b
    c = c
    A = A
    B = B
    NoWindow = NoWindow
    Windows <- Three
    Apps <- TwoApps
    Owner <- Own
    Rows = 2
    Floating <- OnlyC
    Background <- OnlyB
    Tabs <- TabAB
    Outlasting <- None
    Start <- OnlyA
    Hasty = FALSE
    MaxNaming = 1
    MaxInputs = 3
INVARIANT TiledOnce
INVARIANT FollowsOS
PROPERTY ReturnsToRow
CHECK_DEADLOCK FALSE
