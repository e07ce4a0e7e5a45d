SPECIFICATION Spec
CONSTANTS
    a = a
    b = b
    c = c
    Windows <- Three
    FullscreenWindows <- NoWindow
INVARIANT ColumnShapes
INVARIANT WalkReachesNextColumn
 
