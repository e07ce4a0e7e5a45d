SPECIFICATION Spec
CONSTANTS
    w2 = w2
    w1 = w1
    s1 = s1
    s2 = s2
    f1 = f1
    r1 = r1
    r2 = r2
    r3 = r3
    r4 = r4
    Windows <- TwoWindows
    Normal <- OneSpace
    Full <- NoSpace
    Strips <- ThreeRows
    MaxIndex = 2
    Startup <- TwoRows
    AutoCreate = TRUE
    ReapEmpty = TRUE
    Inputs <- Keys
INVARIANT NoSilentDuplicate
INVARIANT OneSelected
INVARIANT RowZeroKept
SYMMETRY Symmetry
