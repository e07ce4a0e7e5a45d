SPECIFICATION Spec
CONSTANTS
    w2 = w2
    w1 = w1
    s1 = s1
    s2 = s2
    f1 = f1
    r1 = r1
    r2 = r2
    r3 = r3
    r4 = r4
    Windows <- OneWindow
    Normal <- TwoSpaces
    Full <- NoSpace
    Strips <- FourStrips
    MaxIndex = 1
    Startup <- TwoRowsEach
    AutoCreate = FALSE
    ReapEmpty = FALSE
    Inputs <- Scripts
INVARIANT WindowsOnce
INVARIANT NoWindowLost
SYMMETRY FixedSymmetry
