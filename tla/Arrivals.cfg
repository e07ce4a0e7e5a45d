SPECIFICATION MCSpec
CONSTANTS
    p = p
    v = v
    w = w
    d1 = d1
    d2 = d2
    s1 = s1
    s2 = s2
    w1 = w1
    Procs <- MCProcs
    Wins <- MCWins
    Owner <- MCOwner
    Running <- MCProcs
    Forced <- MCForced
    MaxScans = 1
    Screens <- MCScreens
    Spaces <- MCSpaces
    Windows <- MCWindows
    MaxIndex = 1
    MaxChanges = 2
    NoScreen = NoScreen
INVARIANT ActiveAtRest
PROPERTY SetupEnds
PROPERTY Adopted
PROPERTY GoneIsGone
PROPERTY Settles
PROPERTY HousedNeverDies
CHECK_DEADLOCK FALSE
