SPECIFICATION Spec
CONSTANTS
    a = a
    b = b
    c = c
    NoWindow = NoWindow
    Windows <- Two
    ViewWidth = 4
    ViewHeight = 5
    MinHeight = 2
    Sliver = 1
    ParkedSliver = 1
    Tolerance = 0
    Widths <- TwoOrThree
    Heights <- TwoOrThree
    Configs <- MostConfigs
    MaxInputs = 2
    Layouts <- TwoLayouts
    HiddenToo = FALSE
INVARIANT RestIsTiled
INVARIANT ColumnsFill
INVARIANT AskedIsShown
PROPERTY ManualStays
