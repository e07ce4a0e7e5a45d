SPECIFICATION FairSpec
CONSTANTS
  sEmpty = sEmpty
  sBar = sBar
  eFocus = eFocus
  eHidden = eHidden
  cBar = cBar
  cNone = cNone
  Scripts = {sEmpty, sBar}
  Empty = sEmpty
  Broken = broken
  Events = {eFocus, eHidden}
  Observable = {eFocus}
  Listeners <- McListeners
  Binds <- McBinds
  Strings <- McStrings
  Setup <- McSetup
  NoConfig = cNone
  MaxSends = 2
  MaxEdits = 1
  MaxCommands = 1
  ExecWorkers = 1
  GracePolls = 1
INVARIANTS  BatchReads BindsNotOlder ConfigLands
PROPERTIES ReadsAnswered ExitEnds
CHECK_DEADLOCK FALSE
