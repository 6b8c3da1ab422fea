SPECIFICATION FairSpec
CONSTANTS
  a = a
  b = b
  rest = rest
  none = none
  Threads = {a, b}
  Names = {rest}
  NoName = none
  Sites <- MCSites
  Scripts <- MCScripts
  Setups <- MCSetups
  MaxSize = 3
  MaxTime = 1
INVARIANTS
  LinesKept
  VerbosityExact
PROPERTIES
  FatalExits
  LinesReachDisk
CHECK_DEADLOCK FALSE
