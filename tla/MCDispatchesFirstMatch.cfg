CONSTANTS
  Methods <- MCMethods
  Tables <- MCTables
  Requests <- MCRequests
  BadTokens = {"%"}
  DisablePathLengthFallback = FALSE
  Verbs <- VAndW
  Paths <- TwoColons
  MaxHandlers = 2
SPECIFICATION Spec
CHECK_DEADLOCK FALSE
INVARIANT DispatchesFirstMatch
