CONSTANTS
  Methods <- MCMethods
  Tables <- MCTables
  Requests <- MCRequests
  BadTokens = {"%"}
  DisablePathLengthFallback = FALSE
  Verbs <- NoVerbOrV
  Paths <- OneColon
  MaxHandlers = 2
SPECIFICATION FairSpec
CHECK_DEADLOCK FALSE
INVARIANTS DispatchesFirstMatch OtherMethodsNoticed OneOutcome
PROPERTY EventuallyAnswered
