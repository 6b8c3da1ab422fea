CONSTANTS
  Malformed = Malformed
  Tok <- MCTok
  EmptyTok <- MCEmptyTok
  UnescapeOne <- MCUnescapeOne
  UnescapeMulti <- MCUnescapeMulti
  Pool <- MCPool
  Programs <- MCPrograms
  PatternVerbs <- MCPatternVerbs
  Paths <- MCPaths
  Templates <- MCTemplates
  RequestVerbs <- MCRequestVerbs
  MaxOps = 4
  MaxPath = 3
SPECIFICATION Spec
CHECK_DEADLOCK FALSE
INVARIANTS StackSafe TailExact ResultMatchesTemplate BindingsMatchTemplate
