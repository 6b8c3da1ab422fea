SPECIFICATION Spec
CONSTANTS
  Requests <- MCRequests
  Numbered <- MCNumbered
  Components <- MCComponents
  JsonName <- MCJsonName
INVARIANTS
  ImportsSound
  RulesGuarded
  ServesDeclared
  EchoReproduced
  RefsResolve
  HandlersDocumented
  FieldsAgree
CHECK_DEADLOCK FALSE
