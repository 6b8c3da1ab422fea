SPECIFICATION Spec
CONSTANTS
  Req = {r1}
  Conns <- MCConns
  Bindings <- MCBindings
  Deployments <- Production
  Kinds <- Kind
INVARIANTS
  ErrorsAnswered
CHECK_DEADLOCK FALSE
