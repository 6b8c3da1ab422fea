SPECIFICATION Spec
CONSTANTS
  Req = {r1}
  Conns <- MCConns
  Bindings <- MCBindings
  Deployments <- MCDeployments
  Kinds <- Kind
INVARIANTS
  OneAnswer
  CallGuarded
  ContextReleased
  MeasuredOnce
PROPERTIES
  KeepsHookContract
  Released
  EventuallyClosed
CHECK_DEADLOCK FALSE
