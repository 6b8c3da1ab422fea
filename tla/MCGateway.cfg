SPECIFICATION Spec
CONSTANTS
  echo = echo
  admin = admin
  boot = boot
  watcher = watcher
  r1 = r1
  Services = {echo, admin}
  Controller = echo
  Controls = {boot, watcher}
  Scripts <- MCScripts
  MaxCli = 2
  MaxCallbacks <- MCMaxCallbacks
  Req = {r1}
  ServiceOf <- MCServiceOf
  Visitors <- MCVisitors
  Bindings <- MCBindings
  Deployments <- Production
  Kinds = {"plain"}
INVARIANTS
  NoCrash
  NoLeakedCli
PROPERTIES
  AllServed
  LateRequestsServed
CHECK_DEADLOCK FALSE
