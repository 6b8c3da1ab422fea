SPECIFICATION Spec
CONSTANTS
  echo = echo
  admin = admin
  user = user
  g1 = g1
  g2 = g2
  Groups = {g1, g2}
  Services = {echo, admin, user}
  GroupOf <- MCGroupOf
  Controllers = {echo, user}
  Names = {"Get", "Put"}
  Verbs = {"GET", "POST"}
  Programs <- MCPrograms
  Started = {g1}
INVARIANTS
  FilterExact
  RoutesComplete
CHECK_DEADLOCK FALSE
