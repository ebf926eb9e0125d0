SPECIFICATION Spec
CONSTANTS
  Replicas = {g1, g2}
  Clients = {c1}
  AuthRPS = 1
  AuthBurst = 1
  GeneralRPS = 1
  GeneralBurst = 0
  MaxTime = 2
  MaxAsked = 3
SYMMETRY Symmetry
INVARIANTS
  WithinLimit
  RoomLeft
  EndpointsGuarded
