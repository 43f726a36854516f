SPECIFICATION Spec
CONSTANTS
  Connections = {k1, k2, k3}
  NoConnection = none
  MaxClients = 2
  MaxRequests = 2
INVARIANTS
  RanAsTold
  ThreadsAccounted
PROPERTIES
  RequestsResolved
  DropEnds
CHECK_DEADLOCK FALSE
