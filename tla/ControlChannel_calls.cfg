\* Three calls at every limit; crashes, stalls and reconnects.
SPECIFICATION Spec
CONSTANTS
  c1 = c1
  c2 = c2
  c3 = c3
  Client <- ThreeClients
  MaxClients = 2
  MaxWorkers = 2
  MaxQueue = 1
  MaxFaults = 2
CONSTRAINT TwoFaultsTwoCalls
SYMMETRY ClientSymmetry
INVARIANTS  NoCallForgotten
PROPERTY ImplementsCalls
CHECK_DEADLOCK FALSE
