SPECIFICATION LiveSpec
CONSTANTS
  MaxToggles = 2
  MaxMac = 1
  MaxSessions = 1
  MaxFaults = 1
  Client = {c1, c2}
  MaxClients = 2
  MaxWorkers = 2
  MaxQueue = 2
  MaxChannelFaults = 2
INVARIANTS ChoicesSubmittedOnce
PROPERTIES NewerChoiceKept Converges Reestablished
CHECK_DEADLOCK FALSE
