SPECIFICATION SessSpec
CONSTANTS
  MaxDisplayRetries = 3
  SessionBudgets <- SessionInstances
INVARIANT CleanStopCompletes
CHECK_DEADLOCK FALSE
