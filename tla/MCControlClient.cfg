SPECIFICATION PageSpec
CONSTANTS
  MaxFaults = 3
  MaxHides = 1
  MaxPastes = 2
  MaxAsks = 1
INVARIANT NoLeftovers
PROPERTY Reconnects
CHECK_DEADLOCK FALSE
