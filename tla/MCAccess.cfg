SPECIFICATION Spec
CONSTANTS
  Device = {d1}
  Conn = {k1}
  Task = {t1, t2}
  MaxTickets = 1
  MaxSocketTickets = 1
  MaxGen = 1
  MaxFailures = 1
  MaxRestarts = 1
  None = None
SYMMETRY Symmetry
INVARIANTS
  RevokedLetsGo
  BlockedLetsGo
  BlockSurvives
  OpenIsUsable
CHECK_DEADLOCK FALSE
