SPECIFICATION Spec
CONSTANTS
  Device = {d1}
  Conn = {k1, k2}
  Task = {t1}
  MaxTickets = 1
  MaxSocketTickets = 1
  MaxGen = 1
  MaxFailures = 0
  MaxRestarts = 0
  None = None
PROPERTY LeaseReturned
CHECK_DEADLOCK FALSE
