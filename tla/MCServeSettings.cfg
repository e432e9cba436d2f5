SPECIFICATION SettingsSpec
CONSTANTS
  Proc = {p1, p2}
  Dns = {n1, n2}
  Media = {m1, m2}
  Absent = Absent
  Other = Other
  None = None
  MaxFaults = 2
INVARIANTS
  OwnedIsRecorded
  ConfigCommitted
PROPERTY RecoveryEnds
