SPECIFICATION Spec
CONSTANTS
  r1 = r1
  r2 = r2
  a = a
  b = b
  Reg = {r1, r2}
  Client = {c1}
  Task = {q1}
  Project = {a, b}
  ProjectOf <- TwoProjects
  None = None
  MaxLaunches = 2
  MaxBrowsers = 1
  MaxProcess = 2
INVARIANTS
  CookiesDie
  UnlistedStops
PROPERTY CutEnds
CHECK_DEADLOCK FALSE
