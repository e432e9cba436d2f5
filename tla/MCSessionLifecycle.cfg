SPECIFICATION Spec
CONSTANTS
  MaxCreated = 2
  Handler = {h1, h2}
  Label = {new}
  FirstLabel = old
  MaxSessions = 1
  MaxFailures = 1
  MaxRestarts = 1
  Nobody = Nobody
  NoRow = NoRow
INVARIANTS
  WithinLimit
  ListedIsStored
  RenameKept
PROPERTY ExitArchived
CHECK_DEADLOCK FALSE
