SPECIFICATION Spec
CONSTANTS
  Clients = {c1, c2}
  Names = {n1, n2}
  MaxBoots = 3
  NumMigrations = 2
  DBFaults = TRUE
INVARIANTS
  SetupPossible
  ServingSound
PROPERTIES
  SetupCloses
  EventuallyServes
CHECK_DEADLOCK FALSE
