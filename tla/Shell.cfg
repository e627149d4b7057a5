SPECIFICATION ShellSpec
CONSTANTS
  ShellKinds = {"pty", "exec"}
  MaxOut = 2
INVARIANTS
  NothingLeft
  AuditComplete
PROPERTIES
  GoneEnds
  IdleEnds
CHECK_DEADLOCK FALSE
