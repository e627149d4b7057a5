SPECIFICATION Spec
CONSTANTS
  Workers = {w1}
  SessionIds = {s1, s2, s3, s4}
  DBFaults = FALSE
  Users = {u1}
  MaxPassword = 1
  None = None
VIEW ButAudit
PROPERTIES
  FamilyContract
  ReuseIsPunished
