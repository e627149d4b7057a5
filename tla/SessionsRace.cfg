SPECIFICATION Spec
CONSTANTS
  Workers = {w1, w2}
  SessionIds = {s1, s2, s3}
  DBFaults = TRUE
  Users = {u1}
  MaxPassword = 1
  None = None
SYMMETRY Symmetry
VIEW ButAudit
INVARIANTS
  LiveParentInFlight
  InvalidMeansDead
PROPERTIES
  RetiredTokenIsSterile
  StaleCredentialDiesOut
