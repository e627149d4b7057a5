SPECIFICATION Spec
CONSTANTS
  Tabs = {t1, t2}
  NoTab = none
  MaxSessions = 2
  MaxUser = 2
  MaxFaults = 1
INVARIANTS
  PunishedWithCause
  TwoFactorShown
PROPERTIES
  SplashEnds
  SignedInComesBack
CHECK_DEADLOCK FALSE
