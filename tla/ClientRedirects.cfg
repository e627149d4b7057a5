SPECIFICATION Spec
CONSTANTS
  Tabs = {t1}
  NoTab = none
  MaxSessions = 2
  MaxUser = 2
  MaxFaults = 0
PROPERTIES
  SignedOutComesToLogin
CHECK_DEADLOCK FALSE
