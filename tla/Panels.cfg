SPECIFICATION Spec
CONSTANTS
  Kinds = {"firewall", "containers", "services"}
  Rules = {a, b}
  Units = {u}
  NoThing = none
  MaxRequests = 2
  MaxVersion = 3
  MaxLeave = 1
INVARIANTS
  TypeOK
PROPERTIES
  WrongRuleHasCause
  RunningRemovedKnowingly
  ShowsHost
