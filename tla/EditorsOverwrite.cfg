SPECIFICATION Spec
CONSTANTS
  Kinds = {"form"}
  Objects = {a, b}
  NoObject = none
  Data = {d0, d1, d2}
  Empty = d0
  Invalid = {d2}
  MaxRequests = 2
  MaxVersion = 3
INVARIANTS
  NoLostUpdate
