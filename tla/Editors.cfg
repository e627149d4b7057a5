SPECIFICATION Spec
CONSTANTS
  Kinds = {"form", "manifest"}
  Objects = {a}
  NoObject = none
  Data = {d0, d1}
  Empty = d0
  Invalid = {}
  MaxRequests = 2
  MaxVersion = 3
INVARIANTS
  ManifestKeepsOthers
  VersionIsOriginal
  RestSurvives
PROPERTIES
  FormCatchesUp
