SPECIFICATION LoadSpec
CONSTANTS
  a = a
  b = b
  c = c
  Missing = Missing
  None = None
  Def <- MCDef
  Early = {"properties"}
  Late = {"items"}
  Kinds = {a}
  Field = {"properties"}
  Documents <- MCDocuments
  RawDocuments <- MCRawDocuments
  Manifests <- MCManifests
INVARIANTS
  TypeOK
  NeverMisled
  OrderIndependent
  LeftoversExplained
  MarksOrderIndependent
  RefusedRightly
  NullsSurvive
  NoInvalidDefaults
CHECK_DEADLOCK FALSE
