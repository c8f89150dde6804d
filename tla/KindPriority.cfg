SPECIFICATION Spec
CONSTANTS
  builtin = builtin
  batch = batch
  crd = crd
  None = None
  CurrentContext = "current"
  GroupVersion <- MCGroupVersion
  Offers <- MCOffers
  Defs <- MCDefs
  Flags <- MCFlags
  MaxCalls = 2
INVARIANT
  KindsInPriorityOrder
CHECK_DEADLOCK FALSE
