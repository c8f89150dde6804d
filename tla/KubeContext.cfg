SPECIFICATION Spec
CONSTANTS
  builtin = builtin
  batch = batch
  crd = crd
  None = None
  CurrentContext = "current"
  GroupVersion <- MCGroupVersion
  Offers <- MCOffers
  Defs <- MCDefs
  Flags <- MCContextFlags
  MaxCalls = 1
INVARIANT
  ContextHonoured
CHECK_DEADLOCK FALSE
