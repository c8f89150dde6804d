SPECIFICATION Spec
CONSTANTS
  builtin = builtin
  batch = batch
  crd = crd
  None = None
  CurrentContext = "current"
  GroupVersion <- MCGroupVersion
  Offers <- MCOffers
  Defs <- MCDefs
  Flags <- MCFlags
  MaxCalls = 4
INVARIANTS
  TypeOK
  FetchersFollowChoice
  AllOrNothing
  ComponentsMissingOnlyAlone
  NamesInPriorityOrder
CHECK_DEADLOCK FALSE
