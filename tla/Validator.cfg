SPECIFICATION FairSpec
CONSTANTS
  core = core
  apps = apps
  crds = crds
  apiextensions = apiextensions
  Pod = Pod
  Node = Node
  Options = Options
  CrdOptions = CrdOptions
  Unknown = Unknown
  Widget = Widget
  CRD = CRD
  Deployment = Deployment
  podDef = podDef
  nodeDef = nodeDef
  optionsDef = optionsDef
  crdOptionsDef = crdOptionsDef
  widgetDef = widgetDef
  crdDef = crdDef
  deploymentDef = deploymentDef
  NoGVK = NoGVK
  NoDoc = NoDoc
  NoEntry = NoEntry
  GroupVersion <- MCGroupVersion
  GVK <- MCGVK
  GVOf <- MCGVOf
  Def <- MCDef
  Home <- MCHome
  Claims <- MCClaims
  ScopeExtension <- MCScopeExtension
  NamespacedPaths <- MCNamespacedPaths
  DanglingRefs = {apps}
  Cyclic = {crdDef}
  FetchFaults = {"unavailable", "malformed", "noComponents"}
  CrdGVK <- MCCrdGVK
  Doc <- MCDoc
  MaxCalls = 3
INVARIANTS
  TypeOK
  EntriesExplained
  ValidatedAsDecoded
  OutageImmunity
  ExactVerdicts
PROPERTIES
  NothingForgotten
  CatalogueSpec
  CachedCallsEnd
CHECK_DEADLOCK FALSE
