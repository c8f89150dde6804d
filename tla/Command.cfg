SPECIFICATION FairSpec
CONSTANTS
  Running = Running
  Node <- MCNode
  KindOf <- MCKindOf
  Children <- MCChildren
  Documents <- MCDocuments
  Args <- MCArgs
  Formats = {"human", "json"}
INVARIANTS
  TypeOK
  FilesFound
  EveryDocumentReported
  ExitMatchesReport
PROPERTIES
  Finishes
CHECK_DEADLOCK FALSE
