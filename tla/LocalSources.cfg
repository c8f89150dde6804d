SPECIFICATION Spec
CONSTANTS
  widget = widget
  gadget = gadget
  None = None
  Kind <- MCKind
  GroupVersion = {"v1", "v2"}
  Disks <- MCDisks
  MaxLosses = 1
INVARIANTS
  TypeOK
  LastDocumentWins
  OnlyTailsLost
  RefusedForCause
  TreeListed
CHECK_DEADLOCK FALSE
