SPECIFICATION Spec
CONSTANTS
  widget = widget
  gadget = gadget
  None = None
  Kind <- MCKind
  GroupVersion = {"v1", "v2"}
  Disks <- MCDisks
  MaxLosses = 0
INVARIANT
  DecodeErrorsReturned
CHECK_DEADLOCK FALSE
