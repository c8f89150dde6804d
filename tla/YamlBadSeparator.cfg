SPECIFICATION Spec
CONSTANTS
  MaxLines = 3
  Inputs <- MCInputs
INVARIANT
  ReaderErrorsReported
CHECK_DEADLOCK FALSE
