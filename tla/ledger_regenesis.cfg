\* A genesis line without its newline, appended to and replaced.
SPECIFICATION Spec
CONSTANTS
  Garbage = Garbage
  Cuts <- NoCut
  GenesisCuts <- UnendedCut
  MaxHash = 4
  MaxFailures = 3
INVARIANT LossDetected
CHECK_DEADLOCK FALSE
