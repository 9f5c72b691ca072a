\* Writes cut short anywhere, the process going on or restarting.
SPECIFICATION Spec
CONSTANTS
  Garbage = Garbage
  Cuts <- AnyCut
  GenesisCuts <- ShortCut
  MaxHash = 6
  MaxFailures = 5
INVARIANTS TypeOK NoFork LossDetected NoFalseAlarm
PROPERTIES AppendOnly AckedStays
CHECK_DEADLOCK FALSE
