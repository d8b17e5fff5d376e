CONSTANTS
  Appender = {a1, a2}
  Outside = {}
  Rotator = rot
  MaxMonth = 2
  MaxRows = 4
  MaxCrashes = 2
SPECIFICATION JournalSpec
INVARIANTS JournalTypeOK RotationMends SavedIsSent
PROPERTIES  LockIsReleased
CHECK_DEADLOCK FALSE
