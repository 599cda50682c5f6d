SPECIFICATION FairSpec
CONSTANTS
  MaxRetries = 2
  Page = 2
  StoreCap = 2
  MaxEvents = 3
  MaxRegistrations = 2
  MaxFaults = 1
INVARIANTS
  TypeOK
  OneRowPerLife
  AttemptsAreRecorded
PROPERTIES
  DueIsDealtWith
CHECK_DEADLOCK FALSE
