SPECIFICATION FairSpec

CONSTANTS
  Processors = {p1}
  Stream <- JunkBehind
  MaxCaptures = 4
  MaxAttempts = 1
  MaxFaults = 1
  Unreadable = {1}

INVARIANTS
  TypeOK
  OwnerHoldsRow
PROPERTIES
  CompletedIsFinal
  ImplementsQueue
  EventuallyCaptured
  EventuallyCompleted

\* The model stops where MaxCaptures is used up; the code does not.
CHECK_DEADLOCK FALSE
