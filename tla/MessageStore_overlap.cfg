SPECIFICATION Spec

CONSTANTS
  Processors = {p1, p2}
  Stream <- CreateDelete
  MaxCaptures = 3
  MaxAttempts = 2
  MaxFaults = 1
  Unreadable = {}

SYMMETRY ProcessorSymmetry
INVARIANTS
  NoMessageSkipped
  FirstAttemptsInOrder
  RecapturedOnlyIfArchived
  CompletedIsHandled
  TxLogTellsCompletion


\* The model stops where MaxCaptures is used up; the code does not.
CHECK_DEADLOCK FALSE
