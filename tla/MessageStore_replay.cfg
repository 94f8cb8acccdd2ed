SPECIFICATION Spec

CONSTANTS
  Processors = {p1}
  Stream <- CreateDelete
  MaxCaptures = 4
  MaxAttempts = 2
  MaxFaults = 1
  Unreadable = {}

INVARIANTS
  ReplayIsIdempotent
