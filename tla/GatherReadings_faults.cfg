\* Every fault of the link and of timing together, and resets of the board.
SPECIFICATION Spec
CONSTANTS
  NumSensors = 2
  ReadingsToTake = 1
  MaxGathers = 2
  MaxLog = 1
  Faults = {"lag", "bus", "noise", "corrupt", "stall", "slow", "reset"}
INVARIANTS
  EnqueueAssertHolds
  IdleLink
  RecordedOnce
  NeverTakenFromComplete
