SPECIFICATION Spec
CONSTANTS
  NumSensors = 1
  ReadingsToTake = 1
  MaxGathers = 1
  MaxLog = 0
  Faults = {"noise", "giveup"}
INVARIANT AcquireAssertHolds
