\* Liveness: dead wires, stalls, a readings state that may never return, and
\* WifiQueryModule giving up.
SPECIFICATION FairSpec
CONSTANTS
  NumSensors = 1
  ReadingsToTake = 2
  MaxGathers = 2
  MaxLog = 0
  Faults = {"bus", "stall", "slow", "giveup"}
INVARIANTS
  OwnerDrives
PROPERTIES
  TakeReadingsEnds
  QueryModuleEnds
