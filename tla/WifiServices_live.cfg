SPECIFICATION FairSpec
CONSTANTS
  Capacity = 2
  FinalBlock = 0
  MaximumTries = 2
  MaxData = 1
  Faults = {"erase", "open", "early"}
  MaxFaults = 1
  Offsets = {1}
  Lengths = {0}
PROPERTY Rests
