SPECIFICATION Spec
CONSTANTS
  Capacity = 2
  FinalBlock = 0
  MaximumTries = 2
  MaxData = 1
  Faults = {"write", "erase", "open", "system", "mount", "restart", "partial", "early"}
  MaxFaults = 1
  Offsets = {0, 1}
  Lengths = {1}
INVARIANTS TypeOK CursorSound DataInDoubt MetadataFirst  AnnouncedIsSent OneReply
PROPERTIES Delivers
