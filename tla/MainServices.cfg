SPECIFICATION Spec
CONSTANTS
  LastAddress = 8
  NumSensors = 2
  ReadingsToTake = 2
  MaxNumber = 2
  Scenarios = {
    {"comms", "noise", "restart", "giveup", "fix", "format"},
    {"comms", "noise", "restart", "giveup", "fix", "gpsoff", "flash", "live", "format", "erase"},
    {"button", "alive"},
    {"button", "quiet", "restart"},
    {"button", "giveup"}}
INVARIANTS TypeOK ScanConcludes LastSaveCovers ReportedWereTaken  LedFollowsButton
