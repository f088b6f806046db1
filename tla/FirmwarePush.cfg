\* The bus loses and garbles messages, either end is late and restarts, and flash writes
\* fail. No symmetry: it is not sound for liveness.
SPECIFICATION FairSpec
CONSTANTS
  Blocks = {1, 2, 3}
  Images = {new}
  Size = 2
  PipeSize = 1
  Faults = {"noise", "slow", "reset", "write", "room"}
INVARIANTS
  TypeOK
  StatusCurrent
  AlwaysRoom
PROPERTIES
  Installs
  PushTakes
  ModuleReturns
