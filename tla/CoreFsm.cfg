\* Every event of the button, the battery, the console and the start; and with live data
\* those that need not keep the core where it is.
SPECIFICATION FairSpec
CONSTANTS
  EventSets = {
    {"minor", "short", "long", "low", "console", "hardware"},
    {"minor", "short", "long", "console", "live"}}
  Networks = 2
  Modules = 1
INVARIANTS
  TypeOK
  ResumesWhereScheduled
  RadioOnWhenUsed
PROPERTY KeepsReturning
