SPECIFICATION Spec
CONSTANTS
  EventSets = {{"live"}}
  Networks = 1
  Modules = 1
INVARIANT CurrentNotNull
