\* No transaction is abandoned, and the main loop serves a query within reply_delay unless it
\* was away in the readings state when the query came; a query may arrive undecodable, which
\* the core repairs with a retry.
SPECIFICATION Spec
CONSTANTS
  NumSensors = 3
  ReadingsToTake = 2
  MaxGathers = 3
  MaxLog = 0
  Faults = {"noise"}
INVARIANTS
  TypeOK
  ReplyAnswersQuery
  OnlyEarlyOrphans
PROPERTY SessionSpec
