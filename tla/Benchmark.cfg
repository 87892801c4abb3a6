\* The flows of the benchmark, a queue that fills up, and outages of the broker.
SPECIFICATION LiveSpec
CONSTANTS
  Flows <- MCFlows
  PktsPerFlow = 2
  QueueLimit = 2
  MaxFaults = 1
INVARIANTS
  TypeOK
  CountCovered
  ReportsOwn
PROPERTY
  Ends
CHECK_DEADLOCK FALSE
