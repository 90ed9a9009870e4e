\* two plays and a fault row in batches of two, any two faults or rollbacks
SPECIFICATION FairSpec
CONSTANTS
  Logs = {p1, p2, f1}
  FaultRows = {f1}
  Providers = {"typed", "raw"}
  BatchLimit = 2
  MaxFaults = 2
INVARIANTS TypeOK LogsAccounted
PROPERTIES LedgerSpec EventuallySettled
CHECK_DEADLOCK FALSE
