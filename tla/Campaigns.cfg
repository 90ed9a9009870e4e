\* two requests at a time, four in all, one outage that begins or ends, one restart
SPECIFICATION Spec
CONSTANTS
  Requests = {r1, r2}
  Schedules = {good, bad}
  Valid = {good}
  Nothing = Nothing
  MaxVersion = 3
  MaxCalls = 4
  MaxChanges = 2
  MaxRestarts = 1
SYMMETRY Threads
INVARIANTS TypeOK ServedValidated DeletedStays
PROPERTIES VersionsStay
CHECK_DEADLOCK FALSE
