\* two versions of a schedule, and one fault: a kill, a clash of transactions or a full disk
SPECIFICATION SchedulerSpec
CONSTANTS
  LastTime = 1
  Ads = {"a1", "a2", "a3"}
  Bundles <- TwoVersions
  Absent = Absent
  Short = Short
  MaxPublishes = 1
  MaxFaults = 1
INVARIANTS SchedulerTypeOK TablesWhole FilesMatch
PROPERTIES  TurnComes
