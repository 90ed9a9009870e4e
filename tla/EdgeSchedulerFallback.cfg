\* a second version is published, nothing fails
SPECIFICATION FairSchedulerSpec
CONSTANTS
  LastTime = 1
  Ads = {"a1", "a2", "a3"}
  Bundles <- TwoVersions
  Absent = Absent
  Short = Short
  MaxPublishes = 1
  MaxFaults = 0
PROPERTIES FallbackLast
