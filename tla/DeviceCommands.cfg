\* two captures and a reboot of one device, a command to another, two failures
SPECIFICATION FairSpec
CONSTANTS
  c1 = c1
  c2 = c2
  b1 = b1
  k1 = k1
  d1 = d1
  d2 = d2
  None = None
  Empty = Empty
  Requests = {c1, c2, b1, k1}
  Devices = {d1, d2}
  Kind <- Kinds
  Target <- Targets
  MaxFaults = 2
INVARIANTS TypeOK PicturesOwned SuccessTrue
PROPERTY LateAnswerRecorded
CHECK_DEADLOCK FALSE
