\* a queue of two, files of up to four frames, two plays, one fault, two REBOOTs
SPECIFICATION FairSpec
CONSTANTS
  MaxQueue = 2
  MaxFrames = 4
  MaxPlays = 2
  MaxFaults = 1
  MaxReboots = 2
INVARIANTS TypeOK FramesInOrder SnapshotReads
PROPERTIES TurnsAgain RebootServed
CHECK_DEADLOCK FALSE
