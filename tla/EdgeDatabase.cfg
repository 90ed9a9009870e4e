\* two jobs of the player and of the sync, one report, one failing statement, one kill
SPECIFICATION FairSpec
CONSTANTS
  MaxJobs <- TwoPlays
  MaxErrors = 1
  MaxKills = 1
INVARIANTS TypeOK TransactionsHold LogRowsKept
PROPERTY PendingSettles
CHECK_DEADLOCK FALSE
