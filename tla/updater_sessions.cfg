SPECIFICATION FairSpec
CONSTANTS
  WaitTries = 2
  ReplaceTries = 3
  MaxSessions = 3
  TmpMayVanish = TRUE
CHECK_DEADLOCK FALSE
INVARIANTS TypeOK KeepsACopy ExitZeroMeansUpdated FailureMeansNotUpdated
PROPERTIES OldKeptUntilChecked FreshInstall InstallsForward NeverGoesRound Settles AhkNeverBlocks
