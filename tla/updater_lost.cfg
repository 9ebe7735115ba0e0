SPECIFICATION Spec
CONSTANTS
  WaitTries = 2
  ReplaceTries = 2
  MaxSessions = 2
  TmpMayVanish = FALSE
CHECK_DEADLOCK FALSE
INVARIANTS FailureKeepsProgram
