SPECIFICATION FairSpec
CONSTANTS
  Windows = {w1, w2}
  Pids = {1, 2}
  IniValues = {1, 6, 20, 40}
  Malformed = Malformed
  Minute = 2
  MinPeriod = 4
  MaxPeriod = 30
  WordSize = 128
  MaxSize = 1
INVARIANTS TypeOK TimerStaysArmed NoHandleLeaks SessionIsolation
PROPERTIES IntervalTakesEffect NearsItsEnd CycleEnds
