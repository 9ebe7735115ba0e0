SPECIFICATION Spec
CONSTANTS
  Positions = {p1, p2}
  Flow <- WagonFlow
  ReleasedKeys <- WagonReleasedKeys
  MissLimit = 5
  MaxAttempts = 3
  Configs = {"valid", "badTolerance"}
  MaxRuns = 2
INVARIANTS TypeOK ScreenReadClean MarkerSettled ScreenCleanAtSignal KeysUpAtSignal
  ReadsWithKeysUp SignalIsOurs NeverStopsItself OneSearchPerPulse
PROPERTY NearsEnd
