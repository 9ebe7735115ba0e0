SPECIFICATION CallSpec
CONSTANTS
  Positions = {p1, p2}
  Flow <- AlienFlow
  ReleasedKeys <- AlienReleasedKeys
  MissLimit = 2
  MaxAttempts = 2
  Configs = {"valid"}
  MaxRuns = 1
INVARIANT NeverIncomplete
