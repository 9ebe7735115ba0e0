SPECIFICATION FairSpec
CONSTANTS
  Positions = {p1, p2}
  Flow <- WagonFlow
  ReleasedKeys <- WagonReleasedKeys
  MissLimit = 2
  MaxAttempts = 2
  Configs = {"valid", "badColor"}
  MaxRuns = 2
PROPERTIES KeepsPromise EventuallyEnds
