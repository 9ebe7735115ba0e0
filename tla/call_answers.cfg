SPECIFICATION FairCallSpec
CONSTANTS
  Positions = {p1}
  Flow <- AlienFlow
  ReleasedKeys <- AlienReleasedKeys
  MissLimit = 2
  MaxAttempts = 1
  Configs = {"valid"}
  MaxRuns = 3
INVARIANTS CallTypeOK OwnAnswer AnswerLeavesGameAlone LeavesNoKeyDown
PROPERTY EventuallyEnds
