SPECIFICATION FairSpec
CONSTANTS
  h1 = h1  h2 = h2
  Scheduled = 3  Requested = 4  PageSize = 1
  MaxAttempts = 2  Handler = {h1, h2}  MaxGen = 2
  Scenes <- AllScenes
INVARIANTS VerdictTrue BooksCovered
PROPERTIES StagedOnce ScanEnds
CHECK_DEADLOCK FALSE
