SPECIFICATION FairSpec
CONSTANTS
  Article = {1, 2}  Locale = {1, 2}  LocaleOf <- OneEach
  MaxTasks = 2  MaxAttempts = 2  Worker = {w1, w2}  Handler = {1, 2}
  MaxMishaps = 1  MaxAges = 1
  NoTask = NoTask  NoHandler = NoHandler  NoWorker = NoWorker
INVARIANTS ServedIsComplete GenerationsApart
PROPERTY AnnouncedStaysListed
CHECK_DEADLOCK FALSE
