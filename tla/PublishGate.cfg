SPECIFICATION Spec
CONSTANTS
  a1 = a1  a2 = a2  n1 = n1  n2 = n2  p1 = p1  p2 = p2  NoOne = NoOne
  Article <- TwoArticles  Novel <- TwoNovels  Home = n1  Old <- SecondArticle
  ArticleLocale <- Locales  NovelLocale <- English
  Proc <- TwoProcs  MaxRequests = 3  MaxMishaps = 1
INVARIANTS PublicHasBody AnnouncedOnce TakedownCovers
PROPERTY NothingPublishedOverTakedown
SYMMETRY ProcSymmetry
CHECK_DEADLOCK FALSE
