SPECIFICATION Spec
CONSTANTS
  a1 = a1  a2 = a2  n1 = n1  n2 = n2  p1 = p1  p2 = p2  NoOne = NoOne
  Article <- OneArticle  Novel <- OneNovel  Home = n1  Old <- OneArticle
  ArticleLocale <- Locales  NovelLocale <- English
  Proc <- TwoProcs  MaxRequests = 3  MaxMishaps = 0
INVARIANT PublicAlwaysHasBody
CHECK_DEADLOCK FALSE
