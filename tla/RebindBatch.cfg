SPECIFICATION FairSpec
CONSTANTS
  t1 = t1  t2 = t2  a1 = a1  a2 = a2  n1 = n1  n2 = n2  m1 = m1  m2 = m2
  x1 = x1
  Batch = {t1, t2}  Article = {a1, a2}  Novel = {n1, n2, m1, m2}
  Bound0 <- Bound
  Target <- Targets
  Exec = {e1, e2}  Editor = {x1}
  Demands <- Demanded
  NoExec = NoExec  NoBatch = NoBatch  NoArticle = NoArticle  NoNovel = NoNovel
INVARIANT RecordsTrue
PROPERTIES OnlyHolderSettles ImplementsLedger BatchEnds
CHECK_DEADLOCK FALSE
