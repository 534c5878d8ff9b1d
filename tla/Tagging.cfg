SPECIFICATION TagSpec
CONSTANTS
  t1 = t1  t2 = t2  n1 = n1  e1 = e1  w1 = w1  w2 = w2  p1 = p1  p2 = p2
  Novel = {n1}  Edge = {e1}
  Task = {t1, t2}  Lifecycle <- Lifecycles
  Worker = {w1, w2}  Proc = {p1, p2}
  MaxAttempts = 2
  Scenes <- Rivalries
  None = None
INVARIANT RecordsAgree
PROPERTY NoBlindWrite
SYMMETRY Symmetry
\* every request answered and every item ended
CHECK_DEADLOCK FALSE
