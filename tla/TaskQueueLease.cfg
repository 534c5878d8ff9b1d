\* Two workers compete for one item, with every request and a crash
SPECIFICATION FairSpec
CONSTANTS
  t1 = t1  pause = pause  resume = resume  abort = abort  retry = retry
  Worker = {w1, w2}
  Task = {t1}
  Item = {i1}
  Request = {pause, resume, abort, retry}
  TaskOf <- OneTask
  OpOf <- MCOpOf
  TargetOf <- AllAtOne
  MaxAttempts = 2
  MaxCrashes = 1
  NoOne = NoOne
INVARIANTS TermsUnique EffectOnce
PROPERTIES WritesInOrder LiveLeaseKept TasksFinish
\* every item settled and every request used: the queue may come to rest
CHECK_DEADLOCK FALSE
