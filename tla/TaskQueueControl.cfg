\* Two workers, two items, every administrator operation
SPECIFICATION Spec
CONSTANTS
  t1 = t1  pause = pause  resume = resume  abort = abort  retry = retry
  Worker = {w1, w2}
  Task = {t1}
  Item = {i1, i2}
  Request = {pause, resume, abort, retry}
  TaskOf <- OneTask
  OpOf <- MCOpOf
  TargetOf <- AllAtOne
  MaxAttempts = 1
  MaxCrashes = 0
  NoOne = NoOne
SYMMETRY Symmetry
INVARIANT ParentAgrees
PROPERTIES ControlSticks ImplementsTaskLease
\* every item settled and every request used: the queue may come to rest
CHECK_DEADLOCK FALSE
