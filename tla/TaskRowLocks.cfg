\* Claims, recoveries, finalizations and holds, with pause, resume, abort
SPECIFICATION Spec
CONSTANTS
  t1 = t1  t2 = t2  i1 = i1  i2 = i2  i3 = i3
  pause = pause  resume = resume  abort = abort
  Worker = {w1, w2}
  Admin = {abort, pause, resume}
  Task = {t1}
  Item = {i1, i2}
  TaskOf <- OneTask
  OpOf <- MCOpOf
  TargetOf <- AllAtOne
  Outcomes = {"success", "failed", "hold", "retry"}
  MaxAttempts = 2
  NoOne = NoOne
SYMMETRY Symmetry
INVARIANTS ParentDerived OnlySweepsDeadlock
PROPERTIES RowsSerial SweepIsComplete
\* every item settled and every request answered: nothing more to do
CHECK_DEADLOCK FALSE
