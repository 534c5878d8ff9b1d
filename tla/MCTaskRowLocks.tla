---------------------------- MODULE MCTaskRowLocks ----------------------------
(* Small instances of TaskRowLocks for TLC.                                *)
EXTENDS TaskRowLocks, TLC

CONSTANTS t1, t2, i1, i2, i3, pause, resume, abort

MCOpOf ==
  [a \in Admin |-> CASE a = pause -> "pause" [] a = resume -> "resume"
                     [] a = abort -> "abort"]

OneTask == [i \in Item |-> t1]
TwoTasks == [i \in Item |-> IF i = i3 THEN t2 ELSE t1]
AllAtOne == [a \in Admin |-> t1]

Symmetry == Permutations(Worker)
=============================================================================
