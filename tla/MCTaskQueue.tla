----------------------------- MODULE MCTaskQueue -----------------------------
(* Small instances of TaskQueue for TLC: one task, every request aimed at  *)
(* it.                                                                     *)
EXTENDS TaskQueue, TLC

CONSTANTS t1, pause, resume, abort, retry

MCOpOf ==
  [r \in Request |->
     CASE r = pause -> "pause" [] r = resume -> "resume"
       [] r = abort -> "abort" [] r = retry -> "retry"]

OneTask == [i \in Item |-> t1]
AllAtOne == [r \in Request |-> t1]

Symmetry == Permutations(Worker) \cup Permutations(Item)
=============================================================================
