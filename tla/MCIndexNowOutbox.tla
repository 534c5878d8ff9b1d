--------------------------- MODULE MCIndexNowOutbox ---------------------------
(* Instances for TLC: one or two outbox rows with an attempt budget of     *)
(* two, items claimed at most twice.                                       *)
EXTENDS IndexNowOutbox, TLC

HandlerSymmetry == Permutations(Handler)
=============================================================================
