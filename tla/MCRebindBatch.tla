---------------------------- MODULE MCRebindBatch ----------------------------
(* Instances for TLC: two batches over two articles in one locale.         *)
EXTENDS RebindBatch, TLC

CONSTANTS t1, t2, a1, a2, n1, n2, m1, m2, x1

Bound == (a1 :> n1) @@ (a2 :> n2)
\* Both batches select a1; t2 wants the novel t1 wants for a2.
Targets == (t1 :> ((a1 :> m1) @@ (a2 :> m2))) @@ (t2 :> (a1 :> m2))
Demanded ==
  {[batches |-> {t1}, editors |-> {x1}, mishaps |-> 1],
   [batches |-> {t1, t2}, editors |-> {}, mishaps |-> 0]}
=============================================================================
