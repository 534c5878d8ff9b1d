------------------------------- MODULE MCTagging -------------------------------
(* Instances for TLC: manual edits against one classification, two         *)
(* classifications against edits of the taxonomy, and edits of one edge.   *)
EXTENDS Tagging, TLC

CONSTANTS t1, t2, n1, e1, w1, w2, p1, p2

Lifecycles == (t1 :> "initialize_missing") @@ (t2 :> "reclassify_existing")
Manual == {"replace", "exit"}
Rivalries ==
  {[tasks |-> {t1, t2}, edges |-> {}, kinds |-> Manual,
    requests |-> 2, mishaps |-> 1],
   [tasks |-> {}, edges |-> {}, kinds |-> Manual,
    requests |-> 3, mishaps |-> 2],
   [tasks |-> {t1, t2}, edges |-> {}, kinds |-> {"keywords", "status"},
    requests |-> 2, mishaps |-> 0],
   [tasks |-> {t2}, edges |-> {}, kinds |-> Manual \cup {"status"},
    requests |-> 3, mishaps |-> 0]}
  \cup {[tasks |-> {}, edges |-> there,
         kinds |-> {"approve", "deactivate", "status"},
         requests |-> 3, mishaps |-> 1] : there \in SUBSET Edge}
Symmetry == Permutations(Worker) \cup Permutations(Proc)
=============================================================================
