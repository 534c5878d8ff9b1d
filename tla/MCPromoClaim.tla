----------------------------- MODULE MCPromoClaim -----------------------------
(* Small instances of PromoClaim for TLC.                                  *)
EXTENDS PromoClaim, TLC

CONSTANTS i1, i2, s1, s2

Symmetry == Permutations(Item) \cup Permutations(Selection)
=============================================================================
