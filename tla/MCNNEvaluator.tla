---------------------------- MODULE MCNNEvaluator ----------------------------
(* Values and symmetries for model-checking NNEvaluator.                     *)
EXTENDS NNEvaluator, TLC

CONSTANT Slot

\* Every position falls on the same table entry: collisions always happen.
OneSlot == {Slot}
AllToOneSlot == [k \in Keys |-> Slot]

Symmetry == Permutations(Clients) \cup Permutations(Servers) \cup Permutations(Keys)
=============================================================================
