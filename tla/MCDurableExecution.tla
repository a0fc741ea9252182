------------------------- MODULE MCDurableExecution -------------------------
(* DurableExecution on small sets of identifiers, which are alike.         *)
EXTENDS DurableInvariant, TLC

IdSymmetry == Permutations(Keys) \cup Permutations(Tasks) \cup Permutations(Attempts)
=============================================================================
