---------------------------- MODULE MCBlockQueue ----------------------------
(* BlockQueue on small instances: threads and items are interchangeable.    *)
EXTENDS BlockQueue, TLC

Symmetry == Permutations(Threads) \cup Permutations(Items)
=============================================================================
