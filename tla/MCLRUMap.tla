------------------------------ MODULE MCLRUMap ------------------------------
(* Four keys on a map of three: deletions and bumps happen at both ends    *)
(* and in the middle of the list, and every insertion may have to evict.   *)
(* No operator of the map orders or names keys or values: both are         *)
(* interchangeable.                                                        *)
EXTENDS LRUMap, TLC

Symmetry == Permutations(Keys) \cup Permutations(Values)
=============================================================================
