---------------------------- MODULE MCAttackWave ----------------------------
(* Two addresses on maps of one entry: counts and reports are evicted,     *)
(* expire, and outlive each other.  Nothing orders or names addresses or   *)
(* samples.                                                                *)
EXTENDS AttackWave, TLC

Symmetry == Permutations(Ips) \cup Permutations(Samples)
=============================================================================
