---------------------------- MODULE MCCacheQueue ----------------------------
(* CacheQueue for TLC: three items are the fewest for which an item in the *)
(* middle of the list can be moved or removed; the fourth item adds a      *)
(* second interior position.                                               *)
EXTENDS CacheQueue, TLC

Symmetry == Permutations(Files)
=============================================================================
