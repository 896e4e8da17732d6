---------------------------- MODULE MCCacheStats ----------------------------
(* A direct-mapped data cache of two sets, an instruction cache of one line  *)
(* and an l2 of one set with two ways: fewer lines than the program touches. *)
EXTENDS CacheStats

SmallSets == [c \in Caches |-> IF c = "dc" THEN 2 ELSE 1]
SmallWays == [c \in Caches |-> IF c = "l2" THEN 2 ELSE 1]
=============================================================================
