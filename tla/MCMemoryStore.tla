--------------------------- MODULE MCMemoryStore -----------------------------
(* Values for MemoryStore: goroutines that may be exchanged for one another,  *)
(* one target.                                                                *)
EXTENDS MemoryStore, TLC

TwoTimes == 1..2

Alike == Permutations(Clients)
=============================================================================
