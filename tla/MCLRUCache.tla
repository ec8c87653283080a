----------------------------- MODULE MCLRUCache -----------------------------
(* Four keys for a cache of three: items leave from the front, the middle   *)
(* and the back of the list, and every Set of the missing key evicts.  The  *)
(* keys are interchangeable: nothing in the cache compares them.            *)
EXTENDS LRUCache, TLC

KeySymmetry == Permutations(Keys)
=============================================================================
