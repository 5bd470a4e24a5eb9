---------------------------- MODULE MC_HashTable ----------------------------
(* A table of three slots and four keys: two keys share the last slot as    *)
(* their home, so that a probe wraps round, the others live at slots 0 and  *)
(* 1.  One key more than slots: a full table is asked for an absent key.    *)
EXTENDS HashTable, TLC

CONSTANTS k1, k2, k3, k4

MCHash == k1 :> 2 @@ k2 :> 2 @@ k3 :> 0 @@ k4 :> 1
=============================================================================
