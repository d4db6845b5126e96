------------------------------- MODULE MCHeap -------------------------------
(***************************************************************************)
(* Heap on a handful of addresses, that are all alike, as the texts are. *)
(***************************************************************************)
EXTENDS Heap, TLC

CONSTANTS r1, r2, r3, r4, t1, t2, v1, v2
Alike == Permutations(Ref) \cup Permutations(Text)
=============================================================================
