------------------------------ MODULE MCHeaps ------------------------------
(***************************************************************************)
(* One state, under two loads.  In the first any allocation may collect,   *)
(* and only those operations run whose objects are all rooted.  In the     *)
(* second every operation runs, the state is closed and opened again too,  *)
(* and what collects is only nq_gc and gc_collect, between operations.     *)
(***************************************************************************)
EXTENDS MCHeap

VARIABLE pressed     \* which of the two

QuietRoutines ==
  {"load", "discard", "define", "array", "string", "split", "concat", "throw", "compile", "recompile",
   "builtin", "register", "setstring", "setplain", "getglobal", "gc", "close", "reset"}
Quiet == INSTANCE Heap WITH Routines <- QuietRoutines, StackMax <- 2

InitHeaps == Init /\ pressed \in BOOLEAN
NextHeaps == (pressed /\ Next) \/ (~pressed /\ Quiet!Next)
HeapsSpec == InitHeaps /\ [][NextHeaps /\ UNCHANGED pressed]_<<vars, pressed>>
=============================================================================
