------------------------------ MODULE MCTables ------------------------------
(***************************************************************************)
(* The three tables, each on its own: `subject` says which of them a       *)
(* behaviour is about.  Hashes collide, wrap around the end of the array   *)
(* and separate only when it doubles; two texts have the same hash.  Two   *)
(* states compete for the contexts of host functions.                      *)
(***************************************************************************)
EXTENDS HashTable, InternTable, Embedding, TLC

CONSTANTS k1, k2, k3, k4, s1, s2

MCHash == (k1 :> 3) @@ (k2 :> 7) @@ (k3 :> 4) @@ (k4 :> 7)
\* A call with more arguments than are handed on.
MCPlain == {<<"nil">>, <<"data", k1>>}
MCArguments == {<< <<"data", k1>>, <<"nil">>, <<"nil">> >>}

VARIABLE subject     \* "globals", "strings" or "host"

InitTables == Init /\ InitStrings /\ InitHost /\ subject \in {"globals", "strings", "host"}
NextTables ==
  \/ subject = "globals" /\ Next /\ UNCHANGED <<stringVars, hostVars>>
  \/ subject = "strings" /\ NextString /\ UNCHANGED <<vars, hostVars>>
  \/ subject = "host" /\ NextHost /\ UNCHANGED <<vars, stringVars>>
TablesSpec == InitTables /\ [][NextTables /\ UNCHANGED subject]_<<vars, stringVars, hostVars, subject>>
=============================================================================
