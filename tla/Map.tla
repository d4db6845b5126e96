-------------------------------- MODULE Map --------------------------------
(***************************************************************************)
(* What the global-variable store promises its clients, whatever the       *)
(* layout of the table behind it: a partial function from names to values. *)
(* Each operation of table.h is one step and leaves its answer in `ret`.   *)
(***************************************************************************)
CONSTANTS
  Key,     \* the names of the globals
  Value,   \* the values a global may hold
  Absent   \* what `dict` says of a name that is not bound

VARIABLES
  dict,    \* the bindings: Key -> Value \cup {Absent}
  ret      \* the last completed call with the answer it gave

Bound(k) == dict[k] # Absent

Init ==
  /\ dict = [k \in Key |-> Absent]
  /\ ret = <<"none">>

\* tableGet: the value bound to k, or "not found".
Get(k) ==
  /\ ret' = <<"get", k, dict[k]>>
  /\ UNCHANGED dict

\* tableSet: bind k to v; answers whether k was new.
Set(k, v) ==
  /\ dict' = [dict EXCEPT ![k] = v]
  /\ ret' = <<"set", k, ~Bound(k)>>

\* tableDelete: unbind k; answers whether it was bound.
Delete(k) ==
  /\ dict' = [dict EXCEPT ![k] = Absent]
  /\ ret' = <<"delete", k, Bound(k)>>

\* OP_SET_GLOBAL: rebind a declared name, and leave everything as it was when
\* the name is not declared.
Assign(k, v) ==
  /\ dict' = IF Bound(k) THEN [dict EXCEPT ![k] = v] ELSE dict
  /\ ret' = <<"assign", k, Bound(k)>>

Next ==
  \E k \in Key :
    \/ Get(k)
    \/ Delete(k)
    \/ \E v \in Value : Set(k, v) \/ Assign(k, v)

vars == <<dict, ret>>

Spec == Init /\ [][Next]_vars
=============================================================================
