----------------------------- MODULE Interning -----------------------------
(***************************************************************************)
(* What object.h promises of strings, whatever the table behind it: asking *)
(* for a text answers the one string there is of it, or makes one; and     *)
(* strings go away only when the collector frees them.                     *)
(***************************************************************************)
CONSTANTS
  Text,      \* what a string may say
  Address,   \* where a string may be
  Free       \* what `pool` says of an address with no string

VARIABLES
  pool,      \* the text of the string at each address
  ret        \* the last text asked for, with the string it got

Init ==
  /\ pool = [a \in Address |-> Free]
  /\ ret = <<"none">>

\* copyString and takeString of a text that there is, and of one there is not.
Found(t) ==
  /\ \E a \in Address : pool[a] = t /\ ret' = <<t, a>>
  /\ UNCHANGED pool
Made(t) ==
  /\ \A a \in Address : pool[a] # t
  /\ \E a \in Address :
       pool[a] = Free /\ pool' = [pool EXCEPT ![a] = t] /\ ret' = <<t, a>>

\* The collector keeps what is marked; closing the state keeps nothing.
Collect ==
  /\ \E marked \in SUBSET Address :
       pool' = [a \in Address |-> IF a \in marked THEN pool[a] ELSE Free]
  /\ UNCHANGED ret

Next == (\E t \in Text : Found(t) \/ Made(t)) \/ Collect

vars == <<pool, ret>>

Spec == Init /\ [][Next]_vars
=============================================================================
