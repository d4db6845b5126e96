------------------------------ MODULE Probing ------------------------------
(***************************************************************************)
(* Linear probing, as table.c and object.c both do it: an array of slots   *)
(* 0 to n-1 is searched from the slot a hash gives on, around its end.     *)
(***************************************************************************)
EXTENDS Integers, FiniteSets

CONSTANTS
  Hash,         \* the hash stored in each key
  MinCapacity   \* capacity of the first allocation: 8 in common.h

ASSUME ProbingAssumption == MinCapacity \in Nat /\ MinCapacity >= 2

Slots(n) == 0 .. n - 1
Home(k, n) == Hash[k] % n

\* The number of steps the loop takes from slot a to slot b.
Distance(a, b, n) == IF a <= b THEN b - a ELSE b - a + n

\* The loop looking for k from its home slot visits x before it visits s.
Before(k, x, s, n) == Distance(Home(k, n), x, n) < Distance(Home(k, n), s, n)

\* (int)(capacity * TABLE_MAX_LOAD)
MaxLoad(n) == (3 * n) \div 4
GrowCapacity(n) == IF n < MinCapacity THEN MinCapacity ELSE 2 * n
=============================================================================
