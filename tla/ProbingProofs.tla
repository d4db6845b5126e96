--------------------------- MODULE ProbingProofs ---------------------------
(***************************************************************************)
(* What both tables rest on: the order in which a probe loop visits the    *)
(* slots, and the room that growing makes.                                 *)
(***************************************************************************)
EXTENDS Probing, FiniteSetTheorems, TLAPS

\* A key's home is a slot of the array (hash % capacity).
LEMMA HomeIsSlot ==
  ASSUME NEW k, Hash[k] \in Nat, NEW n \in Nat, n > 0
  PROVE  Home(k, n) \in Slots(n)
BY DEF Home, Slots

\* The probe loop visits the slots of the array one after the other: for one
\* key, `Before` is a strict total order on them.
LEMMA ProbeOrder ==
  ASSUME NEW k, Hash[k] \in Nat, NEW n \in Nat, n > 0,
         NEW x \in Slots(n), NEW y \in Slots(n), NEW z \in Slots(n)
  PROVE  /\ ~Before(k, x, x, n)
         /\ Before(k, x, y, n) /\ Before(k, y, z, n) => Before(k, x, z, n)
         /\ x # y => Before(k, x, y, n) \/ Before(k, y, x, n)
         /\ ~(Before(k, x, y, n) /\ Before(k, y, x, n))
<1>1. Home(k, n) \in Slots(n) BY HomeIsSlot
<1>. QED BY <1>1 DEF Before, Distance, Slots

\* The array has n slots; any set of them is finite.
LEMMA SlotsFinite ==
  ASSUME NEW n \in Nat
  PROVE  /\ IsFiniteSet(Slots(n)) /\ Cardinality(Slots(n)) = n
         /\ \A S \in SUBSET Slots(n) : IsFiniteSet(S) /\ Cardinality(S) \in Nat
<1>1. IsFiniteSet(Slots(n)) /\ Cardinality(Slots(n)) = n
  BY FS_Interval DEF Slots
<1>2. \A S \in SUBSET Slots(n) : IsFiniteSet(S) /\ Cardinality(S) \in Nat
  BY <1>1, FS_Subset, FS_CardinalityType
<1>. QED BY <1>1, <1>2

\* GROW_CAPACITY makes room: the next size holds one entry more than the load
\* limit of the present one.
LEMMA GrowthMakesRoom ==
  ASSUME NEW n \in Nat, n = 0 \/ n >= MinCapacity
  PROVE  /\ GrowCapacity(n) \in Nat /\ GrowCapacity(n) >= MinCapacity
         /\ MaxLoad(n) + 1 <= MaxLoad(GrowCapacity(n))
  BY ProbingAssumption DEF GrowCapacity, MaxLoad
=============================================================================
