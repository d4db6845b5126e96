-------------------------- MODULE HashTableProofs --------------------------
(***************************************************************************)
(* For every set of names, every hash and every first capacity: findEntry  *)
(* terminates, no name is lost or duplicated by tombstones and rehashing,  *)
(* and the globals table implements a map.                                 *)
(***************************************************************************)
EXTENDS HashTable, ProbingProofs

\* For a name, the probe loop visits the slots one after the other.
LEMMA BeforeIsOrder ==
  ASSUME NEW k \in Key, NEW n \in Nat, n > 0,
         NEW x \in Slots(n), NEW y \in Slots(n), NEW z \in Slots(n)
  PROVE  /\ ~Before(k, x, x, n)
         /\ Before(k, x, y, n) /\ Before(k, y, z, n) => Before(k, x, z, n)
         /\ x # y => Before(k, x, y, n) \/ Before(k, y, x, n)
         /\ ~(Before(k, x, y, n) /\ Before(k, y, x, n))
<1>1. Hash[k] \in Nat BY ConstantsAssumption
<1>. QED BY <1>1, ProbeOrder

(***************************************************************************)
(* findEntry on a table with unbroken chains                               *)
(***************************************************************************)

\* The slot findEntry returns holds k, or is free while no slot holds k; every
\* slot passed on the way to it is not empty and does not hold k.
LEMMA FindsEntryIsRight ==
  ASSUME NEW n \in Nat, NEW es \in [Slots(n) -> Entry], NEW k \in Key, NEW s \in Slots(n),
         OnceEach(es, n), ChainsUnbroken(es, n), FindsEntry(es, n, k, s)
  PROVE  /\ es[s].key = k \/ ~InUse(es[s])
         /\ ~InUse(es[s]) => \A t \in Slots(n) : es[t].key # k
         /\ \A x \in Slots(n) : Before(k, x, s, n) => es[x].key # k /\ ~IsEmpty(es[x])
<1>. n > 0 BY DEF Slots
<1>k. k # NoKey BY ConstantsAssumption
<1>1. PICK stop \in Slots(n) :
        /\ StopsAt(es, n, k, stop)
        /\ LET passed == {x \in Slots(n) : Before(k, x, stop, n) /\ ~InUse(es[x])}
           IN IF es[stop].key = k \/ passed = {}
                THEN s = stop
                ELSE s \in passed /\ \A x \in passed : ~Before(k, x, s, n)
  BY DEF FindsEntry
<1>2. s = stop \/ Before(k, s, stop, n)
  BY <1>1
<1>3. \A x \in Slots(n) : Before(k, x, s, n) => es[x].key # k /\ ~IsEmpty(es[x])
  <2>. SUFFICES ASSUME NEW x \in Slots(n), Before(k, x, s, n)
                PROVE  Before(k, x, stop, n)
    BY <1>1 DEF StopsAt
  <2>. QED BY <1>2, BeforeIsOrder
<1>4. es[stop].key = k => s = stop
  BY <1>1
<1>5. ASSUME es[stop].key # k
      PROVE  ~InUse(es[s]) /\ \A t \in Slots(n) : es[t].key # k
  <2>1. IsEmpty(es[stop]) BY <1>1, <1>5 DEF StopsAt
  <2>2. ~InUse(es[s]) BY <1>1, <1>5, <2>1 DEF InUse, IsEmpty
  <2>3. ASSUME NEW t \in Slots(n), es[t].key = k
        PROVE  FALSE
    <3>1. InUse(es[t]) BY <2>3, <1>k DEF InUse
    <3>2. CASE Before(k, t, stop, n) BY <3>2, <2>3, <1>1 DEF StopsAt
    <3>3. CASE Before(k, stop, t, n) BY <3>1, <3>3, <2>3, <2>1 DEF ChainsUnbroken
    <3>4. t # stop BY <2>3, <1>5
    <3>. QED BY <3>2, <3>3, <3>4, BeforeIsOrder
  <2>. QED BY <2>2, <2>3
<1>6. es[stop].key = k => InUse(es[s])
  BY <1>4, <1>k DEF InUse
<1>7. es[stop].key = k => es[s].key = k
  BY <1>4
<1>. QED BY <1>3, <1>5, <1>6, <1>7

\* Writing k at the slot findEntry returned keeps every key in one reachable slot.
LEMMA PutKeepsChains ==
  ASSUME NEW n \in Nat, NEW es \in [Slots(n) -> Entry], NEW k \in Key, NEW s \in Slots(n),
         NEW v \in Value,
         OnceEach(es, n), ChainsUnbroken(es, n), FindsEntry(es, n, k, s)
  PROVE  LET after == [es EXCEPT ![s] = [key |-> k, value |-> v]]
         IN OnceEach(after, n) /\ ChainsUnbroken(after, n)
<1>. DEFINE after == [es EXCEPT ![s] = [key |-> k, value |-> v]]
<1>. n > 0 BY DEF Slots
<1>k. k # NoKey BY ConstantsAssumption
<1>1. /\ es[s].key = k \/ ~InUse(es[s])
      /\ ~InUse(es[s]) => \A t \in Slots(n) : es[t].key # k
      /\ \A x \in Slots(n) : Before(k, x, s, n) => es[x].key # k /\ ~IsEmpty(es[x])
  BY FindsEntryIsRight
<1>2. \A t \in Slots(n) : t # s => es[t].key # k
  BY <1>1, <1>k DEF OnceEach, InUse
<1>3. /\ after[s].key = k /\ InUse(after[s]) /\ ~IsEmpty(after[s])
      /\ \A t \in Slots(n) : t # s => after[t] = es[t]
  BY <1>k DEF InUse, IsEmpty
<1>. HIDE DEF after
<1>4. OnceEach(after, n)
  BY <1>2, <1>3 DEF OnceEach
<1>5. ChainsUnbroken(after, n)
  <2>. SUFFICES ASSUME NEW t \in Slots(n), NEW x \in Slots(n),
                       InUse(after[t]), Before(after[t].key, x, t, n)
                PROVE  after[x].key # after[t].key /\ ~IsEmpty(after[x])
    BY DEF ChainsUnbroken
  <2>1. CASE t = s
    <3>1. x # s BY <2>1, <1>3, BeforeIsOrder
    <3>. QED BY <3>1, <2>1, <1>1, <1>3
  <2>2. CASE t # s
    <3>1. x = s => after[x].key # after[t].key BY <2>2, <1>2, <1>3
    <3>. QED BY <3>1, <2>2, <1>3 DEF ChainsUnbroken
  <2>. QED BY <2>1, <2>2
<1>. QED BY <1>4, <1>5 DEF after

\* A tombstone keeps the chains that run through its slot.
LEMMA TombstoneKeepsChains ==
  ASSUME NEW n \in Nat, NEW es \in [Slots(n) -> Entry], NEW s \in Slots(n),
         OnceEach(es, n), ChainsUnbroken(es, n)
  PROVE  LET after == [es EXCEPT ![s] = Tombstone]
         IN OnceEach(after, n) /\ ChainsUnbroken(after, n)
<1>. DEFINE after == [es EXCEPT ![s] = Tombstone]
<1>1. /\ ~InUse(after[s]) /\ ~IsEmpty(after[s]) /\ after[s].key = NoKey
      /\ \A t \in Slots(n) : t # s => after[t] = es[t]
  BY ConstantsAssumption DEF InUse, IsEmpty, Tombstone
<1>. HIDE DEF after
<1>2. OnceEach(after, n)
  BY <1>1 DEF OnceEach, InUse
<1>3. ChainsUnbroken(after, n)
  BY <1>1 DEF ChainsUnbroken, InUse
<1>. QED BY <1>2, <1>3 DEF after

(***************************************************************************)
(* Type correctness                                                        *)
(***************************************************************************)

\* The fields of the table and of the call in progress keep their types.
THEOREM TypeCorrect == Spec => []TypeOK
<1>1. Init => TypeOK
  BY DEF Init, TypeOK, Slots, NoEntries
<1>2. TypeOK /\ [Next]_vars => TypeOK'
  <2>. SUFFICES ASSUME TypeOK, [Next]_vars
                PROVE  TypeOK'
    OBVIOUS
  <2>. USE DEF TypeOK
  <2>a. Empty \in Entry /\ Tombstone \in Entry
    BY ConstantsAssumption DEF Empty, Tombstone, Entry
  <2>e. \A n \in Nat : NoEntries(n) \in [Slots(n) -> Entry]
    BY <2>a DEF NoEntries
  <2>g. GrowCapacity(capacity) \in Nat
    BY ProbingAssumption DEF GrowCapacity
  <2>p. call.phase # "idle" => call \in Call
    BY DEF Idle
  <2>1. ASSUME NEW k \in Key, Get(k)
        PROVE  TypeOK'
    BY <2>1 DEF Get, Answer, copying
  <2>2. ASSUME NEW k \in Key, Delete(k)
        PROVE  TypeOK'
    BY <2>2, <2>a DEF Delete, Remove, Answer, copying
  <2>3. ASSUME NEW op \in {"set", "assign"}, NEW k \in Key, NEW v \in Value, BeginSet(op, k, v)
        PROVE  TypeOK'
    BY <2>3, <2>e, <2>g DEF BeginSet, Phase, Call, copying
  <2>4. CASE CopySlot
    <3>1. newEntries' \in [Slots(newCapacity) -> Entry]
      BY <2>4 DEF CopySlot, Slots
    <3>. QED BY <2>4, <3>1 DEF CopySlot
  <2>5. CASE EndGrow
    BY <2>5, <2>e, <2>p DEF EndGrow, Phase, Call
  <2>6. CASE Put
    <3>1. call \in Call BY <2>6, <2>p DEF Put
    <3>2. [key |-> call.key, value |-> call.value] \in Entry BY <3>1 DEF Call, Entry
    <3>3. entries' \in [Slots(capacity) -> Entry] BY <2>6, <3>2 DEF Put
    <3>4. call' \in {Idle} \cup Call
      <4>1. call' = Idle \/ Phase(call.op, call.key, call.value, "undo")
        BY <2>6 DEF Put, Answer
      <4>2. Phase(call.op, call.key, call.value, "undo") => call' \in Call
        BY <3>1 DEF Phase, Call
      <4>. QED BY <4>1, <4>2
    <3>. QED BY <2>6, <3>3, <3>4 DEF Put, copying
  <2>7. CASE Undo
    BY <2>7, <2>a DEF Undo, Remove, Answer, copying
  <2>8. CASE UNCHANGED vars
    BY <2>8 DEF vars, copying
  <2>. QED BY <2>1, <2>2, <2>3, <2>4, <2>5, <2>6, <2>7, <2>8 DEF Next
<1>. QED BY <1>1, <1>2, PTL DEF Spec

(***************************************************************************)
(* Counting slots                                                          *)
(***************************************************************************)

\* A write that leaves slot s non-empty adds s to the used slots, which grows
\* their number by one exactly when s was empty.
LEMMA UsedAfterWrite ==
  ASSUME NEW n \in Nat, NEW es \in [Slots(n) -> Entry], NEW s \in Slots(n), NEW e \in Entry,
         ~IsEmpty(e)
  PROVE  Cardinality(Used([es EXCEPT ![s] = e], n))
           = IF IsEmpty(es[s]) THEN Cardinality(Used(es, n)) + 1 ELSE Cardinality(Used(es, n))
<1>1. Used([es EXCEPT ![s] = e], n) = Used(es, n) \cup {s}
  BY DEF Used, IsEmpty
<1>2. IsFiniteSet(Used(es, n))
  BY SlotsFinite DEF Used
<1>3. s \in Used(es, n) <=> ~IsEmpty(es[s])
  BY DEF Used
<1>. QED BY <1>1, <1>2, <1>3, FS_AddElement

\* An array whose used slots stay within the load limit has an empty slot.
LEMMA LoadLeavesEmptySlot ==
  ASSUME NEW n \in Nat, NEW es \in [Slots(n) -> Entry],
         Cardinality(Used(es, n)) <= MaxLoad(n)
  PROVE  HasEmptySlot(es, n)
<1>. SUFFICES ASSUME n > 0, \A s \in Slots(n) : ~IsEmpty(es[s])
              PROVE  FALSE
  BY DEF HasEmptySlot
<1>1. Used(es, n) = Slots(n) BY DEF Used
<1>2. Cardinality(Used(es, n)) = n BY <1>1, SlotsFinite
<1>. QED BY <1>2 DEF MaxLoad

\* A cleared array has no used slot.
LEMMA ClearedArray ==
  ASSUME NEW n \in Nat
  PROVE  /\ Cardinality(Used(NoEntries(n), n)) = 0
         /\ OnceEach(NoEntries(n), n) /\ ChainsUnbroken(NoEntries(n), n)
<1>1. \A s \in Slots(n) : NoEntries(n)[s].key = NoKey /\ IsEmpty(NoEntries(n)[s])
  BY DEF NoEntries, Empty, IsEmpty
<1>2. Used(NoEntries(n), n) = {} BY <1>1 DEF Used
<1>. QED BY <1>1, <1>2, FS_EmptySet DEF OnceEach, ChainsUnbroken, InUse

(***************************************************************************)
(* The inductive invariant                                                 *)
(***************************************************************************)

\* The conjuncts of IInv hold of the empty table.
LEMMA IInvInit == Init => IInv
<1>. SUFFICES ASSUME Init PROVE IInv
  OBVIOUS
<1>1. TypeOK BY DEF Init, TypeOK, Slots, NoEntries
<1>2. capacity = 0 /\ entries = NoEntries(0) /\ newEntries = NoEntries(0) /\ newCapacity = 0
      /\ count = 0 /\ call.phase = "idle"
  BY DEF Init, Idle
<1>3. LoadInv BY <1>2, ClearedArray DEF LoadInv, MaxLoad
<1>4. KeysReachable BY <1>2, ClearedArray DEF KeysReachable
<1>5. CopyAgrees BY <1>2 DEF CopyAgrees
<1>. QED BY <1>1, <1>3, <1>4, <1>5 DEF IInv

\* BeginSet either leaves the arrays alone or clears the one to copy into.
LEMMA IInvBeginSet ==
  ASSUME IInv, NEW op \in {"set", "assign"}, NEW k \in Key, NEW v \in Value, BeginSet(op, k, v)
  PROVE  LoadInv' /\ KeysReachable' /\ CopyAgrees'
<1>. USE DEF IInv, TypeOK
<1>i. call = Idle /\ call.phase = "idle" /\ UNCHANGED <<capacity, entries>>
  BY DEF BeginSet, Idle
<1>m. count \in Nat /\ MaxLoad(capacity) \in Nat BY DEF MaxLoad
<1>1. CASE count + 1 <= MaxLoad(capacity)
  <2>1. call'.phase = "put" /\ UNCHANGED <<count, newCapacity, newEntries, next>>
    BY <1>1, <1>m DEF BeginSet, Phase, copying
  <2>. QED BY <2>1, <1>i, <1>1 DEF LoadInv, KeysReachable, CopyAgrees
<1>2. CASE count + 1 > MaxLoad(capacity)
  <2>1. /\ call'.phase = "grow" /\ count' = 0 /\ next' = 0
        /\ newCapacity' = GrowCapacity(capacity) /\ newEntries' = NoEntries(newCapacity')
    BY <1>2, <1>m DEF BeginSet, Phase
  <2>2. newCapacity' \in Nat BY <2>1, GrowthMakesRoom DEF LoadInv
  <2>3. Passed' = {} BY <2>1 DEF Passed, Slots
  <2>4. LoadInv' BY <2>1, <2>2, <2>3, <1>i, ClearedArray, FS_EmptySet DEF LoadInv
  <2>5. KeysReachable' BY <2>1, <2>2, <1>i, ClearedArray DEF KeysReachable
  <2>6. \A s \in Slots(newCapacity') : IsEmpty(newEntries'[s])
    BY <2>1 DEF NoEntries, IsEmpty, Empty
  <2>7. CopyAgrees' BY <2>1, <2>6, <1>i DEF CopyAgrees, Slots
  <2>. QED BY <2>4, <2>5, <2>7
<1>. QED BY <1>1, <1>2, <1>m

\* Copying an old slot: its key is not in the new array yet, where no
\* tombstone exists, so findEntry returns an empty slot.
LEMMA IInvCopySlot ==
  ASSUME IInv, CopySlot
  PROVE  LoadInv' /\ KeysReachable' /\ CopyAgrees'
<1>. USE DEF IInv, TypeOK
<1>i. /\ call.phase = "grow" /\ call'.phase = "grow" /\ next < capacity /\ next' = next + 1
      /\ UNCHANGED <<capacity, entries, newCapacity>>
  BY DEF CopySlot
<1>n. next \in Slots(capacity) /\ next \notin Slots(next) /\ Slots(next') = Slots(next) \cup {next}
  BY <1>i DEF Slots
<1>p. /\ IsFiniteSet(Passed)
      /\ Passed' = IF InUse(entries[next]) THEN Passed \cup {next} ELSE Passed
      /\ next \notin Passed
  BY <1>i, <1>n, SlotsFinite DEF Passed
<1>1. CASE ~InUse(entries[next])
  <2>1. UNCHANGED <<count, newEntries>> BY <1>1 DEF CopySlot
  <2>2. LoadInv' BY <2>1, <1>1, <1>i, <1>p DEF LoadInv
  <2>3. KeysReachable' BY <2>1, <1>i DEF KeysReachable
  <2>4. CopyAgrees' BY <2>1, <1>1, <1>i, <1>n DEF CopyAgrees
  <2>. QED BY <2>2, <2>3, <2>4
<1>2. CASE InUse(entries[next])
  <2>. DEFINE src == entries[next]
  <2>1. PICK s \in Slots(newCapacity) :
          /\ FindsEntry(newEntries, newCapacity, src.key, s)
          /\ newEntries' = [newEntries EXCEPT ![s] = src]
    BY <1>2 DEF CopySlot
  <2>c. count' = count + 1 BY <1>2 DEF CopySlot
  <2>2. src \in Entry /\ src.key \in Key /\ src.value \in Value /\ ~IsEmpty(src)
        /\ src = [key |-> src.key, value |-> src.value]
    BY <1>2, <1>n DEF Entry, InUse, IsEmpty
  <2>3. \A t \in Slots(newCapacity) : newEntries[t].key # src.key
    <3>. SUFFICES ASSUME NEW t \in Slots(newCapacity), newEntries[t].key = src.key
                  PROVE  FALSE
      OBVIOUS
    <3>1. ~IsEmpty(newEntries[t]) BY <1>2 DEF IsEmpty, InUse
    <3>2. PICK u \in Slots(next) : InUse(entries[u]) /\ newEntries[t] = entries[u]
      BY <3>1, <1>i DEF CopyAgrees
    <3>3. u \in Slots(capacity) /\ u # next BY <1>i, <1>n DEF Slots
    <3>. QED BY <3>2, <3>3, <1>n DEF KeysReachable, OnceEach
  <2>4. IsEmpty(newEntries[s])
    <3>1. ~InUse(newEntries[s])
      BY <2>1, <2>2, <2>3, FindsEntryIsRight DEF KeysReachable
    <3>. QED BY <3>1, <1>i DEF CopyAgrees
  <2>5. LoadInv'
    <3>0. newCapacity \in Nat /\ newEntries \in [Slots(newCapacity) -> Entry]
          /\ Cardinality(Used(newEntries, newCapacity)) = count
      BY <1>i DEF LoadInv
    <3>1. Cardinality(Used(newEntries', newCapacity)) = count + 1
      BY <2>1, <2>2, <2>4, <3>0, UsedAfterWrite
    <3>2. Cardinality(Passed') = Cardinality(Passed) + 1 /\ Cardinality(Passed) \in Nat
      BY <1>2, <1>p, FS_AddElement, FS_CardinalityType
    <3>. QED BY <3>1, <3>2, <2>c, <1>i DEF LoadInv
  <2>6. KeysReachable'
    BY <2>1, <2>2, <1>i, PutKeepsChains DEF KeysReachable
  <2>7. CopyAgrees'
    <3>1. /\ newEntries'[s] = src
          /\ \A t \in Slots(newCapacity) : t # s => newEntries'[t] = newEntries[t]
      BY <2>1
    <3>2. \A t \in Slots(next) : InUse(entries[t]) =>
            \E x \in Slots(newCapacity) : x # s /\ newEntries[x] = entries[t]
      BY <2>4, <1>i DEF CopyAgrees, IsEmpty, InUse
    <3>. QED BY <3>1, <3>2, <1>2, <1>i, <1>n DEF CopyAgrees
  <2>. QED BY <2>5, <2>6, <2>7
<1>. QED BY <1>1, <1>2

\* Installing the copy: what held of the new array holds of the table, and
\* there is room for the entry that made it grow.
LEMMA IInvEndGrow ==
  ASSUME IInv, EndGrow
  PROVE  LoadInv' /\ KeysReachable' /\ CopyAgrees'
<1>. USE DEF IInv, TypeOK
<1>1. /\ call.phase = "grow" /\ call'.phase = "put" /\ next = capacity
      /\ capacity' = newCapacity /\ entries' = newEntries
      /\ newCapacity' = 0 /\ newEntries' = NoEntries(0) /\ count' = count
  BY DEF EndGrow, Phase
<1>2. LoadInv'
  <2>1. Passed \subseteq Used(entries, capacity) /\ IsFiniteSet(Used(entries, capacity))
    BY <1>1, SlotsFinite DEF Passed, Used, InUse, IsEmpty
  <2>2. Cardinality(Passed) <= Cardinality(Used(entries, capacity))
    BY <2>1, FS_Subset
  <2>3. Cardinality(Passed) \in Nat /\ Cardinality(Used(entries, capacity)) \in Nat
        /\ MaxLoad(capacity) \in Nat /\ MaxLoad(newCapacity) \in Nat
    BY <2>1, FS_Subset, FS_CardinalityType DEF MaxLoad
  <2>4. count + 1 <= MaxLoad(newCapacity) /\ newCapacity >= MinCapacity
    BY <2>2, <2>3, <1>1, GrowthMakesRoom DEF LoadInv
  <2>. QED BY <2>3, <2>4, <1>1 DEF LoadInv
<1>3. KeysReachable' BY <1>1, ClearedArray DEF KeysReachable
<1>4. CopyAgrees' BY <1>1 DEF CopyAgrees
<1>. QED BY <1>2, <1>3, <1>4

\* Writing the entry: one more used slot at most, and the load allows for it.
LEMMA IInvPut ==
  ASSUME IInv, Put
  PROVE  LoadInv' /\ KeysReachable' /\ CopyAgrees'
<1>. USE DEF IInv, TypeOK
<1>1. call.phase = "put" /\ UNCHANGED <<capacity, newCapacity, newEntries, next>>
  BY DEF Put, copying
<1>2. call \in Call BY <1>1 DEF Idle
<1>3. PICK s \in Slots(capacity) :
        /\ FindsEntry(entries, capacity, call.key, s)
        /\ count' = IF IsEmpty(entries[s]) THEN count + 1 ELSE count
        /\ entries' = [entries EXCEPT ![s] = [key |-> call.key, value |-> call.value]]
  BY DEF Put
<1>4. call'.phase \in {"idle", "undo"}
  <2>1. call' = Idle \/ Phase(call.op, call.key, call.value, "undo")
    BY DEF Put, Answer
  <2>2. call' = Idle => call'.phase = "idle"
    BY DEF Idle
  <2>3. Phase(call.op, call.key, call.value, "undo") => call'.phase = "undo"
    BY DEF Phase
  <2>. QED BY <2>1, <2>2, <2>3
<1>5. LoadInv'
  <2>1. [key |-> call.key, value |-> call.value] \in Entry
        /\ ~IsEmpty([key |-> call.key, value |-> call.value])
    BY <1>2, ConstantsAssumption DEF Call, Entry, IsEmpty
  <2>0. count = Cardinality(Used(entries, capacity)) BY <1>1 DEF LoadInv
  <2>2. Cardinality(Used(entries', capacity)) = count'
    BY <2>0, <2>1, <1>3, UsedAfterWrite
  <2>3. count' <= MaxLoad(capacity)
    BY <1>1, <1>3 DEF LoadInv, MaxLoad
  <2>. QED BY <2>2, <2>3, <1>1, <1>4 DEF LoadInv
<1>6. KeysReachable'
  BY <1>1, <1>2, <1>3, PutKeepsChains DEF KeysReachable, Call
<1>7. CopyAgrees' BY <1>4 DEF CopyAgrees
<1>. QED BY <1>5, <1>6, <1>7

\* tableDelete turns a used slot into a tombstone, which is still counted.
LEMMA IInvRemove ==
  ASSUME IInv, NEW k \in Key, NEW found \in BOOLEAN, Remove(k, found),
         call.phase \in {"idle", "undo"}, call' = Idle
  PROVE  LoadInv' /\ KeysReachable' /\ CopyAgrees'
<1>. USE DEF IInv, TypeOK
<1>1. UNCHANGED <<count, capacity, newCapacity, newEntries, next>> /\ call'.phase = "idle"
  BY DEF Remove, copying, Idle
<1>2. CASE entries' = entries
  BY <1>1, <1>2 DEF LoadInv, KeysReachable, CopyAgrees
<1>3. CASE entries' # entries
  <2>1. PICK s \in Slots(capacity) :
          InUse(entries[s]) /\ entries' = [entries EXCEPT ![s] = Tombstone]
    BY <1>3 DEF Remove
  <2>2. Tombstone \in Entry /\ ~IsEmpty(Tombstone) /\ ~IsEmpty(entries[s])
    BY <2>1, ConstantsAssumption DEF Tombstone, Entry, IsEmpty, InUse
  <2>3. Cardinality(Used(entries', capacity)) = Cardinality(Used(entries, capacity))
    BY <2>1, <2>2, UsedAfterWrite
  <2>4. LoadInv' BY <2>3, <1>1 DEF LoadInv
  <2>5. KeysReachable' BY <2>1, <1>1, TombstoneKeepsChains DEF KeysReachable
  <2>6. CopyAgrees' BY <1>1 DEF CopyAgrees
  <2>. QED BY <2>4, <2>5, <2>6
<1>. QED BY <1>2, <1>3

\* IInv is inductive.
LEMMA IInvNext == IInv /\ TypeOK' /\ [Next]_vars => IInv'
<1>. SUFFICES ASSUME IInv, TypeOK', [Next]_vars
              PROVE  LoadInv' /\ KeysReachable' /\ CopyAgrees'
  BY DEF IInv
<1>1. ASSUME NEW k \in Key, Get(k)
      PROVE  LoadInv' /\ KeysReachable' /\ CopyAgrees'
  <2>1. call.phase = "idle" /\ call'.phase = "idle"
        /\ UNCHANGED <<count, capacity, entries, newCapacity, newEntries, next>>
    BY <1>1 DEF Get, Answer, Idle, copying
  <2>. QED BY <2>1 DEF IInv, LoadInv, KeysReachable, CopyAgrees
<1>2. ASSUME NEW k \in Key, Delete(k)
      PROVE  LoadInv' /\ KeysReachable' /\ CopyAgrees'
  BY <1>2, IInvRemove DEF Delete, Answer, Idle
<1>3. ASSUME NEW op \in {"set", "assign"}, NEW k \in Key, NEW v \in Value, BeginSet(op, k, v)
      PROVE  LoadInv' /\ KeysReachable' /\ CopyAgrees'
  BY <1>3, IInvBeginSet
<1>4. CASE CopySlot BY <1>4, IInvCopySlot
<1>5. CASE EndGrow BY <1>5, IInvEndGrow
<1>6. CASE Put BY <1>6, IInvPut
<1>7. CASE Undo
  <2>1. call.phase = "undo" BY <1>7 DEF Undo
  <2>2. call.key \in Key BY <2>1 DEF IInv, TypeOK, Call, Idle
  <2>. QED BY <1>7, <2>1, <2>2, IInvRemove DEF Undo, Answer
<1>8. CASE UNCHANGED vars
  <2>1. Passed' = Passed BY <1>8 DEF vars, copying, Passed
  <2>. QED BY <2>1, <1>8 DEF IInv, LoadInv, KeysReachable, CopyAgrees, vars, copying
<1>. QED BY <1>1, <1>2, <1>3, <1>4, <1>5, <1>6, <1>7, <1>8 DEF Next

\* IInv holds in every reachable state.
THEOREM Inductive == Spec => []IInv
<1>1. Init => IInv BY IInvInit
<1>2. IInv /\ TypeOK' /\ [Next]_vars => IInv' BY IInvNext
<1>. QED BY <1>1, <1>2, TypeCorrect, PTL DEF Spec

\* findEntry terminates on every table the globals ever have: `count` is the
\* number of slots that are not empty, and one slot always is.
THEOREM FindEntryTerminates == Spec => []ProbesEnd
<1>1. IInv => ProbesEnd
  <2>. SUFFICES ASSUME IInv PROVE ProbesEnd
    OBVIOUS
  <2>. USE DEF IInv, TypeOK
  <2>1. HasEmptySlot(entries, capacity)
    BY LoadLeavesEmptySlot DEF LoadInv
  <2>2. HasEmptySlot(newEntries, newCapacity)
    <3>1. CASE call.phase = "grow"
      <4>0. Slots(next) \subseteq Slots(capacity) BY <3>1 DEF CopyAgrees, Slots
      <4>1. Passed \subseteq Used(entries, capacity) /\ IsFiniteSet(Used(entries, capacity))
        BY <4>0, SlotsFinite DEF Passed, Used, InUse, IsEmpty
      <4>2. Cardinality(Passed) <= Cardinality(Used(entries, capacity))
            /\ Cardinality(Passed) \in Nat /\ Cardinality(Used(entries, capacity)) \in Nat
        BY <4>1, FS_Subset, FS_CardinalityType
      <4>3. MaxLoad(capacity) \in Nat /\ MaxLoad(newCapacity) \in Nat
        BY DEF MaxLoad
      <4>4. Cardinality(Used(newEntries, newCapacity)) <= MaxLoad(newCapacity)
        BY <4>2, <4>3, <3>1, GrowthMakesRoom DEF LoadInv
      <4>. QED BY <4>4, LoadLeavesEmptySlot
    <3>2. CASE call.phase # "grow"
      BY <3>2 DEF LoadInv, HasEmptySlot
    <3>. QED BY <3>1, <3>2
  <2>. QED BY <2>1, <2>2 DEF LoadInv, ProbesEnd
<1>. QED BY <1>1, Inductive, PTL

\* No deletion, reuse of a tombstone or rehash ever loses or duplicates a name.
THEOREM NamesStayReachable == Spec => []KeysReachable
<1>1. IInv => KeysReachable BY DEF IInv
<1>. QED BY <1>1, Inductive, PTL

\* Growing copies every binding and makes none up: at each slot adjustCapacity has
\* come to, the new array holds what the old one has up to there.
THEOREM GrowthKeepsBindings == Spec => []CopyAgrees
<1>1. IInv => CopyAgrees BY DEF IInv
<1>. QED BY <1>1, Inductive, PTL

(***************************************************************************)
(* The table implements a map                                              *)
(***************************************************************************)

\* The binding of a key is the value of the one slot that holds it, if any.
LEMMA LookupFinds ==
  ASSUME NEW n \in Nat, NEW es \in [Slots(n) -> Entry], OnceEach(es, n), NEW k \in Key
  PROVE  /\ \A s \in Slots(n) : es[s].key = k => Lookup(es, n, k) = es[s].value
         /\ (\A s \in Slots(n) : es[s].key # k) => Lookup(es, n, k) = Absent
<1>. DEFINE holding == {s \in Slots(n) : es[s].key = k}
<1>1. ASSUME NEW s \in Slots(n), es[s].key = k
      PROVE  Lookup(es, n, k) = es[s].value
  <2>1. \A t \in holding : t = s
    BY <1>1, ConstantsAssumption DEF OnceEach, InUse
  <2>2. s \in holding BY <1>1
  <2>3. (CHOOSE t \in holding : TRUE) = s BY <2>1, <2>2
  <2>. QED BY <2>2, <2>3 DEF Lookup
<1>2. ASSUME \A s \in Slots(n) : es[s].key # k
      PROVE  Lookup(es, n, k) = Absent
  BY <1>2 DEF Lookup
<1>. QED BY <1>1, <1>2

\* What findEntry returns is the binding of k.
LEMMA FoundIsBinding ==
  ASSUME IInv, NEW k \in Key, ~Undoing(k), NEW s \in Slots(capacity),
         FindsEntry(entries, capacity, k, s)
  PROVE  /\ Bindings[k] = IF InUse(entries[s]) THEN entries[s].value ELSE Absent
         /\ InUse(entries[s]) => entries[s].key = k /\ entries[s].value # Absent
<1>. USE DEF IInv, TypeOK, KeysReachable
<1>1. /\ entries[s].key = k \/ ~InUse(entries[s])
      /\ ~InUse(entries[s]) => \A t \in Slots(capacity) : entries[t].key # k
  BY FindsEntryIsRight
<1>2. Bindings[k] = Lookup(entries, capacity, k) BY DEF Bindings
<1>3. entries[s].value \in Value BY DEF Entry
<1>. QED BY <1>1, <1>2, <1>3, LookupFinds, ConstantsAssumption

\* tableGet, tableSet and tableDelete test for an empty table first.
LEMMA NoCountNoBinding ==
  ASSUME IInv, call.phase # "grow", count = 0, NEW k \in Key
  PROVE  /\ \A s \in Slots(capacity) : entries[s].key # k
         /\ Bindings[k] = Absent
<1>. USE DEF IInv, TypeOK, KeysReachable
<1>1. Used(entries, capacity) = {}
  <2>1. IsFiniteSet(Used(entries, capacity)) BY SlotsFinite DEF Used
  <2>. QED BY <2>1, FS_EmptySet DEF LoadInv
<1>2. \A s \in Slots(capacity) : entries[s].key # k
  BY <1>1, ConstantsAssumption DEF Used, IsEmpty
<1>. QED BY <1>2, LookupFinds DEF Bindings

\* tableDelete unbinds k and nothing else.
LEMMA RemoveUnbinds ==
  ASSUME IInv, NEW k \in Key, NEW found \in BOOLEAN, Remove(k, found), call' = Idle,
         call.phase = "idle" \/ (call.phase = "undo" /\ call.key = k)
  PROVE  /\ Bindings' = [Bindings EXCEPT ![k] = Absent]
         /\ call.phase = "idle" => (found <=> Bindings[k] # Absent)
<1>. USE DEF IInv, TypeOK, KeysReachable
<1>u. \A q \in Key : ~Undoing(q)' /\ (q # k => ~Undoing(q))
  BY DEF Undoing, Idle
<1>1. CASE count = 0
  <2>0. call.phase # "grow" OBVIOUS
  <2>1. UNCHANGED <<entries, capacity>> /\ ~found BY <1>1 DEF Remove
  <2>2. Bindings[k] = Absent BY <2>0, <1>1, NoCountNoBinding
  <2>3. Lookup(entries, capacity, k) = Absent BY <2>0, <1>1, NoCountNoBinding, LookupFinds
  <2>. QED BY <2>1, <2>2, <2>3, <1>u DEF Bindings
<1>2. CASE count # 0
  <2>1. PICK s \in Slots(capacity) :
          /\ FindsEntry(entries, capacity, k, s)
          /\ found = InUse(entries[s])
          /\ entries' = IF found THEN [entries EXCEPT ![s] = Tombstone] ELSE entries
    BY <1>2 DEF Remove
  <2>2. capacity' = capacity BY DEF Remove
  <2>3. /\ entries[s].key = k \/ ~InUse(entries[s])
        /\ ~InUse(entries[s]) => \A t \in Slots(capacity) : entries[t].key # k
    BY <2>1, FindsEntryIsRight
  <2>4. \A t \in Slots(capacity) : entries'[t].key # k
    BY <2>1, <2>3, ConstantsAssumption DEF OnceEach, InUse, Tombstone
  <2>5. \A t \in Slots(capacity) : entries[t].key # k /\ entries[t].key # NoKey => entries'[t] = entries[t]
    BY <2>1, <2>3 DEF InUse
  <2>6. \A t \in Slots(capacity) : entries'[t].key # NoKey => entries'[t] = entries[t]
    BY <2>1 DEF Tombstone
  <2>7. entries' \in [Slots(capacity) -> Entry] /\ OnceEach(entries', capacity)
    <3>1. Tombstone \in Entry BY ConstantsAssumption DEF Tombstone, Entry
    <3>. QED BY <3>1, <2>1, TombstoneKeepsChains
  <2>8. Lookup(entries', capacity, k) = Absent BY <2>4, <2>7, LookupFinds
  <2>9. ASSUME NEW q \in Key, q # k
        PROVE  Lookup(entries', capacity, q) = Lookup(entries, capacity, q)
    <3>1. q # NoKey BY ConstantsAssumption
    <3>2. CASE \E t \in Slots(capacity) : entries[t].key = q
      <4>1. PICK t \in Slots(capacity) : entries[t].key = q BY <3>2
      <4>2. entries'[t] = entries[t] BY <4>1, <3>1, <2>9, <2>5
      <4>. QED BY <4>1, <4>2, <2>7, LookupFinds
    <3>3. CASE \A t \in Slots(capacity) : entries[t].key # q
      <4>1. \A t \in Slots(capacity) : entries'[t].key # q BY <3>3, <3>1, <2>6
      <4>. QED BY <4>1, <3>3, <2>7, LookupFinds
    <3>. QED BY <3>2, <3>3
  <2>10. Bindings' = [Bindings EXCEPT ![k] = Absent]
    BY <2>2, <2>8, <2>9, <1>u DEF Bindings
  <2>11. call.phase = "idle" => ~Undoing(k) BY DEF Undoing
  <2>12. call.phase = "idle" => (found <=> Bindings[k] # Absent)
    BY <2>1, <2>11, FoundIsBinding
  <2>. QED BY <2>10, <2>12
<1>. QED BY <1>1, <1>2

\* tableSet binds the key of the call; a binding that OP_SET_GLOBAL is about
\* to take back does not count.
LEMMA PutBinds ==
  ASSUME IInv, Put
  PROVE  /\ call \in Call
         /\ \E isNew \in BOOLEAN :
              /\ isNew <=> Bindings[call.key] = Absent
              /\ \/ /\ call.op = "set" /\ ret' = <<"set", call.key, isNew>>
                    /\ Bindings' = [Bindings EXCEPT ![call.key] = call.value]
                 \/ /\ call.op = "assign" /\ ~isNew /\ ret' = <<"assign", call.key, TRUE>>
                    /\ Bindings' = [Bindings EXCEPT ![call.key] = call.value]
                 \/ isNew /\ UNCHANGED <<Bindings, ret>>
<1>6. \A q \in Key : ~Undoing(q) BY DEF Put, Undoing
<1>. USE DEF IInv, TypeOK, KeysReachable
<1>1. call.phase = "put" /\ capacity' = capacity BY DEF Put
<1>2. call \in Call BY <1>1 DEF Idle
<1>. DEFINE k == call.key
            e == [key |-> k, value |-> call.value]
<1>k. k \in Key /\ k # NoKey /\ e \in Entry BY <1>2, ConstantsAssumption DEF Call, Entry
<1>3. PICK s \in Slots(capacity) :
        /\ FindsEntry(entries, capacity, k, s)
        /\ entries' = [entries EXCEPT ![s] = e]
        /\ LET isNew == ~InUse(entries[s])
           IN \/ call.op = "set" /\ Answer(<<"set", k, isNew>>)
              \/ call.op = "assign" /\ ~isNew /\ Answer(<<"assign", k, TRUE>>)
              \/ /\ call.op = "assign" /\ isNew
                 /\ Phase(call.op, call.key, call.value, "undo")
                 /\ UNCHANGED ret
  BY DEF Put
<1>4. /\ entries' \in [Slots(capacity) -> Entry]
      /\ OnceEach(entries', capacity)
      /\ entries'[s] = e
      /\ \A t \in Slots(capacity) : t # s => entries'[t] = entries[t]
  BY <1>3, <1>k, <1>2, PutKeepsChains DEF Call
<1>5. entries[s].key = k \/ entries[s].key = NoKey
  <2>1. /\ capacity \in Nat /\ entries \in [Slots(capacity) -> Entry]
        /\ OnceEach(entries, capacity) /\ ChainsUnbroken(entries, capacity)
    OBVIOUS
  <2>2. FindsEntry(entries, capacity, k, s) BY <1>3
  <2> HIDE DEF IInv, TypeOK, KeysReachable
  <2> QED BY <1>k, <2>1, <2>2, FindsEntryIsRight DEF InUse
<1>7. InUse(entries[s]) <=> Bindings[k] # Absent
  BY <1>3, <1>6, <1>k, FoundIsBinding
<1>8. Lookup(entries', capacity, k) = call.value
  BY <1>4, <1>k, LookupFinds
<1>9. ASSUME NEW q \in Key, q # k
      PROVE  Lookup(entries', capacity, q) = Lookup(entries, capacity, q)
  <2>1. q # NoKey BY ConstantsAssumption
  <2>2. CASE \E t \in Slots(capacity) : entries[t].key = q
    <3>1. PICK t \in Slots(capacity) : entries[t].key = q BY <2>2
    <3>2. entries'[t] = entries[t] BY <3>1, <2>1, <1>9, <1>4, <1>5
    <3>. QED BY <3>1, <3>2, <1>4, LookupFinds
  <2>3. CASE \A t \in Slots(capacity) : entries[t].key # q
    <3>1. \A t \in Slots(capacity) : entries'[t].key # q BY <2>3, <1>9, <1>4
    <3>. QED BY <3>1, <2>3, <1>4, LookupFinds
  <2>. QED BY <2>2, <2>3
<1>10. ASSUME call' = Idle
       PROVE  Bindings' = [Bindings EXCEPT ![k] = call.value]
  <2>1. \A q \in Key : ~Undoing(q)' BY <1>10 DEF Undoing, Idle
  <2>. QED BY <2>1, <1>1, <1>6, <1>8, <1>9 DEF Bindings
<1>11. ASSUME Phase(call.op, call.key, call.value, "undo"), ~InUse(entries[s])
       PROVE  Bindings' = Bindings
  <2>1. \A q \in Key : Undoing(q)' <=> q = k BY <1>11 DEF Undoing, Phase
  <2>2. Bindings[k] = Absent BY <1>11, <1>7
  <2>. QED BY <2>1, <2>2, <1>1, <1>6, <1>9 DEF Bindings
<1>12. \/ /\ call.op = "set" /\ ret' = <<"set", k, ~InUse(entries[s])>>
          /\ Bindings' = [Bindings EXCEPT ![k] = call.value]
       \/ /\ call.op = "assign" /\ InUse(entries[s]) /\ ret' = <<"assign", k, TRUE>>
          /\ Bindings' = [Bindings EXCEPT ![k] = call.value]
       \/ ~InUse(entries[s]) /\ Bindings' = Bindings /\ ret' = ret
  BY <1>3, <1>10, <1>11 DEF Answer
<1>. QED
  <2>. DEFINE isNew == ~InUse(entries[s])
  <2>1. isNew \in BOOLEAN /\ (isNew <=> Bindings[k] = Absent) BY <1>7
  <2>. QED BY <2>1, <1>12, <1>2

\* Installing the copy changes no binding.
LEMMA EndGrowKeepsBindings ==
  ASSUME IInv, EndGrow
  PROVE  Bindings' = Bindings
<1>. USE DEF IInv, TypeOK, KeysReachable
<1>1. /\ call.phase = "grow" /\ call'.phase = "put" /\ next = capacity
      /\ capacity' = newCapacity /\ entries' = newEntries
  BY DEF EndGrow, Phase
<1>2. ASSUME NEW k \in Key
      PROVE  Lookup(newEntries, newCapacity, k) = Lookup(entries, capacity, k)
  <2>1. k # NoKey BY ConstantsAssumption
  <2>2. CASE \E t \in Slots(capacity) : entries[t].key = k
    <3>1. PICK t \in Slots(capacity) : entries[t].key = k BY <2>2
    <3>2. PICK s \in Slots(newCapacity) : newEntries[s] = entries[t]
      BY <3>1, <2>1, <1>1 DEF CopyAgrees, InUse
    <3>. QED BY <3>1, <3>2, LookupFinds
  <2>3. CASE \A t \in Slots(capacity) : entries[t].key # k
    <3>1. \A s \in Slots(newCapacity) : newEntries[s].key # k
      BY <2>3, <2>1, <1>1 DEF CopyAgrees, IsEmpty
    <3>. QED BY <3>1, <2>3, LookupFinds
  <2>. QED BY <2>2, <2>3
<1>. QED BY <1>1, <1>2 DEF Bindings, Undoing

\* Every step of the table is a step of the map or leaves the map unchanged.
LEMMA StepsAreMapSteps ==
  IInv /\ [Next]_vars => [AsMap!Next]_(AsMap!vars)
<1>. SUFFICES ASSUME IInv, [Next]_vars
              PROVE  AsMap!Next \/ UNCHANGED <<Bindings, ret>>
  BY DEF AsMap!vars
<1>. USE DEF AsMap!Bound
<1>1. ASSUME NEW k \in Key, Get(k)
      PROVE  AsMap!Get(k)
  <2>1. call = Idle /\ UNCHANGED <<count, capacity, entries, call>>
    BY <1>1 DEF Get, Answer
  <2>2. ~Undoing(k) /\ call.phase # "grow" BY <2>1 DEF Undoing, Idle
  <2>3. Bindings' = Bindings BY <2>1 DEF Bindings, Undoing
  <2>4. ret' = <<"get", k, Bindings[k]>>
    BY <1>1, <2>2, NoCountNoBinding, FoundIsBinding DEF Get, Answer
  <2>. QED BY <2>3, <2>4 DEF AsMap!Get
<1>2. ASSUME NEW k \in Key, Delete(k)
      PROVE  AsMap!Delete(k)
  <2>1. PICK found \in BOOLEAN : Remove(k, found) /\ ret' = <<"delete", k, found>> /\ call' = Idle
    BY <1>2 DEF Delete, Answer
  <2>2. call.phase = "idle" BY <1>2 DEF Delete, Idle
  <2>3. Bindings' = [Bindings EXCEPT ![k] = Absent] /\ (found <=> Bindings[k] # Absent)
    BY <2>1, <2>2, RemoveUnbinds
  <2>. QED BY <2>1, <2>3 DEF AsMap!Delete
<1>3. ASSUME NEW op \in {"set", "assign"}, NEW k \in Key, NEW v \in Value, BeginSet(op, k, v)
      PROVE  UNCHANGED <<Bindings, ret>>
  <2>1. \A q \in Key : ~Undoing(q) /\ ~Undoing(q)'
    BY <1>3 DEF BeginSet, Undoing, Idle, Phase
  <2>. QED BY <1>3, <2>1 DEF BeginSet, Bindings
<1>4. CASE CopySlot
  BY <1>4 DEF CopySlot, Bindings, Undoing
<1>5. CASE EndGrow
  BY <1>5, EndGrowKeepsBindings DEF EndGrow
<1>6. CASE Put
  <2>1. call.key \in Key /\ call.value \in Value BY <1>6, PutBinds DEF Call
  <2>2. PICK isNew \in BOOLEAN :
          /\ isNew <=> Bindings[call.key] = Absent
          /\ \/ /\ call.op = "set" /\ ret' = <<"set", call.key, isNew>>
                /\ Bindings' = [Bindings EXCEPT ![call.key] = call.value]
             \/ /\ call.op = "assign" /\ ~isNew /\ ret' = <<"assign", call.key, TRUE>>
                /\ Bindings' = [Bindings EXCEPT ![call.key] = call.value]
             \/ isNew /\ UNCHANGED <<Bindings, ret>>
    BY <1>6, PutBinds
  <2>3. \/ AsMap!Set(call.key, call.value)
        \/ AsMap!Assign(call.key, call.value)
        \/ UNCHANGED <<Bindings, ret>>
    BY <2>2 DEF AsMap!Set, AsMap!Assign
  <2>. QED BY <2>1, <2>3 DEF AsMap!Next
<1>7. CASE Undo
  <2>1. call.phase = "undo" BY <1>7 DEF Undo
  <2>2. call.key \in Key /\ call.value \in Value BY <2>1 DEF IInv, TypeOK, Call, Idle
  <2>3. PICK found \in BOOLEAN :
          Remove(call.key, found) /\ ret' = <<"assign", call.key, FALSE>> /\ call' = Idle
    BY <1>7 DEF Undo, Answer
  <2>4. Bindings' = [Bindings EXCEPT ![call.key] = Absent]
    BY <2>1, <2>2, <2>3, RemoveUnbinds
  <2>5. Bindings[call.key] = Absent
    BY <2>1, <2>2 DEF Bindings, Undoing
  <2>6. Bindings' = Bindings BY <2>4, <2>5, <2>2 DEF Bindings
  <2>7. AsMap!Assign(call.key, call.value)
    BY <2>3, <2>5, <2>6 DEF AsMap!Assign
  <2>. QED BY <2>2, <2>7 DEF AsMap!Next
<1>8. CASE UNCHANGED vars
  BY <1>8 DEF vars, Bindings, Undoing
<1>. QED BY <1>1, <1>2, <1>3, <1>4, <1>5, <1>6, <1>7, <1>8 DEF Next, AsMap!Next

\* The globals table answers every call as a plain map would.
THEOREM Refinement == Spec => ImplementsMap
<1>1. Init => AsMap!Init
  <2>. SUFFICES ASSUME Init PROVE AsMap!Init
    OBVIOUS
  <2>1. Bindings = [k \in Key |-> Absent]
    BY DEF Init, Bindings, Undoing, Lookup, Slots, Idle
  <2>. QED BY <2>1 DEF Init, AsMap!Init
<1>2. IInv /\ [Next]_vars => [AsMap!Next]_(AsMap!vars)
  BY StepsAreMapSteps
<1>. QED BY <1>1, <1>2, Inductive, PTL DEF Spec, ImplementsMap, AsMap!Spec
=============================================================================
