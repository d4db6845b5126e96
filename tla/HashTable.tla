----------------------------- MODULE HashTable -----------------------------
(***************************************************************************)
(* table.c: the open-addressing table behind VM.globals.                   *)
(*                                                                         *)
(* A call (tableGet, tableSet, tableDelete, or the set-then-delete that    *)
(* OP_SET_GLOBAL makes) runs to its end before the next one starts.  The   *)
(* probe loop of findEntry is the relation FindsEntry between a table and  *)
(* the slot the loop returns; the loop ends exactly when such a slot       *)
(* exists, so a table in which it would spin is a deadlock here.  The copy *)
(* loop of adjustCapacity is stepped, one old slot at a time.              *)
(***************************************************************************)
EXTENDS Probing

CONSTANTS
  Key,          \* interned ObjString pointers
  Value,        \* values a global may hold, nil and true among them
  NoKey,        \* the NULL key of an empty slot or a tombstone
  Nil,          \* NIL_VAL
  True,         \* BOOL_VAL(true), the value of a tombstone
  Absent        \* the answer of a lookup that fails

ASSUME ConstantsAssumption ==
  /\ NoKey \notin Key
  /\ {Nil, True} \subseteq Value /\ Nil # True
  /\ Absent \notin Value
  /\ \A k \in Key : Hash[k] \in Nat

VARIABLES
  count,        \* Table.count
  capacity,     \* Table.capacity
  entries,      \* Table.entries: slot -> [key, value]
  newCapacity,  \* adjustCapacity: the size of the array it is filling,
  newEntries,   \*   that array,
  next,         \*   and the old slot its copy loop has reached
  call,         \* the call in progress, with the phase it is in
  ret           \* the last completed call and its answer

copying == <<newCapacity, newEntries, next>>
vars == <<count, capacity, entries, copying, call, ret>>

Empty == [key |-> NoKey, value |-> Nil]
\* Fault: a deleted slot is made empty.
FaultyTombstone == Empty
Tombstone == [key |-> NoKey, value |-> True]
Entry == [key : Key \cup {NoKey}, value : Value]

InUse(e) == e.key # NoKey
IsEmpty(e) == e.key = NoKey /\ e.value = Nil

(***************************************************************************)
(* Probing                                                                 *)
(***************************************************************************)
\* The loop ends at s: s holds k or is empty, and no earlier slot does.
StopsAt(es, n, k, s) ==
  /\ es[s].key = k \/ IsEmpty(es[s])
  /\ \A x \in Slots(n) :
       Before(k, x, s, n) => es[x].key # k /\ ~IsEmpty(es[x])

\* findEntry returns s: where the loop ended if k is there, else the first
\* tombstone the loop passed, else the empty slot it ended at.
FindsEntry(es, n, k, s) ==
  \E stop \in Slots(n) :
    /\ StopsAt(es, n, k, stop)
    /\ LET passed == {x \in Slots(n) : Before(k, x, stop, n) /\ ~InUse(es[x])}
       IN IF es[stop].key = k \/ passed = {}
            THEN s = stop
            ELSE s \in passed /\ \A x \in passed : ~Before(k, x, s, n)

(***************************************************************************)
(* Calls                                                                   *)
(***************************************************************************)
Idle == [op |-> "none", phase |-> "idle"]
NoEntries(n) == [s \in Slots(n) |-> Empty]

Init ==
  /\ count = 0
  /\ capacity = 0
  /\ entries = NoEntries(0)
  /\ newCapacity = 0
  /\ newEntries = NoEntries(0)
  /\ next = 0
  /\ call = Idle
  /\ ret = <<"none">>

Answer(r) == ret' = r /\ call' = Idle

Get(k) ==
  /\ call = Idle
  /\ \/ count = 0 /\ Answer(<<"get", k, Absent>>)
     \/ /\ count # 0
        /\ \E s \in Slots(capacity) :
             /\ FindsEntry(entries, capacity, k, s)
             /\ Answer(<<"get", k, IF InUse(entries[s]) THEN entries[s].value ELSE Absent>>)
  /\ UNCHANGED <<count, capacity, entries, copying>>

\* Fault: deleting a name takes its slot off the count.
FaultyRemove(k, found) ==
  /\ \/ count = 0 /\ found = FALSE /\ UNCHANGED <<entries, count>>
     \/ /\ count # 0
        /\ \E s \in Slots(capacity) :
             /\ FindsEntry(entries, capacity, k, s)
             /\ found = InUse(entries[s])
             /\ entries' = IF found THEN [entries EXCEPT ![s] = Tombstone] ELSE entries
             /\ count' = IF found THEN count - 1 ELSE count
  /\ UNCHANGED <<capacity, copying>>

\* The effect of tableDelete on the table; found is its result.
Remove(k, found) ==
  /\ \/ count = 0 /\ found = FALSE /\ UNCHANGED entries
     \/ /\ count # 0
        /\ \E s \in Slots(capacity) :
             /\ FindsEntry(entries, capacity, k, s)
             /\ found = InUse(entries[s])
             /\ entries' = IF found THEN [entries EXCEPT ![s] = Tombstone] ELSE entries
  /\ UNCHANGED <<count, capacity, copying>>

Delete(k) ==
  /\ call = Idle
  /\ \E found \in BOOLEAN : Remove(k, found) /\ Answer(<<"delete", k, found>>)

Phase(op, k, v, phase) == call' = [op |-> op, phase |-> phase, key |-> k, value |-> v]

\* tableSet, called directly (OP_DEFINE_GLOBAL) or by OP_SET_GLOBAL: the load
\* is tested first, before the table knows whether k is new.  adjustCapacity
\* clears an array of the next size and restarts the count.
BeginSet(op, k, v) ==
  /\ call = Idle
  /\ \/ /\ count + 1 <= MaxLoad(capacity)
        /\ Phase(op, k, v, "put")
        /\ UNCHANGED <<count, copying>>
     \/ /\ count + 1 > MaxLoad(capacity)
        /\ Phase(op, k, v, "grow")
        /\ count' = 0
        /\ newCapacity' = GrowCapacity(capacity)
        /\ newEntries' = NoEntries(newCapacity')
        /\ next' = 0
  /\ UNCHANGED <<capacity, entries, ret>>

\* Fault: a name that is bound to nil is taken for an empty slot.
FaultyCopySlot ==
  /\ call.phase = "grow" /\ next < capacity
  /\ next' = next + 1
  /\ LET src == entries[next]
     IN \/ src.value = Nil /\ UNCHANGED <<count, newEntries>>
        \/ /\ InUse(src) /\ src.value # Nil
           /\ \E s \in Slots(newCapacity) :
                /\ FindsEntry(newEntries, newCapacity, src.key, s)
                /\ newEntries' = [newEntries EXCEPT ![s] = src]
           /\ count' = count + 1
  /\ UNCHANGED <<capacity, entries, newCapacity, call, ret>>

\* One round of adjustCapacity's copy loop; tombstones are left behind.
CopySlot ==
  /\ call.phase = "grow" /\ next < capacity
  /\ next' = next + 1
  /\ LET src == entries[next]
     IN \/ ~InUse(src) /\ UNCHANGED <<count, newEntries>>
        \/ /\ InUse(src)
           /\ \E s \in Slots(newCapacity) :
                /\ FindsEntry(newEntries, newCapacity, src.key, s)
                /\ newEntries' = [newEntries EXCEPT ![s] = src]
           /\ count' = count + 1
  /\ UNCHANGED <<capacity, entries, newCapacity, call, ret>>

\* Fault: the capacity is doubled where the array started from the minimum.
FaultyEndGrow ==
  /\ call.phase = "grow" /\ next = capacity
  /\ capacity' = 2 * capacity
  /\ entries' = newEntries
  /\ newCapacity' = 0 /\ newEntries' = NoEntries(0) /\ next' = 0
  /\ Phase(call.op, call.key, call.value, "put")
  /\ UNCHANGED <<count, ret>>

\* adjustCapacity frees the old array and installs the new one.
EndGrow ==
  /\ call.phase = "grow" /\ next = capacity
  /\ capacity' = newCapacity
  /\ entries' = newEntries
  /\ newCapacity' = 0 /\ newEntries' = NoEntries(0) /\ next' = 0
  /\ Phase(call.op, call.key, call.value, "put")
  /\ UNCHANGED <<count, ret>>

\* Fault: a name put in the place of a tombstone is not new.
FaultyPut ==
  /\ call.phase = "put"
  /\ \E s \in Slots(capacity) :
       /\ FindsEntry(entries, capacity, call.key, s)
       /\ count' = IF IsEmpty(entries[s]) THEN count + 1 ELSE count
       /\ entries' = [entries EXCEPT ![s] = [key |-> call.key, value |-> call.value]]
       /\ LET isNew == IsEmpty(entries[s])
          IN \/ call.op = "set" /\ Answer(<<"set", call.key, isNew>>)
             \/ call.op = "assign" /\ ~isNew /\ Answer(<<"assign", call.key, TRUE>>)
             \/ /\ call.op = "assign" /\ isNew
                /\ Phase(call.op, call.key, call.value, "undo")
                /\ UNCHANGED ret
  /\ UNCHANGED <<capacity, copying>>

\* The rest of tableSet.  OP_SET_GLOBAL goes on to take back a new key.
Put ==
  /\ call.phase = "put"
  /\ \E s \in Slots(capacity) :
       /\ FindsEntry(entries, capacity, call.key, s)
       /\ count' = IF IsEmpty(entries[s]) THEN count + 1 ELSE count
       /\ entries' = [entries EXCEPT ![s] = [key |-> call.key, value |-> call.value]]
       /\ LET isNew == ~InUse(entries[s])
          IN \/ call.op = "set" /\ Answer(<<"set", call.key, isNew>>)
             \/ call.op = "assign" /\ ~isNew /\ Answer(<<"assign", call.key, TRUE>>)
             \/ /\ call.op = "assign" /\ isNew
                /\ Phase(call.op, call.key, call.value, "undo")
                /\ UNCHANGED ret
  /\ UNCHANGED <<capacity, copying>>

\* OP_SET_GLOBAL of an undeclared name: tableDelete after the tableSet.
Undo ==
  /\ call.phase = "undo"
  /\ \E found \in BOOLEAN :
       Remove(call.key, found) /\ Answer(<<"assign", call.key, FALSE>>)

Next ==
  \/ \E k \in Key : Get(k) \/ Delete(k)
  \/ \E k \in Key, v \in Value : BeginSet("set", k, v) \/ BeginSet("assign", k, v)
  \/ CopySlot
  \/ EndGrow
  \/ Put
  \/ Undo

Spec == Init /\ [][Next]_vars

-----------------------------------------------------------------------------
(***************************************************************************)
(* Properties                                                              *)
(***************************************************************************)
Call == [op : {"set", "assign"}, phase : {"grow", "put", "undo"}, key : Key, value : Value]

\* The C types of the Table fields and of the locals of a call in progress.
TypeOK ==
  /\ count \in Nat
  /\ capacity \in Nat
  /\ entries \in [Slots(capacity) -> Entry]
  /\ call \in {Idle} \cup Call
  /\ newCapacity \in Nat
  /\ newEntries \in [Slots(newCapacity) -> Entry]
  /\ next \in Nat

Used(es, n) == {s \in Slots(n) : ~IsEmpty(es[s])}

HasEmptySlot(es, n) == n > 0 => \E s \in Slots(n) : IsEmpty(es[s])

\* findEntry never spins: `count` counts every slot that is not empty, the
\* tombstones too, and stays within the load limit, so every array that is
\* probed, the one being filled too, has an empty slot to stop at.
ProbesEnd ==
  /\ count = IF call.phase = "grow"
               THEN Cardinality(Used(newEntries, newCapacity))
               ELSE Cardinality(Used(entries, capacity))
  /\ HasEmptySlot(entries, capacity)
  /\ HasEmptySlot(newEntries, newCapacity)

OnceEach(es, n) ==
  \A s, t \in Slots(n) : InUse(es[s]) /\ es[s].key = es[t].key => s = t

ChainsUnbroken(es, n) ==
  \A s, x \in Slots(n) :
    InUse(es[s]) /\ Before(es[s].key, x, s, n) => es[x].key # es[s].key /\ ~IsEmpty(es[x])

\* Tombstones, reuse of tombstones and rehashing never leave a name in two
\* slots or in a slot that the probe loop of findEntry cannot reach.
KeysReachable ==
  /\ OnceEach(entries, capacity)
  /\ ChainsUnbroken(entries, capacity)
  /\ OnceEach(newEntries, newCapacity)
  /\ ChainsUnbroken(newEntries, newCapacity)

\* While adjustCapacity copies, the new array holds exactly the bindings of
\* the old slots it has passed: none lost, none made up, no tombstone.
CopyAgrees ==
  call.phase = "grow" =>
    /\ next <= capacity
    /\ \A t \in Slots(next) :
         InUse(entries[t]) => \E s \in Slots(newCapacity) : newEntries[s] = entries[t]
    /\ \A s \in Slots(newCapacity) :
         IsEmpty(newEntries[s]) \/ \E t \in Slots(next) : InUse(entries[t]) /\ newEntries[s] = entries[t]

\* What keeps ProbesEnd and CopyAgrees true from step to step: the count never
\* passes the load limit, a put has room for one more, and growing makes it.
Passed == {t \in Slots(next) : InUse(entries[t])}
LoadInv ==
  /\ capacity = 0 \/ capacity >= MinCapacity
  /\ Cardinality(Used(entries, capacity)) <= MaxLoad(capacity)
  /\ call.phase # "grow" => count = Cardinality(Used(entries, capacity)) /\ newCapacity = 0
  /\ call.phase = "put" => count + 1 <= MaxLoad(capacity)
  /\ call.phase = "grow" =>
       /\ newCapacity = GrowCapacity(capacity)
       /\ count = Cardinality(Used(newEntries, newCapacity))
       /\ count <= Cardinality(Passed)
IInv == TypeOK /\ LoadInv /\ KeysReachable /\ CopyAgrees

(***************************************************************************)
(* The table implements the map: its bindings are the entries in use, and  *)
(* the binding an undeclared assignment makes for a moment is not one.     *)
(***************************************************************************)
Lookup(es, n, k) ==
  LET holding == {s \in Slots(n) : es[s].key = k}
  IN IF holding = {} THEN Absent ELSE es[CHOOSE s \in holding : TRUE].value

Undoing(k) == call.phase = "undo" /\ call.key = k
Bindings ==
  [k \in Key |-> IF Undoing(k) THEN Absent ELSE Lookup(entries, capacity, k)]

AsMap == INSTANCE Map WITH dict <- Bindings

\* Whatever the hashes, the deletions and the rehashes, the globals table
\* answers every call as a plain map would.
ImplementsMap == AsMap!Spec
=============================================================================
