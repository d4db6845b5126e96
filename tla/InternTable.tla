---------------------------- MODULE InternTable ----------------------------
(***************************************************************************)
(* object.c and gc.c: the table of interned strings, nq_string_table.      *)
(*                                                                         *)
(* A string is found by its text and kept by its address.  There are no    *)
(* tombstones: the collector rebuilds the table without the strings it is  *)
(* about to free.  It may do so between the search that found no string    *)
(* and the allocation of the one that is added.  The loops over the old    *)
(* array, when the table grows and when it is rebuilt, are stepped.        *)
(***************************************************************************)
EXTENDS Probing

CONSTANTS
  Text,       \* what a string may say
  Address,    \* ObjString pointers
  NoString,   \* the NULL of a slot that is empty
  Free        \* there is no string: at an address, or asked for

ASSUME StringsAssumption ==
  /\ NoString \notin Address
  /\ Free \notin Text
  /\ \A t \in Text : Hash[t] \in Nat

VARIABLES
  content,          \* the text of the string at each address, or Free
  stringCount,      \* StringTable.count
  stringCapacity,   \* StringTable.capacity
  strings,          \* StringTable.entries: slot -> address
  phase,            \* "idle", "put", or the loop that runs: "grow", "prune", "sweep"
  wanted,           \* the text that was not found and is to be allocated, or Free
  arriving,         \* the string that is allocated and not yet in the table
  marked,           \* the strings the collector has marked
  copyCapacity,     \* the size of the array that replaces the table's,
  copy,             \*   that array,
  copyCount,        \*   new_count of removeWhiteStrings,
  copyNext,         \*   and the old slot the loop has reached
  answer            \* the last text asked for, with the string it got

filling == <<copyCapacity, copy, copyCount, copyNext>>
table == <<stringCount, stringCapacity, strings>>
stringVars == <<content, table, phase, wanted, arriving, marked, filling, answer>>

NoStrings(n) == [s \in Slots(n) |-> NoString]
AllFree == [a \in Address |-> Free]
Live == {a \in Address : content[a] # Free}

(***************************************************************************)
(* Probing                                                                 *)
(***************************************************************************)
\* tableFindString ends at s: s is empty or holds a string that says t (the
\* hash and the length are compared first), and no earlier slot is or does.
Matches(a, t) == a # NoString => content[a] = t
\* Fault: the search stops at the end of the array.
FaultyFindsString(t, s) ==
  /\ Matches(strings[s], t) \/ s = stringCapacity - 1
  /\ \A x \in Slots(stringCapacity) : Before(t, x, s, stringCapacity) => ~Matches(strings[x], t)
FindsString(t, s) ==
  /\ Matches(strings[s], t)
  /\ \A x \in Slots(stringCapacity) : Before(t, x, s, stringCapacity) => ~Matches(strings[x], t)

\* Where the string at a goes in array es: the first slot that is empty.
FindsRoom(es, n, a, s) ==
  /\ es[s] = NoString
  /\ \A x \in Slots(n) : Before(content[a], x, s, n) => es[x] # NoString

(***************************************************************************)
(* Making a string                                                         *)
(***************************************************************************)
InitStrings ==
  /\ content = AllFree
  /\ stringCount = 0 /\ stringCapacity = 0 /\ strings = NoStrings(0)
  /\ phase = "idle" /\ wanted = Free /\ arriving = NoString /\ marked = {}
  /\ copyCapacity = 0 /\ copy = NoStrings(0) /\ copyCount = 0 /\ copyNext = 0
  /\ answer = <<"none">>

Waiting == phase = "idle" /\ wanted = Free

\* copyString and takeString: a text that is not found is to be allocated.
CopyString(t) ==
  /\ Waiting
  /\ \/ /\ stringCapacity = 0
        /\ wanted' = t /\ UNCHANGED answer
     \/ \E s \in Slots(stringCapacity) :
          /\ FindsString(t, s)
          /\ \/ strings[s] = NoString /\ wanted' = t /\ UNCHANGED answer
             \/ strings[s] # NoString /\ answer' = <<t, strings[s]>> /\ UNCHANGED wanted
  /\ UNCHANGED <<content, table, phase, arriving, marked, filling>>

BeginCopy(n) ==
  /\ copyCapacity' = n /\ copy' = NoStrings(n) /\ copyCount' = 0 /\ copyNext' = 0

\* Fault: the table grows when it is full.
FaultyAllocString(a) ==
  /\ phase = "idle" /\ wanted # Free
  /\ content[a] = Free
  /\ content' = [content EXCEPT ![a] = wanted] /\ arriving' = a
  /\ \/ /\ stringCount + 1 <= stringCapacity
        /\ phase' = "put" /\ UNCHANGED filling
     \/ /\ stringCount + 1 > stringCapacity
        /\ phase' = "grow" /\ BeginCopy(GrowCapacity(stringCapacity))
  /\ UNCHANGED <<table, wanted, marked, answer>>
\* allocString and the load test of tableAddString: the object is made, and
\* the table grows first when it is at its load limit.
AllocString(a) ==
  /\ phase = "idle" /\ wanted # Free
  /\ content[a] = Free
  /\ content' = [content EXCEPT ![a] = wanted] /\ arriving' = a
  /\ \/ /\ stringCount + 1 <= MaxLoad(stringCapacity)
        /\ phase' = "put" /\ UNCHANGED filling
     \/ /\ stringCount + 1 > MaxLoad(stringCapacity)
        /\ phase' = "grow" /\ BeginCopy(GrowCapacity(stringCapacity))
  /\ UNCHANGED <<table, wanted, marked, answer>>

\* The rest of tableAddString, and of the call that asked.
PutString ==
  /\ phase = "put"
  /\ \E s \in Slots(stringCapacity) :
       /\ FindsRoom(strings, stringCapacity, arriving, s)
       /\ strings' = [strings EXCEPT ![s] = arriving]
  /\ stringCount' = stringCount + 1
  /\ answer' = <<wanted, arriving>>
  /\ phase' = "idle" /\ wanted' = Free /\ arriving' = NoString
  /\ UNCHANGED <<content, stringCapacity, marked, filling>>

(***************************************************************************)
(* The array that replaces the table's                                     *)
(***************************************************************************)
Kept(a) == a # NoString /\ (phase = "prune" => a \in marked)
Counted == IF phase = "prune" THEN copyCount + 1 ELSE copyCount

\* Fault: a string keeps its slot when the table is rebuilt.
FaultyCopyOne ==
  /\ phase \in {"grow", "prune"} /\ copyNext < stringCapacity
  /\ copyNext' = copyNext + 1
  /\ \/ ~Kept(strings[copyNext]) /\ UNCHANGED <<copy, copyCount>>
     \/ /\ Kept(strings[copyNext])
        /\ copy' = [copy EXCEPT ![copyNext] = strings[copyNext]]
        /\ copyCount' = Counted
  /\ UNCHANGED <<content, table, phase, wanted, arriving, marked, copyCapacity, answer>>
\* One round of the loop of tableAddString, or of removeWhiteStrings.
CopyOne ==
  /\ phase \in {"grow", "prune"} /\ copyNext < stringCapacity
  /\ copyNext' = copyNext + 1
  /\ \/ ~Kept(strings[copyNext]) /\ UNCHANGED <<copy, copyCount>>
     \/ /\ Kept(strings[copyNext])
        /\ \E s \in Slots(copyCapacity) :
             /\ FindsRoom(copy, copyCapacity, strings[copyNext], s)
             /\ copy' = [copy EXCEPT ![s] = strings[copyNext]]
        /\ copyCount' = Counted
  /\ UNCHANGED <<content, table, phase, wanted, arriving, marked, copyCapacity, answer>>

EndCopy == BeginCopy(0)

\* The grown array is installed; the string is still to be put.
EndGrowth ==
  /\ phase = "grow" /\ copyNext = stringCapacity
  /\ strings' = copy /\ stringCapacity' = copyCapacity
  /\ phase' = "put" /\ EndCopy
  /\ UNCHANGED <<content, stringCount, wanted, arriving, marked, answer>>

(***************************************************************************)
(* Collecting                                                              *)
(***************************************************************************)
\* nq_collect, after marking; an allocation may call it, with a text wanted.
\* The roots and the objects behind them are those of module Heap.
CollectStrings(roots) ==
  /\ phase = "idle" /\ marked' = roots
  /\ \/ /\ stringCapacity = 0
        /\ phase' = "sweep" /\ UNCHANGED filling
     \/ /\ stringCapacity # 0
        /\ phase' = "prune" /\ BeginCopy(stringCapacity)
  /\ UNCHANGED <<content, table, wanted, arriving, answer>>

\* Fault: the count is not set to that of the strings that are left.
FaultyEndPrune ==
  /\ phase = "prune" /\ copyNext = stringCapacity
  /\ strings' = copy
  /\ phase' = "sweep" /\ EndCopy
  /\ UNCHANGED <<content, stringCount, stringCapacity, wanted, arriving, marked, answer>>
\* The end of removeWhiteStrings.
EndPrune ==
  /\ phase = "prune" /\ copyNext = stringCapacity
  /\ strings' = copy /\ stringCount' = copyCount
  /\ phase' = "sweep" /\ EndCopy
  /\ UNCHANGED <<content, stringCapacity, wanted, arriving, marked, answer>>

\* Fault: the marks stay.
FaultySweepStrings ==
  /\ phase = "sweep" /\ phase' = "idle"
  /\ content' = [a \in Address |-> IF a \in marked THEN content[a] ELSE Free]
  /\ UNCHANGED <<table, wanted, arriving, marked, filling, answer>>
\* sweep frees what is not marked, and clears the marks.
SweepStrings ==
  /\ phase = "sweep" /\ phase' = "idle"
  /\ content' = [a \in Address |-> IF a \in marked THEN content[a] ELSE Free]
  /\ marked' = {}
  /\ UNCHANGED <<table, wanted, arriving, filling, answer>>

\* freeVM: the table first, then every object.
FreeStrings ==
  /\ Waiting
  /\ stringCount' = 0 /\ stringCapacity' = 0 /\ strings' = NoStrings(0)
  /\ content' = AllFree
  /\ UNCHANGED <<phase, wanted, arriving, marked, filling, answer>>

NextString ==
  \/ \E t \in Text : CopyString(t)
  \/ \E a \in Address : AllocString(a)
  \/ PutString
  \/ CopyOne
  \/ EndGrowth
  \/ \E roots \in SUBSET Live : CollectStrings(roots)
  \/ EndPrune
  \/ SweepStrings
  \/ FreeStrings

StringSpec == InitStrings /\ [][NextString]_stringVars

-----------------------------------------------------------------------------
(***************************************************************************)
(* Properties                                                              *)
(***************************************************************************)
Held(es, n) == {s \in Slots(n) : es[s] # NoString}
HasRoom(es, n) == n > 0 => \E s \in Slots(n) : es[s] = NoString

\* The C types of the table's fields and of the locals of a call in progress;
\* no string is marked but while the collector runs, none arrives but to be
\* put, and a table that is rebuilt keeps its size.
StringTypeOK ==
  /\ content \in [Address -> Text \cup {Free}]
  /\ stringCount \in Nat /\ stringCapacity \in Nat
  /\ strings \in [Slots(stringCapacity) -> Address \cup {NoString}]
  /\ phase \in {"idle", "put", "grow", "prune", "sweep"}
  /\ wanted \in Text \cup {Free}
  /\ IF phase \in {"put", "grow"} THEN wanted # Free /\ arriving \in Address ELSE arriving = NoString
  /\ IF phase \in {"prune", "sweep"} THEN marked \subseteq Live ELSE marked = {}
  /\ copyCapacity \in Nat /\ copyCount \in Nat /\ copyNext \in Nat
  /\ copy \in [Slots(copyCapacity) -> Address \cup {NoString}]
  /\ phase = "prune" => copyCapacity = stringCapacity

\* The probe loops of tableFindString, of tableAddString and of the two that
\* fill a new array end: the count is that of the strings in the table,
\* whatever was collected and when, and there is always an empty slot.
SearchesEnd ==
  /\ stringCount = Cardinality(Held(strings, stringCapacity))
  /\ HasRoom(strings, stringCapacity)
  /\ HasRoom(copy, copyCapacity)

\* The table holds the strings there are, no freed one, and each where the
\* search for its text stops; while they are collected, those that stay.
InTable == CASE phase = "sweep" -> marked [] OTHER -> Live \ {arriving}
StringsFound ==
  /\ \A s \in Slots(stringCapacity) : strings[s] # NoString => strings[s] \in InTable
  /\ \A a \in InTable : \E s \in Slots(stringCapacity) : strings[s] = a /\ FindsString(content[a], s)

(***************************************************************************)
(* What keeps these true from step to step.                                *)
(***************************************************************************)
\* Of an array: no string twice, and none behind a gap in its chain.
Distinct(es, n) == \A s, t \in Slots(n) : es[s] # NoString /\ es[s] = es[t] => s = t
Chained(c, es, n) ==
  \A s, x \in Slots(n) : es[s] # NoString /\ Before(c[es[s]], x, s, n) => es[x] # NoString

\* The table: chains unbroken, the strings that should be in it, and no others.
TableHolds ==
  /\ Distinct(strings, stringCapacity) /\ Chained(content, strings, stringCapacity)
  /\ \A a \in Address : a \in InTable <=> \E s \in Slots(stringCapacity) : strings[s] = a

\* No text twice, and none that is wanted.
OneText ==
  /\ \A a, b \in Live : content[a] = content[b] => a = b
  /\ \A a \in Live : content[a] = wanted => a = arriving
  /\ arriving # NoString => content[arriving] = wanted

\* The array that is filled: what is kept of the slots that were passed.
CopyHolds ==
  /\ Distinct(copy, copyCapacity) /\ Chained(content, copy, copyCapacity)
  /\ phase \in {"grow", "prune"} =>
       /\ copyNext <= stringCapacity
       /\ \A s \in Slots(copyCapacity) :
            copy[s] # NoString => Kept(copy[s]) /\ \E t \in Slots(copyNext) : strings[t] = copy[s]
       /\ \A t \in Slots(copyNext) :
            Kept(strings[t]) => \E s \in Slots(copyCapacity) : copy[s] = strings[t]

\* Loads: a string that is put has room, and growing makes it.
PassedStrings == {t \in Slots(copyNext) : strings[t] # NoString}
StringLoad ==
  /\ stringCapacity = 0 \/ stringCapacity >= MinCapacity
  /\ stringCount = Cardinality(Held(strings, stringCapacity))
  /\ stringCount <= MaxLoad(stringCapacity)
  /\ phase = "put" => stringCount + 1 <= MaxLoad(stringCapacity)
  /\ phase = "grow" => /\ copyCapacity = GrowCapacity(stringCapacity)
                       /\ Cardinality(Held(copy, copyCapacity)) = Cardinality(PassedStrings)
  /\ phase = "prune" => /\ copyCount = Cardinality(Held(copy, copyCapacity))
                        /\ copyCount <= Cardinality(PassedStrings)
  /\ phase \notin {"grow", "prune"} => copyCapacity = 0

StringInv == StringTypeOK /\ TableHolds /\ OneText /\ CopyHolds /\ StringLoad

\* A text is one string, at one address, whatever is collected meanwhile: the
\* strings are equal exactly when their addresses are.
Pool == [a \in Address |-> IF a = arriving THEN Free ELSE content[a]]
AsInterning == INSTANCE Interning WITH pool <- Pool, ret <- answer
ImplementsInterning == AsInterning!Spec
=============================================================================
