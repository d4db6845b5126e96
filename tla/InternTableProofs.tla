------------------------- MODULE InternTableProofs -------------------------
(***************************************************************************)
(* For every set of texts, every hash of theirs, any number of addresses   *)
(* and any first capacity: the probe loops of the intern table terminate,  *)
(* every string is found, whatever is collected and when, and a text is    *)
(* one string.                                                             *)
(***************************************************************************)
EXTENDS InternTable, ProbingProofs

Arrays(n) == [Slots(n) -> Address \cup {NoString}]

(***************************************************************************)
(* Arrays                                                                  *)
(***************************************************************************)

\* A cleared array holds nothing.
LEMMA ClearedStrings ==
  ASSUME NEW n \in Nat, NEW c
  PROVE  /\ NoStrings(n) \in Arrays(n)
         /\ \A s \in Slots(n) : NoStrings(n)[s] = NoString
         /\ Held(NoStrings(n), n) = {} /\ Cardinality(Held(NoStrings(n), n)) = 0
         /\ Distinct(NoStrings(n), n) /\ Chained(c, NoStrings(n), n)
<1>1. \A s \in Slots(n) : NoStrings(n)[s] = NoString
  BY DEF NoStrings
<1>2. Held(NoStrings(n), n) = {} BY <1>1 DEF Held
<1>. QED BY <1>1, <1>2, FS_EmptySet DEF Arrays, NoStrings, Distinct, Chained

\* What putting a into slot s of es has to give.
WasPut(after, es, c, n, a, s) ==
  /\ after \in Arrays(n)
  /\ after[s] = a /\ \A t \in Slots(n) : t # s => after[t] = es[t]
  /\ Distinct(after, n) /\ Chained(c, after, n)
  /\ Cardinality(Held(after, n)) = Cardinality(Held(es, n)) + 1

\* A string put where its probe loop ends is reachable there, and cuts no
\* other string off.
LEMMA PutKeepsArray ==
  ASSUME NEW n \in Nat, NEW es \in Arrays(n), NEW c, NEW a \in Address, Hash[c[a]] \in Nat,
         NEW s \in Slots(n), es[s] = NoString,
         \A x \in Slots(n) : Before(c[a], x, s, n) => es[x] # NoString,
         \A t \in Slots(n) : es[t] # a,
         Distinct(es, n), Chained(c, es, n)
  PROVE  WasPut([es EXCEPT ![s] = a], es, c, n, a, s)
<1>. DEFINE after == [es EXCEPT ![s] = a]
<1>. n > 0 BY DEF Slots
<1>k. a # NoString BY StringsAssumption
<1>1. /\ after \in Arrays(n)
      /\ after[s] = a /\ \A t \in Slots(n) : t # s => after[t] = es[t]
  BY DEF Arrays
<1>. HIDE DEF after
<1>2. Distinct(after, n) BY <1>1, <1>k DEF Distinct
<1>3. Chained(c, after, n)
  <2>. SUFFICES ASSUME NEW t \in Slots(n), NEW x \in Slots(n),
                       after[t] # NoString, Before(c[after[t]], x, t, n)
                PROVE  after[x] # NoString
    BY DEF Chained
  <2>1. CASE x = s BY <2>1, <1>1, <1>k
  <2>2. CASE x # s /\ t = s BY <2>2, <1>1
  <2>3. CASE x # s /\ t # s BY <2>3, <1>1 DEF Chained
  <2>. QED BY <2>1, <2>2, <2>3
<1>4. Held(after, n) = Held(es, n) \cup {s} /\ s \notin Held(es, n)
  BY <1>1, <1>k DEF Held
<1>5. Cardinality(Held(after, n)) = Cardinality(Held(es, n)) + 1
  BY <1>4, SlotsFinite, FS_AddElement DEF Held
<1>. QED BY <1>1, <1>2, <1>3, <1>5 DEF after, WasPut

\* An array within its load limit has an empty slot.
LEMMA LoadLeavesRoom ==
  ASSUME NEW n \in Nat, NEW es, Cardinality(Held(es, n)) <= MaxLoad(n)
  PROVE  HasRoom(es, n)
<1>. SUFFICES ASSUME n > 0, \A s \in Slots(n) : es[s] # NoString
              PROVE  FALSE
  BY DEF HasRoom
<1>1. Held(es, n) = Slots(n) BY DEF Held
<1>2. Cardinality(Held(es, n)) = n BY <1>1, SlotsFinite
<1>. QED BY <1>2 DEF MaxLoad

(***************************************************************************)
(* Type correctness                                                        *)
(***************************************************************************)

\* Installing or clearing the array that is filled.
LEMMA BeginCopyTypes ==
  ASSUME NEW n \in Nat, BeginCopy(n)
  PROVE  /\ copyCapacity' = n /\ copy' = NoStrings(n) /\ copyCount' = 0 /\ copyNext' = 0
         /\ copyCapacity' \in Nat /\ copyCount' \in Nat /\ copyNext' \in Nat
         /\ copy' \in Arrays(copyCapacity')
BY ClearedStrings DEF BeginCopy

\* The fields of the table and of the calls in progress keep their types.
THEOREM StringTypes == StringSpec => []StringTypeOK
<1>1. InitStrings => StringTypeOK
  BY ClearedStrings DEF InitStrings, StringTypeOK, AllFree, Arrays
<1>2. StringTypeOK /\ [NextString]_stringVars => StringTypeOK'
  <2>. SUFFICES ASSUME StringTypeOK, [NextString]_stringVars
                PROVE  StringTypeOK'
    OBVIOUS
  <2>. USE DEF StringTypeOK
  <2>1. ASSUME NEW t \in Text, CopyString(t)
        PROVE  StringTypeOK'
    <3>1. UNCHANGED <<content, table, phase, arriving, marked, filling>> /\ wanted' \in Text \cup {Free}
          /\ phase = "idle"
      BY <2>1 DEF CopyString, Waiting
    <3>. QED BY <3>1 DEF table, filling, Live
  <2>2. ASSUME NEW a \in Address, AllocString(a)
        PROVE  StringTypeOK'
    <3>1. /\ UNCHANGED <<table, wanted, marked>> /\ phase = "idle" /\ wanted # Free
          /\ content' = [content EXCEPT ![a] = wanted] /\ arriving' = a
          /\ phase' \in {"put", "grow"}
          /\ UNCHANGED filling \/ BeginCopy(GrowCapacity(stringCapacity))
      BY <2>2 DEF AllocString
    <3>2. GrowCapacity(stringCapacity) \in Nat BY ProbingAssumption DEF GrowCapacity
    <3>3. /\ copyCapacity' \in Nat /\ copyCount' \in Nat /\ copyNext' \in Nat
          /\ copy' \in Arrays(copyCapacity')
      BY <3>1, <3>2, BeginCopyTypes DEF filling, Arrays
    <3>. QED BY <3>1, <3>3 DEF table, Arrays
  <2>3. CASE PutString
    <3>1. /\ phase = "put" /\ phase' = "idle" /\ wanted' = Free /\ arriving' = NoString
          /\ UNCHANGED <<content, stringCapacity, marked, filling>> /\ stringCount' = stringCount + 1
          /\ strings' \in [Slots(stringCapacity) -> Address \cup {NoString}]
      BY <2>3 DEF PutString
    <3>. QED BY <3>1 DEF filling
  <2>4. CASE CopyOne
    <3>1. /\ phase \in {"grow", "prune"} /\ copyNext' = copyNext + 1
          /\ UNCHANGED <<content, table, phase, wanted, arriving, marked, copyCapacity>>
      BY <2>4 DEF CopyOne
    <3>2. copyCount' \in Nat BY <2>4 DEF CopyOne, Counted
    <3>3. copy' \in [Slots(copyCapacity) -> Address \cup {NoString}]
      <4>1. copyNext < stringCapacity BY <2>4 DEF CopyOne
      <4>2. strings[copyNext] \in Address \cup {NoString} BY <4>1 DEF Slots
      <4>3. copy' = copy \/ \E s \in Slots(copyCapacity) : copy' = [copy EXCEPT ![s] = strings[copyNext]]
        BY <2>4 DEF CopyOne
      <4>. QED BY <4>2, <4>3
    <3>. QED BY <3>1, <3>2, <3>3 DEF table, Live
  <2>5. CASE EndGrowth
    <3>1. /\ phase = "grow" /\ phase' = "put" /\ strings' = copy /\ stringCapacity' = copyCapacity
          /\ UNCHANGED <<content, stringCount, wanted, arriving, marked>> /\ BeginCopy(0)
      BY <2>5 DEF EndGrowth, EndCopy
    <3>2. wanted' # Free /\ arriving' \in Address /\ marked' = {} BY <3>1
    <3>3. strings' \in [Slots(stringCapacity') -> Address \cup {NoString}] /\ stringCapacity' \in Nat
      BY <3>1
    <3>4. /\ copyCapacity' \in Nat /\ copyCount' \in Nat /\ copyNext' \in Nat
          /\ copy' \in Arrays(copyCapacity')
      BY <3>1, BeginCopyTypes
    <3>. QED BY <3>1, <3>2, <3>3, <3>4 DEF Arrays
  <2>6. ASSUME NEW roots \in SUBSET Live, CollectStrings(roots)
        PROVE  StringTypeOK'
    <3>1. /\ UNCHANGED <<content, table, wanted, arriving>> /\ phase = "idle" /\ marked' = roots
          /\ phase' \in {"sweep", "prune"}
          /\ UNCHANGED filling \/ BeginCopy(stringCapacity)
      BY <2>6 DEF CollectStrings
    <3>2. /\ copyCapacity' \in Nat /\ copyCount' \in Nat /\ copyNext' \in Nat
          /\ copy' \in Arrays(copyCapacity')
      <4>1. CASE UNCHANGED filling BY <4>1 DEF filling, Arrays
      <4>2. CASE BeginCopy(stringCapacity) BY <4>2, BeginCopyTypes
      <4>. QED BY <3>1, <4>1, <4>2
    <3>3. arriving' = NoString /\ marked' \subseteq Live' BY <3>1 DEF Live
    <3>4. phase' = "prune" => copyCapacity' = stringCapacity'
      <4>1. phase' = "prune" => copyCapacity' = stringCapacity
        BY <2>6 DEF CollectStrings, BeginCopy
      <4>. QED BY <3>1, <4>1 DEF table
    <3>5. /\ content' = content /\ stringCount' = stringCount /\ stringCapacity' = stringCapacity
          /\ strings' = strings /\ wanted' = wanted /\ phase' \in {"sweep", "prune"}
      BY <3>1 DEF table
    <3>. QED BY <3>2, <3>3, <3>4, <3>5 DEF Arrays
  <2>7. CASE EndPrune
    <3>1. /\ phase = "prune" /\ phase' = "sweep" /\ strings' = copy /\ stringCount' = copyCount
          /\ UNCHANGED <<content, stringCapacity, wanted, arriving, marked>> /\ BeginCopy(0)
      BY <2>7 DEF EndPrune, EndCopy
    <3>2. strings' \in [Slots(stringCapacity') -> Address \cup {NoString}]
      BY <3>1
    <3>3. arriving' = NoString /\ marked' \subseteq Live' BY <3>1 DEF Live
    <3>4. /\ copyCapacity' \in Nat /\ copyCount' \in Nat /\ copyNext' \in Nat
          /\ copy' \in Arrays(copyCapacity')
      BY <3>1, BeginCopyTypes
    <3>. QED BY <3>1, <3>2, <3>3, <3>4 DEF Arrays
  <2>8. CASE SweepStrings
    BY <2>8 DEF SweepStrings, table, filling
  <2>9. CASE FreeStrings
    BY <2>9, ClearedStrings DEF FreeStrings, Waiting, AllFree, Arrays, filling
  <2>10. CASE UNCHANGED stringVars
    BY <2>10 DEF stringVars, table, filling, Live
  <2>. QED BY <2>1, <2>2, <2>3, <2>4, <2>5, <2>6, <2>7, <2>8, <2>9, <2>10 DEF NextString
<1>. QED BY <1>1, <1>2, PTL DEF StringSpec

(***************************************************************************)
(* The invariant, action by action                                         *)
(***************************************************************************)

\* What the steps have in common: the parts of the invariant other than types.
Rest == TableHolds /\ OneText /\ CopyHolds /\ StringLoad

\* An array of no slots holds nothing.
LEMMA NoSlots ==
  ASSUME NEW es, NEW c
  PROVE  Slots(0) = {} /\ Distinct(es, 0) /\ Chained(c, es, 0)
BY DEF Slots, Distinct, Chained

\* The invariant holds of a new state.
LEMMA StringInvInit == InitStrings => StringInv
<1>. SUFFICES ASSUME InitStrings PROVE StringInv
  OBVIOUS
<1>1. /\ content = AllFree /\ stringCount = 0 /\ stringCapacity = 0 /\ strings = NoStrings(0)
      /\ phase = "idle" /\ wanted = Free /\ arriving = NoString /\ marked = {}
      /\ copyCapacity = 0 /\ copy = NoStrings(0) /\ copyCount = 0 /\ copyNext = 0
  BY DEF InitStrings
<1>2. StringTypeOK BY <1>1, ClearedStrings DEF StringTypeOK, AllFree, Arrays
<1>3. Live = {} BY <1>1 DEF Live, AllFree
<1>5. TableHolds BY <1>1, <1>3, NoSlots, ClearedStrings DEF TableHolds, InTable
<1>6. OneText BY <1>1, <1>3 DEF OneText
<1>7. CopyHolds BY <1>1, NoSlots DEF CopyHolds
<1>8. StringLoad BY <1>1, ClearedStrings DEF StringLoad, MaxLoad
<1>. QED BY <1>2, <1>5, <1>6, <1>7, <1>8 DEF StringInv

\* A search that ends at an empty slot has missed nothing.
LEMMA SearchMisses ==
  ASSUME StringInv, phase = "idle", NEW t \in Text,
         NEW s \in Slots(stringCapacity), FindsString(t, s), strings[s] = NoString
  PROVE  \A a \in Live : content[a] # t
<1>. USE DEF StringInv, StringTypeOK
<1>. SUFFICES ASSUME NEW a \in Live, content[a] = t PROVE FALSE
  OBVIOUS
<1>1. a \in Address /\ a # NoString /\ a \in InTable
  BY StringsAssumption DEF Live, InTable
<1>2. PICK q \in Slots(stringCapacity) : strings[q] = a
  BY <1>1 DEF TableHolds
<1>3. q # s BY <1>1, <1>2
<1>4. Hash[t] \in Nat /\ stringCapacity > 0 BY StringsAssumption DEF Slots
<1>5. ~Before(t, q, s, stringCapacity) BY <1>2 DEF FindsString, Matches
<1>6. ~Before(t, s, q, stringCapacity) BY <1>1, <1>2 DEF TableHolds, Chained
<1>. QED BY <1>3, <1>4, <1>5, <1>6, ProbeOrder

\* An empty table has no strings.
LEMMA NoTableNoStrings ==
  ASSUME StringInv, phase = "idle", stringCapacity = 0
  PROVE  Live = {}
<1>2. Live \subseteq Address /\ arriving = NoString BY DEF Live, StringInv, StringTypeOK
<1>3. \A a \in Live : a \in InTable BY <1>2, StringsAssumption DEF InTable
<1>. QED BY <1>2, <1>3, NoSlots DEF StringInv, TableHolds

\* A text that is to be allocated is new.
LEMMA KeptByCopyString ==
  ASSUME StringInv, NEW t \in Text, CopyString(t)
  PROVE  Rest'
<1>. USE DEF StringInv, StringTypeOK
<1>1. /\ phase = "idle" /\ wanted = Free
      /\ UNCHANGED <<content, stringCount, stringCapacity, strings, phase, arriving, marked,
                     copyCapacity, copy, copyCount, copyNext>>
  BY DEF CopyString, Waiting, table, filling
<1>2. TableHolds' BY <1>1 DEF TableHolds, InTable, Live
<1>3. CopyHolds' BY <1>1 DEF CopyHolds, Kept
<1>4. StringLoad' BY <1>1 DEF StringLoad, PassedStrings
<1>5. wanted' # wanted => wanted' = t /\ \A a \in Live : content[a] # t
  <2>1. CASE stringCapacity = 0 BY <2>1, <1>1, NoTableNoStrings DEF CopyString
  <2>2. CASE stringCapacity # 0
    <3>1. PICK s \in Slots(stringCapacity) :
            FindsString(t, s) /\ (wanted' # wanted => strings[s] = NoString /\ wanted' = t)
      BY <2>2 DEF CopyString
    <3>. QED BY <3>1, <1>1, SearchMisses
  <2>. QED BY <2>1, <2>2
<1>6. OneText' BY <1>1, <1>5, StringsAssumption DEF OneText, Live
<1>. QED BY <1>2, <1>3, <1>4, <1>6 DEF Rest

\* The new string is not in the table yet; a table that grows is empty at first.
LEMMA KeptByAllocString ==
  ASSUME StringInv, NEW a \in Address, AllocString(a)
  PROVE  Rest'
<1>. USE DEF StringInv, StringTypeOK
<1>1. /\ phase = "idle" /\ wanted # Free /\ content[a] = Free /\ arriving = NoString
      /\ content' = [content EXCEPT ![a] = wanted] /\ arriving' = a
      /\ stringCount' = stringCount /\ stringCapacity' = stringCapacity /\ strings' = strings
      /\ wanted' = wanted /\ marked' = marked /\ phase' \in {"put", "grow"}
  BY DEF AllocString, table
<1>2. Live' = Live \cup {a} /\ a \notin Live /\ a # NoString
  BY <1>1, StringsAssumption DEF Live
<1>3. InTable = Live /\ InTable' = Live
  BY <1>1, <1>2, StringsAssumption DEF InTable, Live
<1>4. \A s \in Slots(stringCapacity) : strings[s] # NoString => strings[s] \in Live
  BY <1>3 DEF TableHolds
<1>5. Chained(content', strings, stringCapacity)
  <2>1. \A s \in Slots(stringCapacity) : strings[s] # NoString => content'[strings[s]] = content[strings[s]]
    BY <1>1, <1>2, <1>4 DEF Live
  <2>2. Chained(content, strings, stringCapacity) BY DEF TableHolds
  <2>. QED BY <2>1, <2>2 DEF Chained
<1>6. TableHolds' BY <1>1, <1>3, <1>5 DEF TableHolds
<1>7. OneText'
  <2>1. \A b \in Live : b # a /\ content'[b] = content[b] /\ content[b] # wanted
    BY <1>1, <1>2, StringsAssumption DEF OneText, Live
  <2>2. content'[a] = wanted BY <1>1
  <2>. QED BY <1>1, <1>2, <2>1, <2>2 DEF OneText
<1>8. CASE phase' = "put"
  <2>1. stringCount + 1 <= MaxLoad(stringCapacity) /\ UNCHANGED <<copyCapacity, copy, copyCount, copyNext>>
    BY <1>8 DEF AllocString, filling
  <2>2. copyCapacity = 0 BY <1>1 DEF StringLoad
  <2>3. CopyHolds'
    <3>1. copyCapacity' = 0 /\ phase' \notin {"grow", "prune"} BY <1>8, <2>1, <2>2
    <3>. QED BY <3>1, NoSlots DEF CopyHolds
  <2>4. Held(strings', stringCapacity') = Held(strings, stringCapacity) BY <1>1 DEF Held
  <2>5. copyCapacity' = 0 BY <2>1, <2>2
  <2>6. StringLoad' BY <1>1, <1>8, <2>1, <2>4, <2>5 DEF StringLoad
  <2>. QED BY <1>6, <1>7, <2>3, <2>6 DEF Rest
<1>9. CASE phase' = "grow"
  <2>1. BeginCopy(GrowCapacity(stringCapacity)) BY <1>9 DEF AllocString
  <2>2. GrowCapacity(stringCapacity) \in Nat BY GrowthMakesRoom DEF StringLoad
  <2>3. /\ copyCapacity' = GrowCapacity(stringCapacity) /\ copy' = NoStrings(GrowCapacity(stringCapacity))
        /\ copyCount' = 0 /\ copyNext' = 0
    BY <2>1 DEF BeginCopy
  <2>4. /\ \A s \in Slots(copyCapacity') : copy'[s] = NoString
        /\ Cardinality(Held(copy', copyCapacity')) = 0
        /\ Distinct(copy', copyCapacity') /\ Chained(content', copy', copyCapacity')
    BY <2>2, <2>3, ClearedStrings
  <2>6. CopyHolds' BY <1>1, <2>3, <2>4, NoSlots DEF CopyHolds
  <2>7. Cardinality(PassedStrings') = 0 BY <2>3, NoSlots, FS_EmptySet DEF PassedStrings
  <2>8. StringLoad' BY <1>1, <1>9, <2>3, <2>4, <2>7 DEF StringLoad
  <2>. QED BY <1>6, <1>7, <2>6, <2>8 DEF Rest
<1>. QED BY <1>1, <1>8, <1>9

\* The string that arrived goes where the search for its text will stop.
LEMMA KeptByPutString ==
  ASSUME StringInv, PutString
  PROVE  Rest'
<1>. USE DEF StringInv, StringTypeOK
<1>1. /\ phase = "put" /\ phase' = "idle" /\ wanted' = Free /\ arriving' = NoString
      /\ wanted # Free /\ arriving \in Address /\ arriving # NoString
      /\ content' = content /\ stringCapacity' = stringCapacity /\ marked' = marked
      /\ copyCapacity' = copyCapacity /\ copyCapacity = 0 /\ stringCount' = stringCount + 1
  BY StringsAssumption DEF PutString, filling, StringLoad
<1>2. PICK s \in Slots(stringCapacity) :
        /\ FindsRoom(strings, stringCapacity, arriving, s)
        /\ strings' = [strings EXCEPT ![s] = arriving]
  BY DEF PutString
<1>3. content[arriving] = wanted /\ Hash[content[arriving]] \in Nat
  BY <1>1, StringsAssumption DEF OneText
<1>4. arriving \in Live /\ InTable = Live \ {arriving} /\ InTable' = Live
  BY <1>1, <1>3, StringsAssumption DEF InTable, Live
<1>5. \A t \in Slots(stringCapacity) : strings[t] # arriving
  BY <1>1, <1>4 DEF TableHolds
<1>r. /\ stringCapacity \in Nat /\ strings \in Arrays(stringCapacity) /\ strings[s] = NoString
      /\ \A x \in Slots(stringCapacity) :
           Before(content[arriving], x, s, stringCapacity) => strings[x] # NoString
      /\ Distinct(strings, stringCapacity) /\ Chained(content, strings, stringCapacity)
  BY <1>2 DEF FindsRoom, TableHolds, Arrays
<1>6. /\ strings'[s] = arriving /\ \A t \in Slots(stringCapacity) : t # s => strings'[t] = strings[t]
      /\ Distinct(strings', stringCapacity) /\ Chained(content, strings', stringCapacity)
      /\ Cardinality(Held(strings', stringCapacity)) = Cardinality(Held(strings, stringCapacity)) + 1
  <2>. HIDE DEF StringInv, StringTypeOK
  <2>1. strings' = [strings EXCEPT ![s] = arriving] BY <1>2
  <2>2. arriving \in Address BY <1>1
  <2>3. WasPut([strings EXCEPT ![s] = arriving], strings, content, stringCapacity, arriving, s)
    BY <1>3, <1>5, <1>r, <2>2, PutKeepsArray
  <2>. QED BY <2>1, <2>3 DEF WasPut
<1>7. \A a \in Address : a \in InTable' <=> \E t \in Slots(stringCapacity) : strings'[t] = a
  <2>1. strings[s] = NoString BY <1>2 DEF FindsRoom
  <2>2. \A a \in Address : a # NoString BY StringsAssumption
  <2>3. \A a \in Address : a \in InTable <=> \E t \in Slots(stringCapacity) : strings[t] = a
    BY DEF TableHolds
  <2>. QED BY <1>4, <1>6, <2>1, <2>2, <2>3
<1>8. TableHolds' BY <1>1, <1>6, <1>7 DEF TableHolds
<1>9. \A a \in Live : content[a] \in Text BY DEF Live
<1>10. OneText' BY <1>1, <1>9, StringsAssumption DEF OneText, Live
<1>11. CopyHolds' BY <1>1, NoSlots DEF CopyHolds
<1>12. StringLoad' BY <1>1, <1>6 DEF StringLoad
<1>. QED BY <1>8, <1>10, <1>11, <1>12 DEF Rest

\* One more slot of the old array is passed.
LEMMA PassOne ==
  ASSUME StringInv, copyNext < stringCapacity, copyNext' = copyNext + 1,
         strings' = strings
  PROVE  /\ copyNext \in Slots(stringCapacity) /\ copyNext \notin Slots(copyNext)
         /\ Slots(copyNext') = Slots(copyNext) \cup {copyNext}
         /\ strings[copyNext] = NoString => PassedStrings' = PassedStrings
         /\ strings[copyNext] # NoString =>
              Cardinality(PassedStrings') = Cardinality(PassedStrings) + 1
         /\ Cardinality(PassedStrings) \in Nat /\ Cardinality(PassedStrings') \in Nat
         /\ Cardinality(PassedStrings) <= Cardinality(PassedStrings')
<1>1. copyNext \in Nat /\ stringCapacity \in Nat BY DEF StringInv, StringTypeOK
<1>2. /\ copyNext \in Slots(stringCapacity) /\ copyNext \notin Slots(copyNext)
      /\ Slots(copyNext') = Slots(copyNext) \cup {copyNext}
  BY <1>1 DEF Slots
<1>3. copyNext \notin PassedStrings
      /\ PassedStrings' = IF strings[copyNext] = NoString THEN PassedStrings ELSE PassedStrings \cup {copyNext}
  BY <1>2 DEF PassedStrings
<1>4. IsFiniteSet(PassedStrings) /\ Cardinality(PassedStrings) \in Nat
  BY <1>1, SlotsFinite DEF PassedStrings
<1>5. Cardinality(PassedStrings \cup {copyNext}) = Cardinality(PassedStrings) + 1
  BY <1>3, <1>4, FS_AddElement
<1>6. CASE strings[copyNext] = NoString
  <2>1. PassedStrings' = PassedStrings BY <1>3, <1>6
  <2>. QED BY <1>2, <1>4, <1>6, <2>1
<1>7. CASE strings[copyNext] # NoString
  <2>1. Cardinality(PassedStrings') = Cardinality(PassedStrings) + 1 BY <1>3, <1>5, <1>7
  <2>. QED BY <1>2, <1>4, <1>7, <2>1
<1>. QED BY <1>6, <1>7

\* A string is copied where it will be found; what is not kept is passed over.
LEMMA KeptByCopyOne ==
  ASSUME StringInv, CopyOne
  PROVE  Rest'
<1>. DEFINE a == strings[copyNext]
<1>1. /\ phase \in {"grow", "prune"} /\ phase' = phase /\ copyNext < stringCapacity
      /\ copyNext' = copyNext + 1 /\ copyCapacity' = copyCapacity
      /\ content' = content /\ stringCount' = stringCount /\ stringCapacity' = stringCapacity
      /\ strings' = strings /\ wanted' = wanted /\ arriving' = arriving /\ marked' = marked
  BY DEF CopyOne, table
<1>2. /\ TableHolds /\ OneText /\ CopyHolds /\ StringLoad
      /\ copyCapacity \in Nat /\ stringCapacity \in Nat /\ copyNext \in Nat /\ copyCount \in Nat
      /\ copy \in Arrays(copyCapacity) /\ strings \in Arrays(stringCapacity)
  BY DEF StringInv, StringTypeOK, Arrays
<1>3. copyNext \in Slots(stringCapacity) /\ copyNext \notin Slots(copyNext)
      /\ Slots(copyNext') = Slots(copyNext) \cup {copyNext} /\ copyNext' <= stringCapacity
  BY <1>1, <1>2, PassOne
<1>4. TableHolds' BY <1>1, <1>2 DEF TableHolds, InTable, Live
<1>5. OneText' BY <1>1, <1>2 DEF OneText, Live
<1>6. \A b : Kept(b)' = Kept(b) BY <1>1 DEF Kept
<1>7. \A b : Kept(b) => b # NoString BY DEF Kept
<1>8. CASE ~Kept(a)
  <2>1. copy' = copy /\ copyCount' = copyCount BY <1>8 DEF CopyOne
  <2>2. CopyHolds' BY <1>1, <1>2, <1>3, <1>6, <1>8, <2>1 DEF CopyHolds
  <2>3. phase = "grow" => a = NoString BY <1>8, <1>1 DEF Kept
  <2>4. phase = "grow" => PassedStrings' = PassedStrings BY <2>3, <1>1, PassOne
  <2>5. /\ Cardinality(PassedStrings) \in Nat /\ Cardinality(PassedStrings') \in Nat
        /\ Cardinality(PassedStrings) <= Cardinality(PassedStrings')
    BY <1>1, PassOne
  <2>6. StringLoad' BY <1>1, <1>2, <2>1, <2>4, <2>5 DEF StringLoad
  <2>. QED BY <1>4, <1>5, <2>2, <2>6 DEF Rest
<1>9. CASE Kept(a)
  <2>1. PICK s \in Slots(copyCapacity) :
          FindsRoom(copy, copyCapacity, a, s) /\ copy' = [copy EXCEPT ![s] = a]
    BY <1>9 DEF CopyOne
  <2>2. copyCount' = Counted BY <1>9 DEF CopyOne
  <2>3. a # NoString /\ a \in Address /\ a \in Live
    <3>1. a # NoString BY <1>9 DEF Kept
    <3>2. a \in Address BY <3>1, <1>2, <1>3 DEF Arrays
    <3>3. a \in InTable BY <3>2, <1>2, <1>3 DEF TableHolds
    <3>. QED BY <3>1, <3>2, <3>3, <1>1 DEF InTable
  <2>4. Hash[content[a]] \in Nat
    BY <2>3, StringsAssumption DEF StringInv, StringTypeOK, Live
  <2>5. \A t \in Slots(copyCapacity) : copy[t] # a
    <3>. SUFFICES ASSUME NEW t \in Slots(copyCapacity), copy[t] = a PROVE FALSE
      OBVIOUS
    <3>1. PICK u \in Slots(copyNext) : strings[u] = a
      BY <2>3, <1>1, <1>2 DEF CopyHolds
    <3>2. u \in Slots(stringCapacity) /\ u # copyNext BY <1>1, <1>2, <1>3 DEF Slots
    <3>. QED BY <3>1, <3>2, <2>3, <1>2, <1>3 DEF TableHolds, Distinct
  <2>6. WasPut([copy EXCEPT ![s] = a], copy, content, copyCapacity, a, s)
    <3>1. /\ copy[s] = NoString /\ Distinct(copy, copyCapacity) /\ Chained(content, copy, copyCapacity)
          /\ \A x \in Slots(copyCapacity) : Before(content[a], x, s, copyCapacity) => copy[x] # NoString
      BY <2>1, <1>2 DEF FindsRoom, CopyHolds
    <3>. HIDE DEF a
    <3>. QED BY <3>1, <2>3, <2>4, <2>5, <1>2, PutKeepsArray
  <2>7. /\ copy'[s] = a /\ \A t \in Slots(copyCapacity) : t # s => copy'[t] = copy[t]
        /\ Distinct(copy', copyCapacity) /\ Chained(content, copy', copyCapacity)
        /\ Cardinality(Held(copy', copyCapacity)) = Cardinality(Held(copy, copyCapacity)) + 1
        /\ copy[s] = NoString
    BY <2>1, <2>6 DEF WasPut, FindsRoom
  <2>8. \A t \in Slots(copyCapacity) : copy'[t] # NoString =>
          Kept(copy'[t]) /\ \E u \in Slots(copyNext') : strings[u] = copy'[t]
    <3>. SUFFICES ASSUME NEW t \in Slots(copyCapacity), copy'[t] # NoString
                  PROVE  Kept(copy'[t]) /\ \E u \in Slots(copyNext') : strings[u] = copy'[t]
      OBVIOUS
    <3>1. CASE t = s BY <3>1, <2>7, <1>3, <1>9
    <3>2. CASE t # s BY <3>2, <2>7, <1>1, <1>2, <1>3 DEF CopyHolds
    <3>. QED BY <3>1, <3>2
  <2>9. \A t \in Slots(copyNext') : Kept(strings[t]) =>
          \E u \in Slots(copyCapacity) : copy'[u] = strings[t]
    <3>. SUFFICES ASSUME NEW t \in Slots(copyNext'), Kept(strings[t])
                  PROVE  \E u \in Slots(copyCapacity) : copy'[u] = strings[t]
      OBVIOUS
    <3>1. CASE t = copyNext BY <3>1, <2>7
    <3>2. CASE t # copyNext
      <4>1. PICK u \in Slots(copyCapacity) : copy[u] = strings[t]
        BY <3>2, <1>1, <1>2, <1>3 DEF CopyHolds
      <4>2. u # s BY <4>1, <2>7, <1>7
      <4>. QED BY <4>1, <4>2, <2>7
    <3>. QED BY <3>1, <3>2
  <2>10. CopyHolds' BY <1>1, <1>3, <1>6, <2>7, <2>8, <2>9 DEF CopyHolds
  <2>11. Cardinality(PassedStrings') = Cardinality(PassedStrings) + 1
         /\ Cardinality(PassedStrings) \in Nat
    BY <1>1, <2>3, PassOne
  <2>12. StringLoad'
    <3>1. phase = "prune" => copyCount' = copyCount + 1 BY <2>2 DEF Counted
    <3>. QED BY <1>1, <1>2, <2>7, <2>11, <3>1 DEF StringLoad
  <2>. QED BY <1>4, <1>5, <2>10, <2>12 DEF Rest
<1>. QED BY <1>8, <1>9

\* At the end of the loop every slot of the old array is passed.
LEMMA AllPassed ==
  ASSUME copyNext = stringCapacity
  PROVE  PassedStrings = Held(strings, stringCapacity)
BY DEF PassedStrings, Held

\* The grown table holds the same strings, and has room for one more.
LEMMA KeptByEndGrowth ==
  ASSUME StringInv, EndGrowth
  PROVE  Rest'
<1>1. /\ phase = "grow" /\ phase' = "put" /\ copyNext = stringCapacity
      /\ strings' = copy /\ stringCapacity' = copyCapacity /\ copyCapacity' = 0
      /\ content' = content /\ stringCount' = stringCount /\ wanted' = wanted
      /\ arriving' = arriving /\ marked' = marked
  BY DEF EndGrowth, EndCopy, BeginCopy
<1>2. /\ TableHolds /\ OneText /\ CopyHolds /\ StringLoad
      /\ stringCount \in Nat /\ stringCapacity \in Nat
  BY DEF StringInv, StringTypeOK
<1>3. InTable' = InTable BY <1>1 DEF InTable, Live
<1>4. \A b \in Address :
        (\E s \in Slots(stringCapacity) : strings[s] = b) <=> \E s \in Slots(copyCapacity) : copy[s] = b
  BY <1>1, <1>2, StringsAssumption DEF CopyHolds, Kept
<1>5. TableHolds' BY <1>1, <1>2, <1>3, <1>4 DEF TableHolds, CopyHolds
<1>6. OneText' BY <1>1, <1>2 DEF OneText, Live
<1>7. CopyHolds' BY <1>1, NoSlots DEF CopyHolds
<1>8. StringLoad'
  <2>1. /\ copyCapacity = GrowCapacity(stringCapacity) /\ copyCapacity >= MinCapacity
        /\ MaxLoad(stringCapacity) + 1 <= MaxLoad(copyCapacity) /\ copyCapacity \in Nat
    BY <1>1, <1>2, GrowthMakesRoom DEF StringLoad
  <2>2. stringCount = Cardinality(Held(copy, copyCapacity)) /\ stringCount <= MaxLoad(stringCapacity)
    BY <1>1, <1>2, AllPassed DEF StringLoad
  <2>3. MaxLoad(stringCapacity) \in Nat /\ MaxLoad(copyCapacity) \in Nat
    BY <1>2, <2>1 DEF MaxLoad
  <2>. QED BY <1>1, <1>2, <2>1, <2>2, <2>3 DEF StringLoad
<1>. QED BY <1>5, <1>6, <1>7, <1>8 DEF Rest

\* The collector has marked and goes on to the table, if there is one.
LEMMA KeptByCollectStrings ==
  ASSUME StringInv, NEW roots \in SUBSET Live, CollectStrings(roots)
  PROVE  Rest'
<1>1. /\ phase = "idle" /\ marked' = roots /\ content' = content /\ stringCount' = stringCount
      /\ stringCapacity' = stringCapacity /\ strings' = strings /\ wanted' = wanted
      /\ arriving' = arriving
  BY DEF CollectStrings, table
<1>2. /\ TableHolds /\ OneText /\ StringLoad /\ stringCapacity \in Nat /\ arriving = NoString
  BY <1>1 DEF StringInv, StringTypeOK
<1>3. OneText' BY <1>1, <1>2 DEF OneText, Live
<1>4. CASE stringCapacity = 0
  <2>1. phase' = "sweep" /\ copyCapacity' = copyCapacity
    BY <1>4 DEF CollectStrings, filling
  <2>2. Live = {} BY <1>1, <1>4, NoTableNoStrings
  <2>3. TableHolds' BY <1>1, <1>2, <2>1, <2>2 DEF TableHolds, InTable
  <2>4. copyCapacity' = 0 BY <1>1, <1>2, <2>1 DEF StringLoad
  <2>5. CopyHolds' BY <2>1, <2>4, NoSlots DEF CopyHolds
  <2>6. StringLoad' BY <1>1, <1>2, <2>1, <2>4 DEF StringLoad
  <2>. QED BY <1>3, <2>3, <2>5, <2>6 DEF Rest
<1>5. CASE stringCapacity # 0
  <2>1. phase' = "prune" /\ copyCapacity' = stringCapacity /\ copy' = NoStrings(stringCapacity)
        /\ copyCount' = 0 /\ copyNext' = 0
    BY <1>5 DEF CollectStrings, BeginCopy
  <2>2. TableHolds' BY <1>1, <1>2, <2>1 DEF TableHolds, InTable, Live
  <2>3. /\ \A s \in Slots(copyCapacity') : copy'[s] = NoString
        /\ Cardinality(Held(copy', copyCapacity')) = 0
        /\ Distinct(copy', copyCapacity') /\ Chained(content', copy', copyCapacity')
    BY <1>2, <2>1, ClearedStrings
  <2>4. CopyHolds' BY <1>1, <1>2, <2>1, <2>3, NoSlots DEF CopyHolds
  <2>5. Cardinality(PassedStrings') = 0 BY <2>1, NoSlots, FS_EmptySet DEF PassedStrings
  <2>6. StringLoad' BY <1>1, <1>2, <2>1, <2>3, <2>5 DEF StringLoad
  <2>. QED BY <1>3, <2>2, <2>4, <2>6 DEF Rest
<1>. QED BY <1>4, <1>5

\* The rebuilt table holds the marked strings, and counts them.
LEMMA KeptByEndPrune ==
  ASSUME StringInv, EndPrune
  PROVE  Rest'
<1>1. /\ phase = "prune" /\ phase' = "sweep" /\ copyNext = stringCapacity
      /\ strings' = copy /\ stringCount' = copyCount /\ stringCapacity' = stringCapacity
      /\ copyCapacity' = 0 /\ content' = content /\ wanted' = wanted
      /\ arriving' = arriving /\ marked' = marked
  BY DEF EndPrune, EndCopy, BeginCopy
<1>2. /\ TableHolds /\ OneText /\ CopyHolds /\ StringLoad /\ marked \subseteq Live /\ arriving = NoString
      /\ stringCount \in Nat /\ stringCapacity \in Nat /\ copyCapacity = stringCapacity /\ copyCount \in Nat
  BY <1>1 DEF StringInv, StringTypeOK
<1>3. InTable' = marked BY <1>1 DEF InTable
<1>4. \A b \in Address : b \in marked <=> \E s \in Slots(copyCapacity) : copy[s] = b
  <2>. SUFFICES ASSUME NEW b \in Address
                PROVE  b \in marked <=> \E s \in Slots(copyCapacity) : copy[s] = b
    OBVIOUS
  <2>1. b # NoString BY StringsAssumption
  <2>2. ASSUME b \in marked PROVE \E s \in Slots(copyCapacity) : copy[s] = b
    <3>1. b \in InTable BY <2>1, <2>2, <1>1, <1>2 DEF InTable
    <3>2. PICK t \in Slots(stringCapacity) : strings[t] = b BY <3>1, <1>2 DEF TableHolds
    <3>3. Kept(strings[t]) BY <3>2, <2>1, <2>2 DEF Kept
    <3>. QED BY <3>2, <3>3, <1>1, <1>2 DEF CopyHolds
  <2>3. ASSUME NEW s \in Slots(copyCapacity), copy[s] = b PROVE b \in marked
    BY <2>1, <2>3, <1>1, <1>2 DEF CopyHolds, Kept
  <2>. QED BY <2>2, <2>3
<1>5. TableHolds' BY <1>1, <1>2, <1>3, <1>4 DEF TableHolds, CopyHolds
<1>6. OneText' BY <1>1, <1>2 DEF OneText, Live
<1>7. CopyHolds' BY <1>1, NoSlots DEF CopyHolds
<1>8. StringLoad'
  <2>1. copyCount = Cardinality(Held(copy, stringCapacity)) /\ copyCount <= stringCount
    BY <1>1, <1>2, AllPassed DEF StringLoad
  <2>2. stringCount <= MaxLoad(stringCapacity) /\ MaxLoad(stringCapacity) \in Nat
    BY <1>2 DEF StringLoad, MaxLoad
  <2>3. copyCount <= MaxLoad(stringCapacity) BY <1>2, <2>1, <2>2
  <2>. QED BY <1>1, <1>2, <2>1, <2>3 DEF StringLoad
<1>. QED BY <1>5, <1>6, <1>7, <1>8 DEF Rest

\* What is freed is in the table no more.
LEMMA KeptBySweepStrings ==
  ASSUME StringInv, SweepStrings
  PROVE  Rest'
<1>1. /\ phase = "sweep" /\ phase' = "idle" /\ stringCount' = stringCount
      /\ content' = [b \in Address |-> IF b \in marked THEN content[b] ELSE Free]
      /\ stringCapacity' = stringCapacity /\ strings' = strings /\ wanted' = wanted
      /\ arriving' = arriving /\ copyCapacity' = copyCapacity
  BY DEF SweepStrings, table, filling
<1>2. /\ TableHolds /\ OneText /\ StringLoad /\ marked \subseteq Live /\ arriving = NoString
      /\ strings \in Arrays(stringCapacity)
  BY <1>1 DEF StringInv, StringTypeOK, Arrays
<1>3. Live' = marked /\ InTable = marked /\ InTable' = marked
  BY <1>1, <1>2, StringsAssumption DEF Live, InTable
<1>4. \A s \in Slots(stringCapacity) : strings[s] # NoString => content'[strings[s]] = content[strings[s]]
  BY <1>1, <1>2, <1>3 DEF TableHolds, Arrays
<1>5. Chained(content', strings, stringCapacity) BY <1>2, <1>4 DEF TableHolds, Chained
<1>6. TableHolds' BY <1>1, <1>2, <1>3, <1>5 DEF TableHolds
<1>7. OneText'
  <2>1. \A b \in marked : b \in Live /\ content'[b] = content[b] BY <1>1, <1>2 DEF Live
  <2>. QED BY <1>1, <1>2, <1>3, <2>1 DEF OneText
<1>8. copyCapacity = 0 BY <1>1, <1>2 DEF StringLoad
<1>9. CopyHolds' BY <1>1, <1>8, NoSlots DEF CopyHolds
<1>10. StringLoad' BY <1>1, <1>2, <1>8 DEF StringLoad
<1>. QED BY <1>6, <1>7, <1>9, <1>10 DEF Rest

\* Nothing is left.
LEMMA KeptByFreeStrings ==
  ASSUME StringInv, FreeStrings
  PROVE  Rest'
<1>1. /\ phase = "idle" /\ wanted = Free /\ phase' = phase /\ content' = AllFree
      /\ stringCount' = 0 /\ stringCapacity' = 0 /\ strings' = NoStrings(0)
      /\ wanted' = wanted /\ arriving' = arriving /\ arriving = NoString /\ copyCapacity' = copyCapacity
  BY DEF FreeStrings, Waiting, filling, StringInv, StringTypeOK
<1>2. Live' = {} BY <1>1 DEF Live, AllFree
<1>3. copyCapacity = 0 BY <1>1 DEF StringInv, StringLoad
<1>4. TableHolds' BY <1>1, <1>2, NoSlots DEF TableHolds, InTable
<1>5. OneText' BY <1>1, <1>2 DEF OneText
<1>6. CopyHolds' BY <1>1, <1>3, NoSlots DEF CopyHolds
<1>7. StringLoad' BY <1>1, <1>3, ClearedStrings DEF StringLoad, MaxLoad
<1>. QED BY <1>4, <1>5, <1>6, <1>7 DEF Rest

(***************************************************************************)
(* What follows from it                                                    *)
(***************************************************************************)

\* StringInv is inductive.
LEMMA StringInvNext == StringInv /\ StringTypeOK' /\ [NextString]_stringVars => StringInv'
<1>. SUFFICES ASSUME StringInv, StringTypeOK', [NextString]_stringVars
              PROVE  Rest'
  BY DEF StringInv, Rest
<1>1. CASE UNCHANGED stringVars
  BY <1>1 DEF StringInv, Rest, TableHolds, OneText, CopyHolds, StringLoad, InTable, Live, Kept,
              PassedStrings, stringVars, table, filling
<1>. QED
  BY <1>1, KeptByCopyString, KeptByAllocString, KeptByPutString, KeptByCopyOne, KeptByEndGrowth,
     KeptByCollectStrings, KeptByEndPrune, KeptBySweepStrings, KeptByFreeStrings DEF NextString

\* StringInv holds in every reachable state.
THEOREM StringInvHolds == StringSpec => []StringInv
<1>1. InitStrings => StringInv BY StringInvInit
<1>2. StringInv /\ StringTypeOK' /\ [NextString]_stringVars => StringInv' BY StringInvNext
<1>. QED BY <1>1, <1>2, StringTypes, PTL DEF StringSpec

\* The loops of tableFindString, tableAddString and removeWhiteStrings end on
\* every table there ever is: its count is right and it has an empty slot.
THEOREM SearchesTerminate == StringSpec => []SearchesEnd
<1>1. StringInv => SearchesEnd
  <2>. SUFFICES ASSUME StringInv PROVE SearchesEnd
    OBVIOUS
  <2>1. /\ StringLoad /\ CopyHolds /\ stringCapacity \in Nat /\ copyCapacity \in Nat
        /\ stringCount \in Nat /\ copyCount \in Nat
        /\ phase = "prune" => copyCapacity = stringCapacity
    BY DEF StringInv, StringTypeOK
  <2>2. HasRoom(strings, stringCapacity) BY <2>1, LoadLeavesRoom DEF StringLoad
  <2>3. HasRoom(copy, copyCapacity)
    <3>1. CASE phase \in {"grow", "prune"}
      <4>0. copyNext <= stringCapacity /\ copyNext \in Nat
        BY <2>1, <3>1 DEF CopyHolds, StringInv, StringTypeOK
      <4>1. /\ PassedStrings \subseteq Held(strings, stringCapacity)
            /\ IsFiniteSet(Held(strings, stringCapacity))
        <5>1. Slots(copyNext) \subseteq Slots(stringCapacity) BY <2>1, <4>0 DEF Slots
        <5>. QED BY <2>1, <5>1, SlotsFinite DEF PassedStrings, Held
      <4>2. /\ Cardinality(PassedStrings) <= Cardinality(Held(strings, stringCapacity))
            /\ Cardinality(PassedStrings) \in Nat
        BY <4>1, FS_Subset, FS_CardinalityType
      <4>3. Cardinality(Held(copy, copyCapacity)) <= Cardinality(PassedStrings)
            /\ Cardinality(Held(copy, copyCapacity)) \in Nat
        BY <2>1, <3>1, <4>2 DEF StringLoad
      <4>4. MaxLoad(stringCapacity) \in Nat /\ MaxLoad(copyCapacity) \in Nat
            /\ MaxLoad(stringCapacity) <= MaxLoad(copyCapacity)
        <5>1. CASE phase = "prune" BY <5>1, <2>1 DEF MaxLoad
        <5>2. CASE phase = "grow"
          <6>1. MaxLoad(stringCapacity) + 1 <= MaxLoad(copyCapacity)
            BY <5>2, <2>1, GrowthMakesRoom DEF StringLoad
          <6>. QED BY <6>1, <2>1 DEF MaxLoad
        <5>. QED BY <3>1, <5>1, <5>2
      <4>5. Cardinality(Held(copy, copyCapacity)) <= MaxLoad(copyCapacity)
        BY <2>1, <4>2, <4>3, <4>4 DEF StringLoad
      <4>. QED BY <2>1, <4>5, LoadLeavesRoom
    <3>2. CASE phase \notin {"grow", "prune"}
      BY <2>1, <3>2 DEF StringLoad, HasRoom
    <3>. QED BY <3>1, <3>2
  <2>. QED BY <2>1, <2>2, <2>3 DEF SearchesEnd, StringLoad
<1>. QED BY <1>1, StringInvHolds, PTL

\* Whatever was collected, and whenever: the strings in the table are those
\* there are, and the search for a text stops at the string that says it.
THEOREM EveryStringFound == StringSpec => []StringsFound
<1>1. StringInv => StringsFound
  <2>. SUFFICES ASSUME StringInv PROVE StringsFound
    OBVIOUS
  <2>1. /\ TableHolds /\ OneText /\ strings \in Arrays(stringCapacity) /\ stringCapacity \in Nat
        /\ content \in [Address -> Text \cup {Free}]
        /\ phase = "sweep" => marked \subseteq Live
    BY DEF StringInv, StringTypeOK, Arrays
  <2>2. InTable \subseteq Live BY <2>1 DEF InTable
  <2>3. \A s \in Slots(stringCapacity) : strings[s] # NoString => strings[s] \in InTable
    BY <2>1 DEF TableHolds, Arrays
  <2>4. ASSUME NEW a \in InTable
        PROVE  \E s \in Slots(stringCapacity) : strings[s] = a /\ FindsString(content[a], s)
    <3>1. a \in Live /\ a \in Address /\ a # NoString /\ Hash[content[a]] \in Nat
      BY <2>1, <2>2, <2>4, StringsAssumption DEF Live
    <3>2. PICK s \in Slots(stringCapacity) : strings[s] = a BY <2>1, <3>1 DEF TableHolds
    <3>3. ASSUME NEW x \in Slots(stringCapacity), Before(content[a], x, s, stringCapacity)
          PROVE  ~Matches(strings[x], content[a])
      <4>1. strings[x] # NoString BY <2>1, <3>1, <3>2, <3>3 DEF TableHolds, Chained
      <4>2. stringCapacity > 0 BY <2>1 DEF Slots
      <4>3. x # s BY <2>1, <3>1, <3>3, <4>2, ProbeOrder
      <4>4. strings[x] # a BY <2>1, <3>2, <4>1, <4>3 DEF TableHolds, Distinct
      <4>5. strings[x] \in Live BY <2>2, <2>3, <4>1
      <4>. QED BY <2>1, <3>1, <4>1, <4>4, <4>5 DEF OneText, Matches
    <3>. QED BY <3>2, <3>3 DEF FindsString, Matches
  <2>. QED BY <2>3, <2>4 DEF StringsFound
<1>. QED BY <1>1, StringInvHolds, PTL

(***************************************************************************)
(* A text is one string                                                    *)
(***************************************************************************)

\* Every step of the table is a step of the abstract interning or none.
LEMMA StepsAreInterningSteps ==
  StringInv /\ [NextString]_stringVars => [AsInterning!Next]_(AsInterning!vars)
<1>. SUFFICES ASSUME StringInv, [NextString]_stringVars
              PROVE  AsInterning!Next \/ UNCHANGED <<Pool, answer>>
  BY DEF AsInterning!vars
<1>t. /\ TableHolds /\ OneText /\ content \in [Address -> Text \cup {Free}]
      /\ strings \in Arrays(stringCapacity) /\ arriving \in Address \cup {NoString}
      /\ phase \in {"put", "grow"} <=> arriving # NoString
  BY StringsAssumption DEF StringInv, StringTypeOK, Arrays
<1>1. ASSUME NEW t \in Text, CopyString(t)
      PROVE  AsInterning!Next \/ UNCHANGED <<Pool, answer>>
  <2>1. content' = content /\ arriving' = arriving /\ phase = "idle" /\ Pool' = Pool
    BY <1>1 DEF CopyString, Waiting, Pool
  <2>2. CASE answer' = answer BY <2>1, <2>2
  <2>3. CASE answer' # answer
    <3>1. PICK s \in Slots(stringCapacity) :
            FindsString(t, s) /\ strings[s] # NoString /\ answer' = <<t, strings[s]>>
      BY <1>1, <2>3 DEF CopyString
    <3>2. strings[s] \in Address /\ content[strings[s]] = t /\ arriving = NoString
      BY <1>t, <2>1, <3>1 DEF FindsString, Matches, Arrays
    <3>3. Pool[strings[s]] = t BY <3>2, StringsAssumption DEF Pool
    <3>4. AsInterning!Found(t) BY <2>1, <3>1, <3>2, <3>3 DEF AsInterning!Found
    <3>. QED BY <3>4 DEF AsInterning!Next
  <2>. QED BY <2>2, <2>3
<1>2. ASSUME NEW a \in Address, AllocString(a)
      PROVE  UNCHANGED <<Pool, answer>>
  <2>1. content[a] = Free /\ content' = [content EXCEPT ![a] = wanted] /\ arriving' = a
        /\ phase = "idle" /\ answer' = answer
    BY <1>2 DEF AllocString
  <2>2. arriving = NoString BY <1>t, <2>1
  <2>. QED BY <1>t, <2>1, <2>2, StringsAssumption DEF Pool
<1>3. CASE PutString
  <2>1. content' = content /\ arriving' = NoString /\ phase = "put" /\ answer' = <<wanted, arriving>>
    BY <1>3 DEF PutString
  <2>2. arriving \in Address /\ arriving # NoString /\ content[arriving] = wanted /\ wanted \in Text
    BY <1>t, <2>1, StringsAssumption DEF OneText, StringInv, StringTypeOK
  <2>3. \A a \in Address : Pool[a] # wanted
    BY <1>t, <2>2, StringsAssumption DEF Pool, OneText, Live
  <2>4. Pool[arriving] = Free /\ Pool' = [Pool EXCEPT ![arriving] = wanted]
    BY <1>t, <2>1, <2>2, StringsAssumption DEF Pool
  <2>5. AsInterning!Made(wanted) BY <2>1, <2>2, <2>3, <2>4 DEF AsInterning!Made
  <2>. QED BY <2>2, <2>5 DEF AsInterning!Next
<1>4. CASE CopyOne BY <1>4 DEF CopyOne, Pool
<1>5. CASE EndGrowth BY <1>5 DEF EndGrowth, Pool
<1>6. ASSUME NEW roots \in SUBSET Live, CollectStrings(roots)
      PROVE  UNCHANGED <<Pool, answer>>
  BY <1>6 DEF CollectStrings, Pool
<1>7. CASE EndPrune BY <1>7 DEF EndPrune, Pool
<1>8. CASE SweepStrings
  <2>1. /\ phase = "sweep" /\ answer' = answer /\ arriving' = arriving
        /\ content' = [a \in Address |-> IF a \in marked THEN content[a] ELSE Free]
    BY <1>8 DEF SweepStrings
  <2>2. arriving = NoString /\ marked \in SUBSET Address
    BY <1>t, <2>1 DEF StringInv, StringTypeOK, Live
  <2>3. Pool' = [a \in Address |-> IF a \in marked THEN Pool[a] ELSE Free]
    BY <2>1, <2>2, StringsAssumption DEF Pool
  <2>. QED BY <2>1, <2>2, <2>3 DEF AsInterning!Collect, AsInterning!Next
<1>9. CASE FreeStrings
  <2>1. content' = AllFree /\ answer' = answer /\ arriving' = arriving
    BY <1>9 DEF FreeStrings
  <2>2. Pool' = [a \in Address |-> IF a \in {} THEN Pool[a] ELSE Free]
    BY <2>1 DEF Pool, AllFree
  <2>3. {} \in SUBSET Address OBVIOUS
  <2>4. AsInterning!Collect BY <2>1, <2>2, <2>3 DEF AsInterning!Collect
  <2>. QED BY <2>4 DEF AsInterning!Next
<1>10. CASE UNCHANGED stringVars BY <1>10 DEF stringVars, Pool
<1>. QED
  BY <1>1, <1>2, <1>3, <1>4, <1>5, <1>6, <1>7, <1>8, <1>9, <1>10 DEF NextString

\* A text asked for is one string, at one address, whatever is collected.
THEOREM OneStringPerText == StringSpec => ImplementsInterning
<1>1. InitStrings => AsInterning!Init
  BY DEF InitStrings, AsInterning!Init, Pool, AllFree
<1>2. StringInv /\ [NextString]_stringVars => [AsInterning!Next]_(AsInterning!vars)
  BY StepsAreInterningSteps
<1>. QED BY <1>1, <1>2, StringInvHolds, PTL DEF StringSpec, ImplementsInterning, AsInterning!Spec
=============================================================================
