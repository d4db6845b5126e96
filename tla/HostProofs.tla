----------------------------- MODULE HostProofs -----------------------------
(***************************************************************************)
(* What the two hosts promise that keep something from call to call: the   *)
(* embedding API, for any number of states, names, host functions and      *)
(* contexts; and the REPL, for every parser, program and way to write it.  *)
(***************************************************************************)
EXTENDS Embedding, Repl, FiniteSetTheorems, TLAPS

(***************************************************************************)
(* The embedding API                                                       *)
(***************************************************************************)
Used == [nq : State, host_fn : HostFn]
Value == Plain \cup {Unset} \cup {NewNative(i) : i \in Contexts}

\* The tags tell natives from everything else.
LEMMA Tags ==
  /\ \A v \in Plain : ~IsNative(v) /\ v # Unset
  /\ ~IsNative(Unset)
  /\ \A i \in Contexts : IsNative(NewNative(i)) /\ NewNative(i)[2] = i
<1>1. \A v \in Plain : ~IsNative(v) /\ v # Unset
  BY HostAssumption DEF IsNative, Unset
<1>2. ~IsNative(Unset) BY DEF IsNative, Unset
<1>3. \A i \in Contexts : IsNative(NewNative(i)) /\ NewNative(i)[2] = i
  BY DEF IsNative, NewNative
<1>. QED BY <1>1, <1>2, <1>3

\* What ContextsOwned asks of a value of state s.
Owned(s, v) == IsNative(v) => v[2] \in Contexts /\ v[2] < ctxCount /\ ctxs[v[2]].nq = s

\* ContextsOwned, value by value.
LEMMA OwnedByValue ==
  ASSUME ContextsOwned
  PROVE  \A s \in State, n \in Name : Owned(s, globals[s][n])
<1>. SUFFICES ASSUME NEW s \in State, NEW n \in Name, IsNative(globals[s][n])
              PROVE  globals[s][n][2] \in Contexts /\ globals[s][n][2] < ctxCount
                     /\ ctxs[globals[s][n][2]].nq = s
  BY DEF Owned
<1>1. globals[s][n] \in Value BY DEF ContextsOwned, Value
<1>2. PICK i \in Contexts : globals[s][n] = NewNative(i) BY <1>1, Tags DEF Value
<1>3. globals[s][n][2] \in Natives(s) BY DEF Natives
<1>. QED BY <1>2, <1>3, Tags DEF ContextsOwned

\* A state that holds nothing and everything else as it was.
LEMMA WithoutGlobals ==
  ASSUME ContextsOwned, globals' = [r \in State |-> NoGlobals], UNCHANGED <<ctxs, ctxCount>>,
         states' \subseteq State, ruined' \subseteq states', alone' \in BOOLEAN
  PROVE  ContextsOwned'
<1>1. NoGlobals \in [Name -> Value] BY DEF NoGlobals, Value
<1>2. globals' \in [State -> [Name -> Value]] BY <1>1
<1>3. \A r \in State : Natives(r)' = {} BY Tags DEF Natives, NoGlobals
<1>. QED BY <1>2, <1>3 DEF ContextsOwned, Value

\* What a ruined state shows apart, a name leads to what it is bound to.
LEMMA FindsBound ==
  ASSUME NEW s \in State, NEW n \in Name, NEW v \in Finds(s, n), ContextsOwned
  PROVE  v \in Value /\ (s \notin ruined => v = globals[s][n])
BY DEF Finds, Value, ContextsOwned

\* A binding of a value that the state may hold keeps the natives owned.
LEMMA SetGlobalKeeps ==
  ASSUME ContextsOwned, NEW s \in State, NEW n \in Name, NEW v \in Value,
         s \notin ruined => Owned(s, v),
         SetGlobal(s, n, v), UNCHANGED <<ctxs, ctxCount>>
  PROVE  ContextsOwned'
<1>. CASE s \in ruined BY DEF SetGlobal, ContextsOwned, Natives
<1>. CASE s \notin ruined
  <2>1. /\ globals' = [globals EXCEPT ![s][n] = v] /\ s \in states
        /\ UNCHANGED <<states, ruined, alone>>
        /\ globals' \in [State -> [Name -> Value]]
    BY DEF SetGlobal, ContextsOwned, Value
  <2>2. \A r \in State : \A i \in Natives(r)' : i < ctxCount /\ ctxs[i].nq = r
    <3>. SUFFICES ASSUME NEW r \in State, NEW m \in Name, IsNative(globals'[r][m])
                  PROVE  globals'[r][m][2] < ctxCount /\ ctxs[globals'[r][m][2]].nq = r
      BY DEF Natives
    <3>1. CASE r = s /\ m = n BY <3>1, <2>1 DEF Owned, ContextsOwned
    <3>2. CASE ~(r = s /\ m = n)
      <4>1. globals'[r][m] = globals[r][m] BY <3>2, <2>1 DEF ContextsOwned
      <4>. QED BY <4>1, OwnedByValue DEF Owned
    <3>. QED BY <3>1, <3>2
  <2>3. \A r \in (State \ states') \cup ruined' : globals'[r] = NoGlobals
    BY <2>1 DEF ContextsOwned
  <2>. QED BY <2>1, <2>2, <2>3 DEF ContextsOwned, Value
<1>. QED OBVIOUS

\* A context that is taken is the next one, and no other changes.
LEMMA TakesNext ==
  ASSUME ContextsOwned, NEW s \in State, NEW n \in Name, NEW f \in HostFn, Registers(s, n, f)
  PROVE  /\ ctxCount \in Contexts /\ ctxCount' = ctxCount + 1 /\ s \in states
         /\ ctxs' \in [Contexts -> Used \cup {NoContext}]
         /\ ctxs'[ctxCount] = [nq |-> s, host_fn |-> f]
         /\ \A i \in Contexts : i < ctxCount => ctxs'[i] = ctxs[i] /\ ctxs[i] \in Used
<1>1. ctxCount \in 0 .. MaxNatives /\ MaxNatives \in Nat /\ ctxCount < MaxNatives
  BY HostAssumption DEF ContextsOwned, Registers, Full
<1>2. ctxCount \in Contexts BY <1>1 DEF Contexts
<1>3. /\ ctxs' = [ctxs EXCEPT ![ctxCount] = [nq |-> s, host_fn |-> f]]
      /\ ctxCount' = ctxCount + 1 /\ s \in states
  BY DEF Registers, SetGlobal
<1>4. ctxs \in [Contexts -> Used \cup {NoContext}] BY DEF ContextsOwned, Used
<1>5. [nq |-> s, host_fn |-> f] \in Used BY DEF Used
<1>6. \A i \in Contexts : i < ctxCount => i # ctxCount BY <1>1 DEF Contexts
<1>7. \A i \in Contexts : i < ctxCount => ctxs[i] \in Used BY DEF ContextsOwned, Used
<1>. QED BY <1>2, <1>3, <1>4, <1>5, <1>6, <1>7

\* Every step of the API keeps the contexts owned.
LEMMA HostStep == ContextsOwned /\ [NextHost]_hostVars => ContextsOwned'
<1>. SUFFICES ASSUME ContextsOwned, [NextHost]_hostVars PROVE ContextsOwned' OBVIOUS
<1>1. ASSUME NEW s \in State, Opens(s) PROVE ContextsOwned'
  BY <1>1, WithoutGlobals DEF Opens, ContextsOwned
<1>2. ASSUME NEW s \in State, Closes(s) PROVE ContextsOwned'
  BY <1>2, WithoutGlobals DEF Closes, ContextsOwned
<1>3. ASSUME NEW s \in State, NEW n \in Name, NEW v \in Plain, Sets(s, n, v)
      PROVE  ContextsOwned'
  BY <1>3, SetGlobalKeeps, Tags DEF Sets, Owned, Value
<1>4. ASSUME NEW s \in State, NEW n \in Name, NEW m \in Name, Copies(s, n, m)
      PROVE  ContextsOwned'
  <2>1. PICK v \in Finds(s, n) : Sets(s, m, v) BY <1>4 DEF Copies
  <2>2. v \in Value /\ (s \notin ruined => Owned(s, v)) BY FindsBound, OwnedByValue
  <2>. QED BY <2>1, <2>2, SetGlobalKeeps DEF Sets
<1>5. ASSUME NEW s \in State, NEW n \in Name, Gets(s, n) PROVE ContextsOwned'
  BY <1>5 DEF Gets, ContextsOwned, Natives
<1>6. ASSUME NEW s \in State, NEW n \in Name, NEW f \in HostFn, Registers(s, n, f)
      PROVE  ContextsOwned'
  <2>1. /\ ctxCount \in Contexts /\ ctxCount' = ctxCount + 1 /\ s \in states
        /\ ctxs' \in [Contexts -> Used \cup {NoContext}]
        /\ ctxs'[ctxCount] = [nq |-> s, host_fn |-> f]
        /\ \A i \in Contexts : i < ctxCount => ctxs'[i] = ctxs[i] /\ ctxs[i] \in Used
    BY <1>6, TakesNext
  <2>2. /\ globals' = IF s \in ruined THEN globals
                      ELSE [globals EXCEPT ![s][n] = NewNative(ctxCount)]
        /\ UNCHANGED <<states, ruined, alone>>
    BY <1>6 DEF Registers, SetGlobal
  <2>3. NewNative(ctxCount) \in Value BY <2>1 DEF Value
  <2>4. globals' \in [State -> [Name -> Value]] BY <2>2, <2>3 DEF ContextsOwned, Value
  <2>5. /\ ctxCount' \in 0 .. MaxNatives
        /\ \A i \in Contexts : i < ctxCount' => ctxs'[i] \in Used
    <3>1. ctxCount \in 0 .. MaxNatives - 1 /\ MaxNatives \in Nat
      BY <2>1, HostAssumption DEF Contexts
    <3>2. ctxs'[ctxCount] \in Used BY <2>1 DEF Used
    <3>3. \A i \in Contexts : i < ctxCount + 1 => i < ctxCount \/ i = ctxCount
      BY <3>1 DEF Contexts
    <3>. QED BY <2>1, <3>1, <3>2, <3>3
  <2>6. \A r \in State : \A i \in Natives(r)' : i < ctxCount' /\ ctxs'[i].nq = r
    <3>. SUFFICES ASSUME NEW r \in State, NEW m \in Name, IsNative(globals'[r][m])
                  PROVE  globals'[r][m][2] < ctxCount' /\ ctxs'[globals'[r][m][2]].nq = r
      BY DEF Natives
    <3>. ctxCount \in Nat BY DEF ContextsOwned
    <3>1. CASE globals'[r][m] = globals[r][m]
      <4>1. Owned(r, globals[r][m]) BY OwnedByValue
      <4>2. PICK i \in Contexts : i = globals[r][m][2] /\ i < ctxCount /\ ctxs[i].nq = r
        BY <3>1, <4>1 DEF Owned
      <4>3. ctxs'[i].nq = r /\ i < ctxCount + 1 BY <4>2, <2>1 DEF Contexts
      <4>. QED BY <4>2, <4>3, <3>1, <2>1
    <3>2. CASE globals'[r][m] # globals[r][m]
      <4>1. r = s /\ globals'[r][m] = NewNative(ctxCount)
        BY <3>2, <2>2, <2>4 DEF ContextsOwned
      <4>2. globals'[r][m][2] = ctxCount BY <4>1, <2>1, Tags
      <4>. QED BY <4>1, <4>2, <2>1
    <3>. QED BY <3>1, <3>2
  <2>7. \A r \in (State \ states') \cup ruined' : globals'[r] = NoGlobals
    BY <2>1, <2>2 DEF ContextsOwned
  <2>. QED BY <2>1, <2>2, <2>4, <2>5, <2>6, <2>7 DEF ContextsOwned, Used, Value
<1>7. ASSUME NEW s \in State, NEW n \in Name, NEW args \in Arguments, NEW r \in Plain,
             NEW m \in Name, Calls(s, n, args, r, m)
      PROVE  ContextsOwned'
  <2>1. FromHost(r) \in Plain BY HostAssumption DEF FromHost
  <2>. QED BY <1>7, <2>1, SetGlobalKeeps, Tags DEF Calls, Owned, Value
<1>8. ASSUME NEW s \in State, Refuses(s) PROVE ContextsOwned'
  BY <1>8 DEF Refuses, ContextsOwned, Natives
<1>9. CASE UNCHANGED hostVars BY <1>9 DEF hostVars, ContextsOwned, Natives
<1>. QED BY <1>1, <1>2, <1>3, <1>4, <1>5, <1>6, <1>7, <1>8, <1>9 DEF NextHost

\* A native of a state, under whatever name, has a context in use that is
\* that state's own, however many states are open (nq_register, nq_close).
THEOREM NativesOwnTheirContexts == HostSpec => []ContextsOwned
<1>1. InitHost => ContextsOwned
  <2>. SUFFICES ASSUME InitHost PROVE ContextsOwned OBVIOUS
  <2>1. globals \in [State -> [Name -> Value]]
    BY DEF InitHost, NoGlobals, Value
  <2>2. \A s \in State : Natives(s) = {}
    BY Tags DEF InitHost, NoGlobals, Natives
  <2>3. /\ ctxs \in [Contexts -> Used \cup {NoContext}] /\ ctxCount = 0
        /\ ctxCount \in 0 .. MaxNatives
        /\ \A i \in Contexts : ~(i < ctxCount)
    BY HostAssumption DEF InitHost, Contexts
  <2>. QED BY <2>1, <2>2, <2>3 DEF InitHost, ContextsOwned, Used, Value
<1>. QED BY <1>1, HostStep, PTL DEF HostSpec

-----------------------------------------------------------------------------
(***************************************************************************)
(* The refinement, while the process has its states one after the other    *)
(***************************************************************************)
\* At most one state is open, nothing was freed under it, and every context that is
\* taken is its own.
AloneInv ==
  alone => /\ ruined = {}
           /\ \A s, r \in states : s = r
           /\ \A s \in states : \A i \in Contexts : i < ctxCount => ctxs[i].nq = s

\* None of the steps makes a process alone that was not.
LEMMA AloneStep == ContextsOwned /\ AloneInv /\ [NextHost]_hostVars => AloneInv' /\ (alone' => alone)
<1>. SUFFICES ASSUME ContextsOwned, AloneInv, [NextHost]_hostVars
              PROVE  AloneInv' /\ (alone' => alone)
  OBVIOUS
<1>1. ASSUME NEW s \in State, Opens(s) PROVE AloneInv' /\ (alone' => alone)
  <2>1. ASSUME alone' PROVE alone /\ states' = {s} /\ ruined' = {} /\ ctxCount' = 0
    BY <1>1, <2>1 DEF Opens, ContextsOwned
  <2>2. \A i \in Contexts : ~(i < 0) BY DEF Contexts
  <2>. QED BY <2>1, <2>2 DEF AloneInv
<1>2. ASSUME NEW s \in State, Closes(s) PROVE AloneInv' /\ (alone' => alone)
  <2>1. s \in states /\ states' = states \ {s} /\ ruined' = states \ {s} /\ alone' = alone
    BY <1>2 DEF Closes
  <2>2. ASSUME alone PROVE states' = {} /\ ruined' = {} BY <2>1, <2>2 DEF AloneInv
  <2>. QED BY <2>1, <2>2 DEF AloneInv
<1>3. CASE UNCHANGED <<states, ruined, alone, ctxs, ctxCount>> BY <1>3 DEF AloneInv
<1>4. ASSUME NEW s \in State, NEW n \in Name, NEW f \in HostFn, Registers(s, n, f)
      PROVE  AloneInv' /\ (alone' => alone)
  <2>1. UNCHANGED <<states, ruined, alone>> BY <1>4 DEF Registers, SetGlobal
  <2>2. /\ ctxCount \in Contexts /\ ctxCount' = ctxCount + 1 /\ s \in states
        /\ ctxs'[ctxCount] = [nq |-> s, host_fn |-> f]
        /\ \A i \in Contexts : i < ctxCount => ctxs'[i] = ctxs[i]
    BY <1>4, TakesNext
  <2>3. \A i \in Contexts : i < ctxCount + 1 => i < ctxCount \/ i = ctxCount
    BY <2>2, HostAssumption DEF Contexts
  <2>. QED BY <2>1, <2>2, <2>3 DEF AloneInv
<1>. QED BY <1>1, <1>2, <1>3, <1>4
         DEF NextHost, Sets, Copies, Gets, Refuses, Calls, SetGlobal, hostVars

\* The only state that is open has taken all the contexts there are.
LEMMA AllGiven ==
  ContextsOwned /\ AloneInv /\ alone => \A s \in states : Given(s) = ctxCount
<1>. SUFFICES ASSUME ContextsOwned, AloneInv, alone, NEW s \in states PROVE Given(s) = ctxCount
  OBVIOUS
<1>1. ctxCount \in 0 .. MaxNatives /\ MaxNatives \in Nat BY HostAssumption DEF ContextsOwned
<1>2. {i \in Contexts : i < ctxCount /\ ctxs[i].nq = s} = 0 .. ctxCount - 1
  <2>1. \A i : i \in Contexts /\ i < ctxCount <=> i \in 0 .. ctxCount - 1 BY <1>1 DEF Contexts
  <2>2. \A i \in Contexts : i < ctxCount => ctxs[i].nq = s BY DEF AloneInv
  <2>. QED BY <2>1, <2>2
<1>3. Cardinality(0 .. ctxCount - 1) = ctxCount
  <2>1. Cardinality(0 .. ctxCount - 1)
          = IF 0 > ctxCount - 1 THEN 0 ELSE (ctxCount - 1) - 0 + 1
    BY <1>1, FS_Interval
  <2>. QED BY <1>1, <2>1
<1>. DEFINE own == {i \in Contexts : i < ctxCount /\ ctxs[i].nq = s}
<1>4. Given(s) = Cardinality(own) BY DEF Given
<1>. QED BY <1>2, <1>3, <1>4

Scope == [s \in State |-> [n \in Name |-> Standing(globals[s][n])]]
GivenAll == [s \in State |-> Given(s)]

\* What a value stands for: itself, unless it is a native.
LEMMA StandsFor ==
  /\ \A v \in Plain : Standing(v) = v
  /\ Standing(Unset) = Unset
  /\ \A i \in Contexts : Standing(NewNative(i)) = <<"host", ctxs[i].host_fn>>
  /\ \A v \in Value : ToHost(v) = AsHosting!Shown(Standing(v))
  /\ \A v \in Value : v # Unset => Standing(v) # Unset
<1>1. /\ \A v \in Plain : Standing(v) = v
      /\ Standing(Unset) = Unset
      /\ \A i \in Contexts : Standing(NewNative(i)) = <<"host", ctxs[i].host_fn>>
  BY Tags DEF Standing
<1>2. \A v \in Plain : ToHost(v) = AsHosting!Shown(Standing(v)) /\ Standing(v) # Unset
  BY <1>1, HostAssumption DEF ToHost, AsHosting!Shown, Unset
<1>3. ToHost(Unset) = AsHosting!Shown(Standing(Unset))
  BY <1>1 DEF ToHost, AsHosting!Shown, Unset
<1>4. ASSUME NEW i \in Contexts
      PROVE  /\ ToHost(NewNative(i)) = AsHosting!Shown(Standing(NewNative(i)))
             /\ Standing(NewNative(i)) # Unset
  <2>1. NewNative(i)[1] = "native" BY DEF NewNative
  <2>2. ToHost(NewNative(i)) = <<"function">> BY <2>1 DEF ToHost
  <2>3. PICK f : Standing(NewNative(i)) = <<"host", f>> BY <1>1
  <2>4. <<"host", f>>[1] = "host" OBVIOUS
  <2>5. AsHosting!Shown(<<"host", f>>) = <<"function">> BY <2>4 DEF AsHosting!Shown
  <2>. QED BY <2>2, <2>3, <2>5 DEF Unset
<1>. QED BY <1>1, <1>2, <1>3, <1>4 DEF Value

\* Binding a name in the globals is binding it in the scope, if no context in
\* use changes.
LEMMA BindsName ==
  ASSUME ContextsOwned, NEW s \in State, NEW n \in Name, NEW v \in Value,
         s \notin ruined, SetGlobal(s, n, v),
         \A i \in Contexts : i < ctxCount => ctxs'[i] = ctxs[i],
         NEW w, w = Standing(v)'
  PROVE  AsHosting!Bind(s, n, w)
<1>1. /\ globals' = [globals EXCEPT ![s][n] = v] /\ states' = states /\ s \in states
      /\ globals' \in [State -> [Name -> Value]]
  BY DEF SetGlobal, ContextsOwned, Value
<1>2. ASSUME NEW r \in State, NEW m \in Name, ~(r = s /\ m = n)
      PROVE  Standing(globals[r][m])' = Standing(globals[r][m])
  <2>1. globals'[r][m] = globals[r][m] BY <1>1, <1>2 DEF ContextsOwned
  <2>2. CASE IsNative(globals[r][m])
    <3>1. ctxs'[globals[r][m][2]] = ctxs[globals[r][m][2]]
      BY <2>2, OwnedByValue DEF Owned
    <3>. QED BY <3>1, <2>1, <2>2 DEF Standing
  <2>3. CASE ~IsNative(globals[r][m]) BY <2>3, <2>1 DEF Standing
  <2>. QED BY <2>2, <2>3
<1>3. Standing(globals[s][n])' = w BY <1>1 DEF ContextsOwned
<1>4. Scope' = [Scope EXCEPT ![s][n] = w] BY <1>2, <1>3 DEF Scope
<1>. QED BY <1>1, <1>4 DEF AsHosting!Bind, Scope

\* What a trampoline hands on is what the host is to see of the arguments.
LEMMA HandsOn ==
  ASSUME NEW args \in Arguments
  PROVE  HandedOn(args) = [i \in 1 .. (IF Len(args) < MaxArgs THEN Len(args) ELSE MaxArgs)
                             |-> AsHosting!Shown(args[i])]
<1>. DEFINE k == IF Len(args) < MaxArgs THEN Len(args) ELSE MaxArgs
<1>1. args \in Seq(Plain) /\ MaxArgs \in Nat BY HostAssumption
<1>2. \A i \in 1 .. k : args[i] \in Plain BY <1>1
<1>3. \A v \in Plain : ToHost(v) = AsHosting!Shown(v) BY StandsFor DEF Value
<1>4. \A i \in 1 .. k : ToHost(args[i]) = AsHosting!Shown(args[i]) BY <1>2, <1>3
<1>. HIDE DEF k
<1>5. HandedOn(args) = [i \in 1 .. k |-> ToHost(args[i])] BY DEF HandedOn, k
<1>6. [i \in 1 .. k |-> ToHost(args[i])] = [i \in 1 .. k |-> AsHosting!Shown(args[i])]
  BY <1>4
<1>. QED BY <1>5, <1>6 DEF k

\* No state's share of the contexts changes with other steps than these.
LEMMA SameGiven == UNCHANGED <<states, ctxs, ctxCount>> => UNCHANGED GivenAll
BY DEF GivenAll, Given

\* Every step of the API is a step of the state as it is promised.
LEMMA HostingStep ==
  ASSUME ContextsOwned, AloneInv, ContextsOwned', AloneInv', alone, alone', NextHost
  PROVE  AsHosting!Next
<1>. ruined = {} BY DEF AloneInv
<1>0. /\ \A s \in states : Given(s) = ctxCount
      /\ \A s \in states' : Given(s)' = ctxCount'
  <2>1. (ContextsOwned /\ AloneInv /\ alone => \A s \in states : Given(s) = ctxCount)'
    BY AllGiven, PTL
  <2>. QED BY <2>1, AllGiven
<1>1. ASSUME NEW s \in State, Opens(s) PROVE AsHosting!Open(s)
  <2>1. states = {} /\ ctxCount' = 0 /\ ctxCount = 0 BY <1>1 DEF Opens
  <2>2. globals' = globals /\ ctxs' = ctxs
    <3>1. globals' = [r \in State |-> NoGlobals] /\ ctxs' = ctxs BY <1>1 DEF Opens
    <3>2. \A r \in State : globals[r] = NoGlobals BY <2>1 DEF ContextsOwned
    <3>3. globals \in [State -> [Name -> Value]] BY DEF ContextsOwned, Value
    <3>. QED BY <3>1, <3>2, <3>3
  <2>3. Scope' = Scope BY <2>2 DEF Scope, Standing
  <2>4. \A r \in State : Given(r) = 0 BY <2>1 DEF Given
  <2>5. ASSUME NEW r \in State PROVE Given(r)' = 0
    <3>1. CASE r \in states'
      <4>1. Given(r)' = ctxCount' BY <3>1, <1>0
      <4>. QED BY <4>1, <2>1
    <3>. QED BY <3>1 DEF Given
  <2>6. GivenAll' = GivenAll BY <2>4, <2>5 DEF GivenAll
  <2>. QED BY <1>1, <2>3, <2>6
           DEF Opens, AsHosting!Open, Silent, AsHosting!Silent, Scope, GivenAll
<1>2. ASSUME NEW s \in State, Closes(s) PROVE AsHosting!Close(s)
  <2>1. s \in states /\ states' = {} /\ globals' = [r \in State |-> NoGlobals]
    BY <1>2 DEF Closes, AloneInv
  <2>2. \A r \in State : r # s => globals[r] = NoGlobals
    BY <2>1 DEF AloneInv, ContextsOwned
  <2>3. ~IsNative(Unset) BY Tags
  <2>4. \A r \in State, n \in Name : Standing(globals[r][n])' = Unset
    BY <2>1, <2>3 DEF Standing, NoGlobals
  <2>5. \A r \in State, n \in Name : r # s => Standing(globals[r][n]) = Unset
    BY <2>2, <2>3 DEF Standing, NoGlobals
  <2>6. Scope' = [Scope EXCEPT ![s] = [n \in Name |-> Unset]] BY <2>4, <2>5 DEF Scope
  <2>7. GivenAll' = [GivenAll EXCEPT ![s] = 0]
    <3>1. \A r \in State : Given(r)' = 0 BY <2>1 DEF Given
    <3>2. \A r \in State : r # s => Given(r) = 0 BY <2>1 DEF Given, AloneInv
    <3>. QED BY <3>1, <3>2 DEF GivenAll
  <2>. QED BY <1>2, <2>6, <2>7 DEF Closes, AsHosting!Close, AsHosting!Empty, AsHosting!Unset,
                                   Unset, Silent, AsHosting!Silent, Scope, GivenAll
<1>3. ASSUME NEW s \in State, NEW n \in Name, NEW v \in Plain, Sets(s, n, v)
      PROVE  AsHosting!Let(s, n, v)
  <2>1. Standing(v)' = v BY Tags DEF Standing
  <2>2. v \in Value BY DEF Value
  <2>3. AsHosting!Bind(s, n, v) BY <1>3, <2>1, <2>2, BindsName DEF Sets
  <2>4. UNCHANGED GivenAll BY <1>3, SameGiven DEF Sets, SetGlobal
  <2>. QED BY <1>3, <2>3, <2>4 DEF Sets, AsHosting!Let, Silent, AsHosting!Silent, GivenAll
<1>4. ASSUME NEW s \in State, NEW n \in Name, NEW m \in Name, Copies(s, n, m)
      PROVE  AsHosting!Copy(s, n, m)
  <2>1. PICK v \in Finds(s, n) : v # Unset /\ Sets(s, m, v) BY <1>4 DEF Copies
  <2>2. v \in Value /\ v = globals[s][n] BY FindsBound
  <2>3. SetGlobal(s, m, v) /\ UNCHANGED <<states, ctxs, ctxCount>> /\ told' = Silent
    BY <2>1 DEF Sets, SetGlobal
  <2>4. PICK w : w = Standing(v) OBVIOUS
  <2>5. Standing(v)' = w BY <2>3, <2>4 DEF Standing
  <2>6. AsHosting!Bind(s, m, w) BY <2>2, <2>3, <2>5, BindsName
  <2>7. w # Unset BY <2>1, <2>2, <2>4, StandsFor
  <2>8. Scope[s][n] = w BY <2>2, <2>4 DEF Scope
  <2>9. UNCHANGED GivenAll BY <2>3, SameGiven
  <2>. QED BY <2>3, <2>6, <2>7, <2>8, <2>9
          DEF AsHosting!Copy, AsHosting!Let, AsHosting!Unset, Unset, Silent, AsHosting!Silent,
              Scope, GivenAll
<1>5. ASSUME NEW s \in State, NEW n \in Name, Gets(s, n) PROVE AsHosting!Get(s, n)
  <2>1. PICK v \in Finds(s, n) : told' = <<"value", ToHost(v)>> BY <1>5 DEF Gets
  <2>2. v \in Value /\ v = globals[s][n] BY FindsBound
  <2>3. ToHost(v) = AsHosting!Shown(Standing(v)) BY <2>2, StandsFor
  <2>4. Scope[s][n] = Standing(v) BY <2>2 DEF Scope
  <2>5. told' = <<"value", AsHosting!Shown(Scope[s][n])>> BY <2>1, <2>3, <2>4
  <2>6. UNCHANGED <<Scope, GivenAll>> BY <1>5, SameGiven DEF Gets, Scope, Standing
  <2>. QED BY <1>5, <2>5, <2>6 DEF Gets, AsHosting!Get, Scope, GivenAll
<1>6. ASSUME NEW s \in State, NEW n \in Name, NEW f \in HostFn, Registers(s, n, f)
      PROVE  AsHosting!Register(s, n, f)
  <2>1. /\ ctxCount \in Contexts /\ ctxCount' = ctxCount + 1 /\ s \in states
        /\ ctxs'[ctxCount] = [nq |-> s, host_fn |-> f]
        /\ \A i \in Contexts : i < ctxCount => ctxs'[i] = ctxs[i]
    BY <1>6, TakesNext
  <2>2. PICK k : k = ctxCount OBVIOUS
  <2>3. Standing(NewNative(k))' = <<"host", f>>
    <3>1. IsNative(NewNative(k)) /\ NewNative(k)[2] = k BY <2>1, <2>2, Tags
    <3>2. ctxs'[k].host_fn = f BY <2>1, <2>2
    <3>. QED BY <3>1, <3>2 DEF Standing
  <2>4. AsHosting!Bind(s, n, <<"host", f>>)
    <3>1. NewNative(k) \in Value BY <2>1, <2>2 DEF Value
    <3>2. SetGlobal(s, n, NewNative(k)) BY <1>6, <2>2 DEF Registers
    <3>. QED BY <2>1, <2>3, <3>1, <3>2, BindsName
  <2>5. states' = states BY <1>6 DEF Registers, SetGlobal
  <2>6. Given(s) = ctxCount BY <2>1, <1>0
  <2>7. Given(s)' = ctxCount + 1
    <3>1. Given(s)' = ctxCount' BY <2>1, <2>5, <1>0
    <3>. QED BY <3>1, <2>1
  <2>8. \A r \in State : r # s => Given(r) = 0 /\ Given(r)' = 0
    BY <2>1, <2>5 DEF Given, AloneInv
  <2>9. GivenAll' = [GivenAll EXCEPT ![s] = @ + 1] BY <2>6, <2>7, <2>8 DEF GivenAll
  <2>10. GivenAll[s] < MaxNatives
    BY <1>6, <2>6, HostAssumption DEF GivenAll, Registers, Full, ContextsOwned
  <2>. QED BY <1>6, <2>4, <2>9, <2>10
           DEF Registers, AsHosting!Register, Silent, AsHosting!Silent, GivenAll
<1>7. ASSUME NEW s \in State, NEW n \in Name, NEW args \in Arguments, NEW r \in Plain,
             NEW m \in Name, Calls(s, n, args, r, m)
      PROVE  AsHosting!Call(s, n, args, r, m)
  <2>1. PICK v \in Finds(s, n) :
          /\ IsNative(v)
          /\ told' = <<"called", ctxs[v[2]].nq, ctxs[v[2]].host_fn, HandedOn(args)>>
    BY <1>7 DEF Calls
  <2>2. v = globals[s][n] BY FindsBound
  <2>3. ctxs[v[2]].nq = s BY <2>1, <2>2, OwnedByValue DEF Owned
  <2>4. Standing(v) = <<"host", ctxs[v[2]].host_fn>> BY <2>1 DEF Standing
  <2>5. told' = <<"called", s, ctxs[v[2]].host_fn, HandedOn(args)>> BY <2>1, <2>3
  <2>6. FromHost(r) \in Plain /\ FromHost(r) = IF r[1] = "data" THEN r ELSE <<"nil">>
    BY HostAssumption DEF FromHost
  <2>7. Standing(FromHost(r))' = FromHost(r) BY <2>6, Tags DEF Standing
  <2>8. AsHosting!Bind(s, m, FromHost(r))
    BY <1>7, <2>6, <2>7, BindsName DEF Calls, Value
  <2>9. Scope[s][n] = Standing(v) BY <2>2 DEF Scope
  <2>10. Scope[s][n][1] = "host" /\ Scope[s][n][2] = ctxs[v[2]].host_fn BY <2>4, <2>9
  <2>11. UNCHANGED GivenAll BY <1>7, SameGiven DEF Calls, SetGlobal
  <2>. QED BY <2>5, <2>6, <2>8, <2>10, <2>11, HandsOn DEF AsHosting!Call, Scope, GivenAll
<1>8. ASSUME NEW s \in State, Refuses(s) PROVE AsHosting!Refuse(s)
  <2>1. s \in states /\ told' = <<"refused">> BY <1>8 DEF Refuses, Refused
  <2>2. Given(s) = ctxCount BY <2>1, <1>0
  <2>3. ctxCount = MaxNatives BY <1>8, HostAssumption DEF Refuses, Full, ContextsOwned
  <2>4. GivenAll[s] = MaxNatives BY <2>2, <2>3 DEF GivenAll
  <2>5. UNCHANGED <<Scope, GivenAll, states>>
    BY <1>8, SameGiven DEF Refuses, Scope, Standing
  <2>. QED BY <2>1, <2>4, <2>5 DEF AsHosting!Refuse, Scope, GivenAll
<1>9. PICK s \in State :
        \/ Opens(s) \/ Closes(s) \/ Refuses(s)
        \/ \E n \in Name :
             \/ \E v \in Plain : Sets(s, n, v)
             \/ \E m \in Name : Copies(s, n, m)
             \/ Gets(s, n)
             \/ \E f \in HostFn : Registers(s, n, f)
             \/ \E args \in Arguments, r \in Plain, m \in Name : Calls(s, n, args, r, m)
  BY DEF NextHost
<1>10. CASE Opens(s) \/ Closes(s) \/ Refuses(s)
  BY <1>10, <1>1, <1>2, <1>8 DEF AsHosting!Next
<1>11. ASSUME NEW n \in Name, (\E v \in Plain : Sets(s, n, v)) \/ Gets(s, n)
       PROVE  AsHosting!Next
  BY <1>11, <1>3, <1>5 DEF AsHosting!Next
<1>12. ASSUME NEW n \in Name, \E m \in Name : Copies(s, n, m) PROVE AsHosting!Next
  BY <1>12, <1>4 DEF AsHosting!Next
<1>13. ASSUME NEW n \in Name, NEW f \in HostFn, Registers(s, n, f) PROVE AsHosting!Next
  BY <1>13, <1>6 DEF AsHosting!Next
<1>14. ASSUME NEW n \in Name, NEW args \in Arguments, NEW r \in Plain, NEW m \in Name,
              Calls(s, n, args, r, m)
       PROVE  AsHosting!Next
  BY <1>14, <1>7 DEF AsHosting!Next
<1>. QED BY <1>9, <1>10, <1>11, <1>12, <1>13, <1>14

\* As long as the process has its states one after the other, and the earlier ones
\* registered nothing, a state of nq_embed.cpp is what docs/embedding.md promises:
\* a call reaches the function registered under that name last, with the state it
\* runs in, and no function is refused before the limit.
THEOREM OneStateIsHosted == HostSpec => ImplementsHosting
<1>1. InitHost => AsHosting!Init
  <2>1. Standing(Unset) = Unset BY StandsFor
  <2>2. InitHost => \A s \in State, n \in Name : globals[s][n] = Unset
    BY DEF InitHost, NoGlobals
  <2>3. InitHost => Scope = [s \in State |-> [n \in Name |-> Unset]]
    BY <2>1, <2>2 DEF Scope
  <2>4. InitHost => GivenAll = [s \in State |-> 0] BY DEF InitHost, GivenAll, Given
  <2>. QED BY <2>3, <2>4 DEF InitHost, AsHosting!Init, AsHosting!Empty, AsHosting!Unset,
                             Unset, Silent, AsHosting!Silent, Scope, GivenAll
<1>2. InitHost => AloneInv BY DEF InitHost, AloneInv
<1>3. ContextsOwned /\ ContextsOwned' /\ AloneInv /\ [NextHost]_hostVars
        => [alone' => AsHosting!Next \/ UNCHANGED AsHosting!hosted]_hostVars
  BY AloneStep, HostingStep
<1>4. HostSpec => []ContextsOwned BY NativesOwnTheirContexts
<1>5. ContextsOwned /\ AloneInv /\ [NextHost]_hostVars => AloneInv' BY AloneStep
<1>. QED BY <1>1, <1>2, <1>3, <1>4, <1>5, PTL DEF HostSpec, ImplementsHosting

-----------------------------------------------------------------------------
(***************************************************************************)
(* The REPL                                                                *)
(***************************************************************************)
IInv == TypeOK /\ CarryFits

Line == Seq(Pieces)

\* What is typed, or loaded, is made of pieces.
LEMMA Lines ==
  /\ \A e \in DOMAIN Entries :
       /\ \A i \in DOMAIN Written[e] : Written[e][i] \in Seq(Line)
       /\ \A i \in DOMAIN Texts[e] : Texts[e][i] \in Line
       /\ \A i \in DOMAIN Slips[e] : Slips[e][i] \in Line
  /\ Noise \subseteq Line /\ <<"end">> \in Line
<1>1. Written \in [DOMAIN Entries -> Seq(Seq(Line))]
  BY ReplAssumption DEF Line
<1>2. Texts \in [DOMAIN Entries -> Seq(Line)] /\ Slips \in [DOMAIN Entries -> Seq(Line)]
  BY ReplAssumption DEF Line
<1>3. Noise \subseteq Line /\ <<"end">> \in Line
  <2>1. \A a, b \in Pieces : <<a>> \in Line /\ <<a, b>> \in Line
    BY DEF Line
  <2>2. " " \in Pieces /\ "#" \in Pieces /\ "try" \in Pieces /\ "end" \in Pieces
    BY ReplAssumption
  <2> QED BY <2>1, <2>2 DEF Noise
<1>4. ASSUME NEW S, NEW s \in Seq(S), NEW i \in DOMAIN s PROVE s[i] \in S
  OBVIOUS
<1>5. ASSUME NEW e \in DOMAIN Entries
      PROVE  Written[e] \in Seq(Seq(Line)) /\ Texts[e] \in Seq(Line) /\ Slips[e] \in Seq(Line)
  BY <1>1, <1>2
<1> QED BY <1>3, <1>4, <1>5

\* A line that is kept leaves room for the byte that ends the text; one that does not
\* fit changes nothing.
LEMMA Kept ==
  ASSUME carry \in Line, CarryFits, NEW line \in Line
  PROVE  CarryWith(line) \in Line /\ Len(CarryWith(line)) < BufMax
<1>1. "\n" \in Pieces /\ BufMax \in Nat
  BY ReplAssumption
<1>2. CASE Fits(line)
  <2>1. CarryWith(line) = Append(carry \o line, "\n")
    BY <1>2 DEF CarryWith
  <2>2. carry \o line \in Seq(Pieces) /\ Len(carry \o line) = Len(carry) + Len(line)
    BY DEF Line
  <2>3. Append(carry \o line, "\n") \in Seq(Pieces)
        /\ Len(Append(carry \o line, "\n")) = Len(carry) + Len(line) + 1
    BY <1>1, <2>2
  <2>4. Len(carry) \in Nat /\ Len(line) \in Nat
    BY DEF Line
  <2> QED BY <1>1, <1>2, <2>1, <2>3, <2>4 DEF Fits, Line
<1>3. CASE ~Fits(line)
  BY <1>3 DEF CarryWith, CarryFits
<1> QED BY <1>2, <1>3

LEMMA Bounds ==
  /\ BufMax \in Nat /\ BufMax > 0 /\ 0 \in 0 .. NoiseMax /\ NoiseMax \in Nat
  /\ <<>> \in Line /\ <<>> \in Seq(Line) /\ Len(<<>>) = 0
<1>1. BufMax \in Nat \ {0} /\ NoiseMax \in Nat
  BY ReplAssumption
<1> QED BY <1>1 DEF Line

LEMMA DepthCounts ==
  ASSUME depth \in Nat, NEW line
  PROVE  DepthAfter(line) \in Nat
<1> DEFINE catch == IsCatch(Trimmed(line)) opens == OpensBlock(Trimmed(line))
           closes == ClosesBlock(Trimmed(line))
<1>1. DepthAfter(line) = CASE catch -> depth [] opens -> depth + 1
                           [] closes /\ depth > 0 -> depth - 1 [] OTHER -> depth
  BY DEF DepthAfter
<1> HIDE DEF catch, opens, closes
<1>2. DepthAfter(line) \in {depth, depth + 1} \/ (depth > 0 /\ DepthAfter(line) = depth - 1)
  BY <1>1
<1> QED BY <1>2

\* One line of the loop: the carry keeps to its buffer and, when the depth is back at
\* zero, is empty.
LEMMA LineStep ==
  ASSUME IInv, NEW line \in Line, TakeLine(line)
  PROVE  /\ carry' \in Line /\ source' \in Line /\ depth' \in Nat /\ CarryFits'
         /\ depth' = 0 => carry' = <<>>
<1>1. carry \in Line /\ source \in Line /\ depth \in Nat /\ CarryFits
  BY DEF IInv, TypeOK, Line
<1>2. CarryWith(line) \in Line /\ Len(CarryWith(line)) < BufMax /\ DepthAfter(line) \in Nat
  BY <1>1, Kept, DepthCounts
<1>3. CASE Incomplete(line)
  BY <1>1, <1>2, <1>3 DEF Incomplete, CarryFits
<1>4. CASE Complete(line)
  <2>1. carry' = <<>> /\ depth' = 0 /\ source' = CarryWith(line)
    BY <1>4 DEF Complete, Submit
  <2> QED BY <1>2, <2>1, Bounds DEF CarryFits
<1> QED BY <1>3, <1>4 DEF TakeLine

LEMMA Initially ==
  Init => IInv
<1> SUFFICES ASSUME Init PROVE IInv
  OBVIOUS
<1>1. carry = <<>> /\ source = <<>> /\ todo = <<>> /\ depth = 0 /\ noise = 0 /\ spoilt = FALSE
      /\ status = "prompt" /\ entry = NoEntry
  BY DEF Init
<1> QED BY <1>1, Bounds DEF IInv, TypeOK, CarryFits, Line

\* Nothing about a line is in what the user does besides typing.
LEMMA NextIInv ==
  IInv /\ [Next]_vars => IInv'
<1> SUFFICES ASSUME IInv, [Next]_vars PROVE IInv'
  OBVIOUS
<1>1. ASSUME NEW e \in DOMAIN Entries, NEW i \in DOMAIN Written[e], BeginEntry(e, Written[e][i])
      PROVE  IInv'
  BY <1>1, Lines DEF BeginEntry, IInv, TypeOK, CarryFits, Line
<1>2. ASSUME NEW e \in DOMAIN Entries, NEW text \in Line, NEW slip \in BOOLEAN, LoadFile(e, text, slip)
      PROVE  IInv'
  BY <1>2 DEF LoadFile, Submit, IInv, TypeOK, CarryFits, Line
<1>3. CASE Finish
  BY <1>3, Bounds DEF Finish, Forget, IInv, TypeOK, CarryFits, Line
<1>4. CASE TypeNext
  <2>1. todo \in Seq(Line) /\ todo # <<>>
    BY <1>4 DEF TypeNext, IInv, TypeOK, Line
  <2>2. Head(todo) \in Line /\ Tail(todo) \in Seq(Line)
    BY <2>1
  <2>3. TakeLine(Head(todo)) /\ todo' = Tail(todo) /\ noise' = noise /\ spoilt' \in BOOLEAN
    BY <1>4 DEF TypeNext, IInv, TypeOK, Fits
  <2> QED BY <2>2, <2>3, LineStep DEF TakeLine, IInv, TypeOK, Line
<1>5. CASE SkipNext
  <2>1. Tail(todo) \in Seq(Seq(Pieces))
    BY <1>5 DEF SkipNext, IInv, TypeOK
  <2> QED BY <1>5, <2>1 DEF SkipNext, IInv, TypeOK, CarryFits
<1>6. CASE TypeNoise
  <2>1. PICK line \in Line : TakeLine(line)
    BY <1>6, Lines DEF TypeNoise
  <2>2. noise' \in 0 .. NoiseMax /\ todo' = todo /\ spoilt' \in BOOLEAN
    BY <1>6, Bounds DEF TypeNoise, EmptyBody, IInv, TypeOK
  <2> QED BY <2>1, <2>2, LineStep DEF TakeLine, IInv, TypeOK, Line
<1>7. CASE CloseBlock
  BY <1>7, Lines, LineStep DEF CloseBlock, TakeLine, IInv, TypeOK, Line
<1>8. CASE Leave
  BY <1>8, Bounds DEF Leave, Forget, IInv, TypeOK, CarryFits, Line
<1>9. CASE UNCHANGED vars
  BY <1>9 DEF vars, IInv, TypeOK, CarryFits
<1> QED BY <1>1, <1>2, <1>3, <1>4, <1>5, <1>6, <1>7, <1>8, <1>9, Lines DEF Next

\* At the prompt nothing is left of an earlier entry (repl.cpp:118, 130), and what is
\* carried is made of lines that were typed.
THEOREM PromptIsTyped == Spec => []TypeOK
<1>1. IInv => TypeOK
  BY DEF IInv
<1> QED BY <1>1, Initially, NextIInv, PTL DEF Spec

\* The carry and the byte that ends it keep to the buffer of the REPL, whatever lines
\* are typed (repl.cpp:104).
THEOREM BufferIsBounded == Spec => []CarryFits
<1>1. IInv => CarryFits
  BY DEF IInv
<1> QED BY <1>1, Initially, NextIInv, PTL DEF Spec
=============================================================================
