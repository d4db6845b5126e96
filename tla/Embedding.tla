----------------------------- MODULE Embedding -----------------------------
(***************************************************************************)
(* nq_embed.cpp: the states a host opens, the values it exchanges with     *)
(* them, and its functions that scripts call.                              *)
(*                                                                         *)
(* A registered function takes the next of MaxNatives contexts, which all  *)
(* states share and none gives back; the global holds a native whose       *)
(* trampoline knows the number of its context.  The states share the table *)
(* of strings and the list of objects as well: nq_open empties the one,    *)
(* nq_close frees both.  What scripts do between the calls of the host is  *)
(* a choice of steps on the globals.  What no nq_close freed is taken to   *)
(* stay: which objects a collection frees is the module Heap's.            *)
(***************************************************************************)
EXTENDS Integers, Sequences, FiniteSets

CONSTANTS
  State,        \* NqState pointers
  Name,         \* names of globals
  HostFn,       \* NqNativeFn pointers
  Plain,        \* the values of scripts, natives apart
  Arguments,    \* the argument lists of the scripts' calls
  MaxArgs,      \* the arguments a trampoline hands on, 32 in the code
  MaxNatives,   \* MAX_HOST_NATIVES
  NoContext     \* a context that is not in use

ASSUME HostAssumption ==
  /\ MaxNatives \in Nat /\ MaxArgs \in Nat
  /\ \A v \in Plain : v[1] \in {"nil", "data", "array", "function"}
  /\ <<"nil">> \in Plain
  /\ Arguments \subseteq Seq(Plain)

VARIABLES
  states,     \* the states that are open
  ruined,     \* the open states whose objects were freed with another state
  globals,    \* globals[s]: what vm.globals binds the names to, as far as they are found
  ctxs,       \* g_ctxs: the state and the function of each context
  ctxCount,   \* g_ctx_count
  told,       \* what the host is told: the value of a name, a call, a refusal
  alone       \* history: each nq_open found no state open and no context taken

hostVars == <<states, ruined, globals, ctxs, ctxCount, told, alone>>

Contexts == 0 .. MaxNatives - 1
Unset == <<"unset">>
Silent == <<"nothing">>
Refused == <<"refused">>
NoGlobals == [n \in Name |-> Unset]
\* newNative: a native calls the trampoline of context i.
NewNative(i) == <<"native", i>>
IsNative(v) == v[1] = "native"

InitHost ==
  /\ states = {} /\ ruined = {} /\ globals = [s \in State |-> NoGlobals]
  /\ ctxs = [i \in Contexts |-> NoContext] /\ ctxCount = 0
  /\ told = Silent /\ alone = TRUE

(***************************************************************************)
(* Values                                                                  *)
(***************************************************************************)
\* internal_to_nqvalue: of an array or a function, the type only.
ToHost(v) ==
  CASE v[1] = "data" -> v
    [] v[1] = "array" -> <<"array">>
    [] v[1] \in {"function", "native"} -> <<"function">>
    [] OTHER -> <<"nil">>
\* nqvalue_to_internal: a host cannot make an array or a function.
FromHost(v) == IF v[1] = "data" THEN v ELSE <<"nil">>

(***************************************************************************)
(* The API                                                                 *)
(***************************************************************************)
\* nq_open: initVM empties the table of strings (vm.c:559).  The names of the
\* globals of any other state are interned anew from then on, and are not found.
Opens(s) ==
  /\ s \notin states /\ states' = states \cup {s}
  /\ globals' = [r \in State |-> NoGlobals]
  /\ alone' = (alone /\ states = {} /\ ctxCount = 0)
  /\ told' = Silent /\ UNCHANGED <<ruined, ctxs, ctxCount>>

\* nq_close: freeVM frees the strings and every object, those of the other states
\* too (vm.c:622-623).  The contexts stay taken and keep a pointer to the state.
Closes(s) ==
  /\ s \in states /\ states' = states \ {s} /\ ruined' = states \ {s}
  /\ globals' = [r \in State |-> NoGlobals]
  /\ told' = Silent /\ UNCHANGED <<ctxs, ctxCount, alone>>

\* What a name leads to.  The keys and values of a ruined state are addresses of
\* memory that was freed, perhaps to be given to other objects since: anything.
Finds(s, n) ==
  IF s \in ruined THEN Plain \cup {Unset} \cup {NewNative(i) : i \in {j \in Contexts : j < ctxCount}}
                  ELSE {globals[s][n]}
SetGlobal(s, n, v) ==
  /\ s \in states
  /\ globals' = IF s \in ruined THEN globals ELSE [globals EXCEPT ![s][n] = v]
  /\ UNCHANGED <<states, ruined, alone>>
\* nq_setglobal_number and the others, and what a script does by itself.
Sets(s, n, v) == SetGlobal(s, n, v) /\ told' = Silent /\ UNCHANGED <<ctxs, ctxCount>>
Copies(s, n, m) == \E v \in Finds(s, n) : v # Unset /\ Sets(s, m, v)

\* nq_getglobal: nil for a name that has no value.
Gets(s, n) ==
  /\ s \in states /\ \E v \in Finds(s, n) : told' = <<"value", ToHost(v)>>
  /\ UNCHANGED <<states, ruined, globals, ctxs, ctxCount, alone>>

\* Fault: the limit is tested one call too late.
FaultyFull == ctxCount > MaxNatives
\* The contexts of all states together.
Full == ctxCount >= MaxNatives

\* Fault: a name that has a native keeps its context, with the new function.
FaultyRegisters(s, n, f) ==
  /\ ~Full
  /\ LET i == IF IsNative(globals[s][n]) THEN globals[s][n][2] ELSE ctxCount
     IN /\ ctxs' = [ctxs EXCEPT ![i] = [nq |-> s, host_fn |-> f]]
        /\ ctxCount' = IF i = ctxCount THEN ctxCount + 1 ELSE ctxCount
        /\ SetGlobal(s, n, NewNative(i))
  /\ told' = Silent
\* nq_register with a context left, and without one: nothing but a line on stderr.
Registers(s, n, f) ==
  /\ ~Full
  /\ ctxs' = [ctxs EXCEPT ![ctxCount] = [nq |-> s, host_fn |-> f]]
  /\ ctxCount' = ctxCount + 1
  /\ SetGlobal(s, n, NewNative(ctxCount)) /\ told' = Silent
Refuses(s) ==
  /\ s \in states /\ Full /\ told' = Refused
  /\ UNCHANGED <<states, ruined, globals, ctxs, ctxCount, alone>>

\* A script runs `let m = n(args)`, with as many arguments as the arity asks
\* for: OP_CALL, nq_trampoline, the function, which answers r.
HandedOn(args) == [i \in 1 .. (IF Len(args) < MaxArgs THEN Len(args) ELSE MaxArgs) |-> ToHost(args[i])]
Calls(s, n, args, r, m) ==
  /\ \E v \in Finds(s, n) :
       /\ IsNative(v)
       /\ told' = <<"called", ctxs[v[2]].nq, ctxs[v[2]].host_fn, HandedOn(args)>>
  /\ SetGlobal(s, m, FromHost(r)) /\ UNCHANGED <<ctxs, ctxCount>>

NextHost ==
  \E s \in State :
    \/ Opens(s) \/ Closes(s) \/ Refuses(s)
    \/ \E n \in Name :
         \/ \E v \in Plain : Sets(s, n, v)
         \/ \E m \in Name : Copies(s, n, m)
         \/ Gets(s, n)
         \/ \E f \in HostFn : Registers(s, n, f)
         \/ \E args \in Arguments, r \in Plain, m \in Name : Calls(s, n, args, r, m)

HostSpec == InitHost /\ [][NextHost]_hostVars

-----------------------------------------------------------------------------
(***************************************************************************)
(* Properties                                                              *)
(***************************************************************************)
Natives(s) == {globals[s][n][2] : n \in {m \in Name : IsNative(globals[s][m])}}

\* The types of the fields; the contexts in use are the first ctxCount, and a
\* native of a state, under whatever name, has one that is that state's own.
ContextsOwned ==
  /\ states \subseteq State /\ ruined \subseteq states /\ alone \in BOOLEAN
  /\ globals \in [State -> [Name -> Plain \cup {Unset} \cup {NewNative(i) : i \in Contexts}]]
  /\ ctxs \in [Contexts -> [nq : State, host_fn : HostFn] \cup {NoContext}]
  /\ ctxCount \in 0 .. MaxNatives
  /\ \A i \in Contexts : i < ctxCount => ctxs[i] \in [nq : State, host_fn : HostFn]
  /\ \A s \in State : \A i \in Natives(s) : i < ctxCount /\ ctxs[i].nq = s
  /\ \A s \in (State \ states) \cup ruined : globals[s] = NoGlobals

\* What a value stands for, and how many contexts a state took since it was opened.
Standing(v) == IF IsNative(v) THEN <<"host", ctxs[v[2]].host_fn>> ELSE v
Given(s) ==
  IF s \in states THEN Cardinality({i \in Contexts : i < ctxCount /\ ctxs[i].nq = s}) ELSE 0
AsHosting ==
  INSTANCE Hosting WITH scope <- [s \in State |-> [n \in Name |-> Standing(globals[s][n])]],
                        given <- [s \in State |-> Given(s)],
                        opened <- states, seen <- told

\* A state is what docs/embedding.md promises as long as the process has opened its
\* states one after the other, and the earlier ones registered nothing: a script
\* that calls a name reaches the function that was registered under it there last,
\* with the state it runs in, under copies of the name too, and no function is
\* refused before the limit.  With another state open the code does not keep this
\* (vm.c:559, 622, nq_embed.cpp:246), and nothing is said of those steps.
ImplementsHosting ==
  AsHosting!Init /\ [][alone' => AsHosting!Next \/ UNCHANGED AsHosting!hosted]_hostVars
=============================================================================
