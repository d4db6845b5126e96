-------------------------------- MODULE Heap --------------------------------
(***************************************************************************)
(* object.c and gc.c: the objects of all Nolqu states, the interned        *)
(* strings and the mark-and-sweep collector, under the operations of the   *)
(* VM, the compiler and the embedding API that allocate or move objects.   *)
(*                                                                         *)
(* Any allocation may collect first (nq_gc_maybe), with the stack, the     *)
(* frames, the globals and the pending error of one state as its roots; an *)
(* object that only a local variable of the C code refers to is in none of *)
(* them.  An operation is a list of the objects it still wants: it holds   *)
(* those it has in `held` and ends when it has them all.  Memory is the    *)
(* set Ref; byte counts, and with them the threshold, are left out.        *)
(***************************************************************************)
EXTENDS Integers, Sequences

CONSTANTS
  Ref,        \* addresses of objects
  NoRef,      \* any value that is not an object
  Text,       \* the characters of a string
  NoText,
  Vm,         \* the states a host may open
  NoVm,
  Routines,   \* the operations this instance has
  StackMax,   \* NQ_STACK_MAX
  FramesMax   \* NQ_FRAMES_MAX

ASSUME HeapAssumption ==
  /\ NoRef \notin Ref /\ NoText \notin Text /\ NoVm \notin Vm
  /\ StackMax \in Nat /\ FramesMax \in Nat

VARIABLES
  objects,     \* nq_all_objects: each allocated object
  table,       \* nq_string_table: the interned strings
  opened,      \* the states that are open,
  started,     \*   those that runVM was called on,
  gcVm,        \*   and nq_gc_vm, the last of these
  stack, frames, globals, thrown,   \* the roots of each state
  held,        \* the objects a C function in progress is still to use
  call,        \* that function, and the objects it still wants
  gc,          \* the phase of nq_collect; "done" once it has made room
  collecting,  \* its argument
  marked       \* the objects with their mark bit set

roots == <<stack, frames, globals, thrown>>
states == <<opened, started, gcVm>>
collector == <<gc, collecting, marked>>
vars == <<objects, table, states, roots, held, call, collector>>

Object == [type : {"string", "function", "native", "array"},
           text : Text \cup {NoText}, kids : SUBSET Ref]
live == DOMAIN objects
IsA(type, r) == r \in live /\ objects[r].type = type

Values(s) == {s[i] : i \in 1 .. Len(s)}
Keys(v) == {p[1] : p \in globals[v]}
Bindings(v) == {p[2] : p \in globals[v]}
\* Fault: a value that is no object is marked too.
FaultyRoots(v) ==
  Values(stack[v]) \cup Values(frames[v]) \cup Keys(v) \cup Bindings(v) \cup {thrown[v]}
Roots(v) == (Values(stack[v]) \cup Values(frames[v]) \cup Keys(v) \cup Bindings(v)
               \cup {thrown[v]}) \ {NoRef}

-----------------------------------------------------------------------------
(***************************************************************************)
(* Collecting: nq_collect(collecting)                                      *)
(***************************************************************************)
Collect(v) ==
  /\ gc' = "mark" /\ collecting' = v /\ marked' = {}
  /\ UNCHANGED <<objects, table, states, roots, held, call>>

\* What markObject goes on to from those it has marked: the name and the
\* constants of a function, the items of an array.
Children(S) == UNION {objects[r].kids : r \in S \cap live}

MarkOne ==
  /\ gc = "mark"
  /\ \E r \in (Roots(collecting) \cup Children(marked)) \ marked : marked' = marked \cup {r}
  /\ UNCHANGED <<objects, table, states, roots, held, call, gc, collecting>>

\* Fault: marking ends with the roots.
FaultyEndMark ==
  /\ gc = "mark" /\ Roots(collecting) \subseteq marked
  /\ gc' = "prune"
  /\ UNCHANGED <<objects, table, states, roots, held, call, collecting, marked>>
EndMark ==
  /\ gc = "mark" /\ Roots(collecting) \cup Children(marked) \subseteq marked
  /\ gc' = "prune"
  /\ UNCHANGED <<objects, table, states, roots, held, call, collecting, marked>>

\* Fault: no string is put into the new table,
FaultyPrune ==
  /\ gc = "prune" /\ gc' = "sweep"
  /\ table' = {}
  /\ UNCHANGED <<objects, states, roots, held, call, collecting, marked>>
\* Fault: or the old one is left as it is.
SkippedPrune ==
  /\ gc = "prune" /\ gc' = "sweep"
  /\ UNCHANGED <<objects, table, states, roots, held, call, collecting, marked>>
\* removeWhiteStrings
Prune ==
  /\ gc = "prune" /\ gc' = "sweep"
  /\ table' = table \cap marked
  /\ UNCHANGED <<objects, states, roots, held, call, collecting, marked>>

Sweep ==
  /\ gc = "sweep"
  /\ gc' = IF call.wants = <<>> THEN "off" ELSE "done"
  /\ objects' = [r \in live \cap marked |-> objects[r]]
  /\ collecting' = NoVm /\ marked' = {}
  /\ UNCHANGED <<table, states, roots, held, call>>

-----------------------------------------------------------------------------
(***************************************************************************)
(* Allocating                                                              *)
(***************************************************************************)
String(t) == [type |-> "string", text |-> t]
Other(type) == [type |-> type, text |-> NoText]
Idle == [op |-> "none", vm |-> NoVm, wants |-> <<>>]
Want == Head(call.wants)

Free == call = Idle /\ gc = "off"
Start(op, v, holds, wants) ==
  /\ op \in Routines /\ Free /\ v \in opened
  /\ call' = [op |-> op, vm |-> v, wants |-> wants] /\ held' = holds
  /\ UNCHANGED <<objects, table, states, collector>>
Ready(op) == call.op = op /\ call.wants = <<>> /\ gc = "off"
Done == call' = Idle /\ held' = <<>>

\* tableFindString
Found == {r \in table \cap live : Want = String(objects[r].text)}

WithKids(objs, a, K) == [objs EXCEPT ![a] = [@ EXCEPT !.kids = K]]

\* Some functions put what they get into the first object they made.
Collects == call.op \in {"split", "compile", "recompile"} /\ held # <<>>
Receive(r, objs) ==
  /\ call' = [op |-> call.op, vm |-> call.vm, wants |-> Tail(call.wants)]
  /\ IF Collects
       THEN /\ held[1] \in live
            /\ objects' = WithKids(objs, held[1], objs[held[1]].kids \cup {r})
            /\ UNCHANGED held
       ELSE held' = Append(held, r) /\ objects' = objs
  /\ gc' = "off" /\ UNCHANGED <<states, roots, collecting, marked>>

FindString ==
  /\ call.wants # <<>> /\ gc = "off"
  /\ \E r \in Found : Receive(r, objects)
  /\ UNCHANGED table

\* allocObject: nq_gc_maybe, and then the object.  "pressure" stands for a
\* byte count that reaches the threshold.
GcMaybe ==
  /\ "pressure" \in Routines
  /\ call.wants # <<>> /\ gc = "off" /\ Found = {} /\ gcVm # NoVm
  /\ Collect(gcVm)

\* Fault: a string is made without looking for it.
FaultyAllocate ==
  /\ call.wants # <<>> /\ gc \in {"off", "done"}
  /\ \E r \in Ref \ live :
       /\ Receive(r, [x \in live \cup {r} |->
                        IF x = r THEN [type |-> Want.type, text |-> Want.text, kids |-> {}]
                                 ELSE objects[x]])
       /\ table' = IF Want.type = "string" THEN table \cup {r} ELSE table
Allocate ==
  /\ call.wants # <<>> /\ gc \in {"off", "done"} /\ Found = {}
  /\ \E r \in Ref \ live :
       /\ Receive(r, [x \in live \cup {r} |->
                        IF x = r THEN [type |-> Want.type, text |-> Want.text, kids |-> {}]
                                 ELSE objects[x]])
       /\ table' = IF Want.type = "string" THEN table \cup {r} ELSE table

-----------------------------------------------------------------------------
(***************************************************************************)
(* What the VM does with the objects it has                                *)
(***************************************************************************)
Top(v) == Len(stack[v])
Peek(v, n) == stack[v][Top(v) - n]
Cut(v, n) == SubSeq(stack[v], 1, n)
SetStack(v, s) == stack' = [stack EXCEPT ![v] = s]
CurrentFunction(v) == frames[v][Len(frames[v])]

\* An instruction of the current function that allocates nothing.
Step(op, v) ==
  /\ op \in Routines /\ Free /\ v \in opened /\ frames[v] # <<>>
  /\ UNCHANGED <<table, states, held, call, collector>>

\* Constants, locals, globals and items of arrays that are pushed.
Loads(v) ==
  (Values(stack[v]) \cup Bindings(v) \cup Children({CurrentFunction(v)} \cup Values(stack[v])))
    \cup {NoRef}
Load(v) ==
  /\ Step("load", v) /\ Top(v) < StackMax
  /\ \E r \in Loads(v) : SetStack(v, Append(stack[v], r))
  /\ UNCHANGED <<objects, frames, globals, thrown>>

Discard(v) ==
  /\ Step("discard", v) /\ Top(v) > 1
  /\ SetStack(v, Cut(v, Top(v) - 1))
  /\ UNCHANGED <<objects, frames, globals, thrown>>

Bound(v, k, x) == {p \in globals[v] : p[1] # k} \cup {<<k, x>>}

\* The name is a constant of the current function.
DefineGlobal(v) ==
  /\ Step("define", v) /\ Top(v) > 1
  /\ \E k \in Children({CurrentFunction(v)}) :
       IsA("string", k) /\ globals' = [globals EXCEPT ![v] = Bound(v, k, Peek(v, 0))]
  /\ SetStack(v, Cut(v, Top(v) - 1))
  /\ UNCHANGED <<objects, frames, thrown>>

\* OP_SET_INDEX overwrites an item, which may be in the array elsewhere too.
SetIndexOp(v) ==
  /\ Step("setindex", v) /\ Top(v) > 2
  /\ LET a == Peek(v, 2)
         item == {Peek(v, 0)} \ {NoRef}
     IN /\ IsA("array", a) /\ Peek(v, 1) = NoRef
        /\ \E gone \in SUBSET objects[a].kids :
             /\ \A x, y \in gone : x = y
             /\ objects' = WithKids(objects, a, (objects[a].kids \ gone) \cup item)
  /\ SetStack(v, Cut(v, Top(v) - 3))
  /\ UNCHANGED <<frames, globals, thrown>>

\* push; a native function that succeeds clears the pending error.
NativePush(v) ==
  /\ Step("push", v) /\ Top(v) > 1
  /\ LET a == Peek(v, 1)
         item == {Peek(v, 0)} \ {NoRef}
     IN /\ IsA("array", a)
        /\ objects' = WithKids(objects, a, objects[a].kids \cup item)
  /\ SetStack(v, Cut(v, Top(v) - 1))
  /\ thrown' = [thrown EXCEPT ![v] = NoRef] /\ UNCHANGED <<frames, globals>>

\* The callee is on the stack below its arguments.
CallFunction(v) ==
  /\ Step("call", v) /\ Len(frames[v]) < FramesMax
  /\ \E f \in Values(stack[v]) :
       IsA("function", f) /\ frames' = [frames EXCEPT ![v] = Append(@, f)]
  /\ UNCHANGED <<objects, stack, globals, thrown>>

\* The result replaces the callee and all above it; the last frame leaves
\* nothing.
ReturnOp(v) ==
  /\ Step("return", v) /\ Top(v) > 0
  /\ \E n \in 0 .. Top(v) - 1 :
       SetStack(v, IF Len(frames[v]) = 1 THEN Cut(v, n) ELSE Append(Cut(v, n), Peek(v, 0)))
  /\ frames' = [frames EXCEPT ![v] = SubSeq(@, 1, Len(@) - 1)]
  /\ UNCHANGED <<objects, globals, thrown>>

\* The REPL and the test runner reset their VM.
Reset(v) ==
  /\ "reset" \in Routines /\ Free /\ v \in opened
  /\ SetStack(v, <<>>)
  /\ frames' = [frames EXCEPT ![v] = <<>>]
  /\ thrown' = [thrown EXCEPT ![v] = NoRef]
  /\ UNCHANGED <<objects, table, states, globals, held, call, collector>>

-----------------------------------------------------------------------------
(***************************************************************************)
(* What allocates.  The operands of OP_BUILD_ARRAY and the arguments of a  *)
(* native function stay on the stack until the result is there.            *)
(***************************************************************************)
Push(v, n, r) == SetStack(v, Append(Cut(v, Top(v) - n), r))

\* Fault: an item is popped before the array is there.
FaultyBuildArray(v) ==
  /\ frames[v] # <<>> /\ Top(v) > 0 /\ Peek(v, 0) # NoRef
  /\ Start("array", v, <<Peek(v, 0)>>, <<Other("array")>>)
  /\ SetStack(v, Cut(v, Top(v) - 1)) /\ UNCHANGED <<frames, globals, thrown>>
BuildArray(v) ==
  Start("array", v, <<>>, <<Other("array")>>) /\ frames[v] # <<>> /\ UNCHANGED roots
EndArray ==
  /\ Ready("array")
  /\ \E n \in 0 .. Top(call.vm) :
       /\ Top(call.vm) - n < StackMax
       /\ objects' = WithKids(objects, held[1],
                       {Peek(call.vm, i) : i \in 0 .. n - 1} \ {NoRef})
       /\ Push(call.vm, n, held[1])
  /\ Done /\ UNCHANGED <<table, states, frames, globals, thrown, collector>>

\* str, type, upper, slice, ...: one string, made from one argument.
NativeString(v) ==
  /\ \E t \in Text : Start("string", v, <<>>, <<String(t)>>)
  /\ frames[v] # <<>> /\ Top(v) > 0 /\ UNCHANGED roots
EndString ==
  /\ Ready("string")
  /\ Push(call.vm, 1, held[1])
  /\ thrown' = [thrown EXCEPT ![call.vm] = NoRef]
  /\ Done /\ UNCHANGED <<objects, table, states, frames, globals, collector>>

\* split and file_lines: an array, and then its items.
NativeSplit(v) ==
  /\ \E t, u \in Text : Start("split", v, <<>>, <<Other("array"), String(t), String(u)>>)
  /\ frames[v] # <<>> /\ Top(v) > 0 /\ UNCHANGED roots
EndSplit ==
  /\ Ready("split")
  /\ Push(call.vm, 1, held[1])
  /\ thrown' = [thrown EXCEPT ![call.vm] = NoRef]
  /\ Done /\ UNCHANGED <<objects, table, states, frames, globals, collector>>

\* OP_CONCAT pops its operands, and turns into strings those that are not;
\* both are copied before the result is interned.
IfString(r) == IF IsA("string", r) THEN <<r>> ELSE <<>>
Concat(v) ==
  /\ frames[v] # <<>> /\ Top(v) > 1
  /\ LET strings == IfString(Peek(v, 1)) \o IfString(Peek(v, 0))
     IN \E t \in [1 .. 2 - Len(strings) -> Text] :
          Start("concat", v, strings, [i \in DOMAIN t |-> String(t[i])])
  /\ SetStack(v, Cut(v, Top(v) - 2)) /\ UNCHANGED <<frames, globals, thrown>>
Join ==
  /\ Ready("concat")
  /\ \E t \in Text : call' = [op |-> "joined", vm |-> call.vm, wants |-> <<String(t)>>]
  /\ held' = <<>> /\ UNCHANGED <<objects, table, states, roots, collector>>
EndConcat ==
  /\ Ready("joined")
  /\ Push(call.vm, 0, held[1])
  /\ Done /\ UNCHANGED <<objects, table, states, frames, globals, thrown, collector>>

\* THROW_ERROR: what the instruction popped is not used any more.  A handler
\* cuts the stack and the frames; without one the run ends.
ThrowError(v) ==
  /\ \E t \in Text : Start("throw", v, <<>>, <<String(t)>>)
  /\ frames[v] # <<>> /\ UNCHANGED roots
EndThrow ==
  /\ Ready("throw")
  /\ thrown' = [thrown EXCEPT ![call.vm] = held[1]]
  /\ \/ UNCHANGED <<stack, frames>>
     \/ \E n \in 0 .. Top(call.vm), d \in 1 .. Len(frames[call.vm]) :
          /\ n < StackMax
          /\ SetStack(call.vm, Append(Cut(call.vm, n), held[1]))
          /\ frames' = [frames EXCEPT ![call.vm] = SubSeq(@, 1, d)]
  /\ Done /\ UNCHANGED <<objects, table, states, globals, collector>>

-----------------------------------------------------------------------------
(***************************************************************************)
(* The compiler and the host                                               *)
(***************************************************************************)
\* compile makes a function, and puts its strings and the functions in it
\* among its constants; the host runs it at once.  The first time no state
\* is there to be collected.
Compile(v) ==
  /\ \E op \in {"compile", "recompile"}, w \in {Other("function")} \cup {String(t) : t \in Text} :
       /\ op = "compile" => v \notin started
       /\ \/ Start(op, v, <<>>, <<Other("function")>>)
          \/ Start(op, v, <<>>, <<Other("function"), w>>)
  /\ UNCHANGED roots
RunVM ==
  /\ Ready("compile") \/ Ready("recompile")
  /\ Top(call.vm) < StackMax
  /\ started' = started \cup {call.vm} /\ gcVm' = call.vm
  /\ Push(call.vm, 0, held[1])
  /\ frames' = IF Len(frames[call.vm]) < FramesMax
                 THEN [frames EXCEPT ![call.vm] = Append(@, held[1])] ELSE frames
  /\ Done /\ UNCHANGED <<objects, table, opened, globals, thrown, collector>>

\* initVM's registerNative, before the state ever runs, and nq_register at
\* any time: the object, and then its name.
RegisterNative(v) ==
  /\ \E t \in Text, op \in {"builtin", "register"} :
       /\ op = "builtin" => v \notin started
       /\ Start(op, v, <<>>, <<Other("native"), String(t)>>)
  /\ UNCHANGED roots

\* nq_setglobal_string makes the value and then the name, the others of
\* nq_setglobal only the name.
SetGlobalString(v) ==
  (\E t, u \in Text : Start("setstring", v, <<>>, <<String(t), String(u)>>)) /\ UNCHANGED roots
SetGlobalPlain(v) ==
  (\E t \in Text : Start("setplain", v, <<>>, <<String(t)>>)) /\ UNCHANGED roots
EndBind ==
  /\ Ready("builtin") \/ Ready("register") \/ Ready("setstring") \/ Ready("setplain")
  /\ globals' = [globals EXCEPT ![call.vm] =
                   IF call.op = "setplain" THEN Bound(call.vm, held[1], NoRef)
                                           ELSE Bound(call.vm, held[2], held[1])]
  /\ Done /\ UNCHANGED <<objects, table, states, stack, frames, thrown, collector>>

\* nq_getglobal interns the name it looks up.
GetGlobal(v) ==
  (\E t \in Text : Start("getglobal", v, <<>>, <<String(t)>>)) /\ UNCHANGED roots
EndGetGlobal ==
  /\ Ready("getglobal") /\ Done /\ UNCHANGED <<objects, table, states, roots, collector>>

\* nq_gc, and gc_collect.
CollectNow(v) == "gc" \in Routines /\ Free /\ v \in opened /\ Collect(v)

\* nq_open: initVM makes the one string table an empty one.
Open(v) ==
  /\ Free /\ v \notin opened
  /\ opened' = opened \cup {v} /\ started' = started \ {v} /\ table' = {}
  /\ UNCHANGED <<objects, gcVm, roots, held, call, collector>>

\* nq_close: freeVM frees the objects of every state.
Close(v) ==
  /\ "close" \in Routines /\ Free /\ v \in opened
  /\ opened' = opened \ {v} /\ table' = {} /\ objects' = <<>>
  /\ SetStack(v, <<>>)
  /\ frames' = [frames EXCEPT ![v] = <<>>]
  /\ globals' = [globals EXCEPT ![v] = {}]
  /\ thrown' = [thrown EXCEPT ![v] = NoRef]
  /\ UNCHANGED <<started, gcVm, held, call, collector>>

-----------------------------------------------------------------------------
Init ==
  /\ objects = <<>> /\ table = {}
  /\ opened = {} /\ started = {} /\ gcVm = NoVm
  /\ stack = [v \in Vm |-> <<>>] /\ frames = [v \in Vm |-> <<>>]
  /\ globals = [v \in Vm |-> {}] /\ thrown = [v \in Vm |-> NoRef]
  /\ held = <<>> /\ call = Idle
  /\ gc = "off" /\ collecting = NoVm /\ marked = {}

Collecting == MarkOne \/ EndMark \/ Prune \/ Sweep
Allocating == FindString \/ GcMaybe \/ Allocate
Ending == \/ EndArray \/ EndString \/ EndSplit \/ Join \/ EndConcat \/ EndThrow
          \/ RunVM \/ EndBind \/ EndGetGlobal
Moving(v) == \/ Load(v) \/ Discard(v) \/ DefineGlobal(v) \/ SetIndexOp(v) \/ NativePush(v)
             \/ CallFunction(v) \/ ReturnOp(v) \/ Reset(v)
Starting(v) == \/ BuildArray(v) \/ NativeString(v) \/ NativeSplit(v) \/ Concat(v) \/ ThrowError(v)
               \/ Compile(v) \/ RegisterNative(v) \/ SetGlobalString(v) \/ SetGlobalPlain(v)
               \/ GetGlobal(v) \/ CollectNow(v) \/ Open(v) \/ Close(v)

Next == \/ Collecting \/ Allocating \/ Ending
        \/ \E v \in Vm : Moving(v) \/ Starting(v)

Spec == Init /\ [][Next]_vars

-----------------------------------------------------------------------------
(***************************************************************************)
(* Properties                                                              *)
(***************************************************************************)
Wanted == [type : {"string", "function", "native", "array"}, text : Text \cup {NoText}]

TypeOK ==
  /\ live \subseteq Ref /\ objects \in [live -> Object]
  /\ table \subseteq Ref
  /\ opened \subseteq Vm /\ started \subseteq Vm /\ gcVm \in Vm \cup {NoVm}
  /\ stack \in [Vm -> Seq(Ref \cup {NoRef})]
  /\ frames \in [Vm -> Seq(Ref)]
  /\ globals \in [Vm -> SUBSET (Ref \X (Ref \cup {NoRef}))]
  /\ thrown \in [Vm -> Ref \cup {NoRef}]
  /\ held \in Seq(Ref)
  /\ call.vm \in Vm \cup {NoVm} /\ \A i \in 1 .. Len(call.wants) : call.wants[i] \in Wanted
  /\ gc \in {"off", "mark", "prune", "sweep", "done"}
  /\ collecting \in Vm \cup {NoVm} /\ marked \subseteq Ref

\* No collection frees what an open state still refers to, directly or
\* through other objects, and none leaves a freed string in the table.
NothingDangles ==
  /\ \A v \in opened : Roots(v) \subseteq live
  /\ Children(live) \subseteq live
  /\ table \subseteq live

\* An object that a C function has made, and is still to use, is not freed.
HeldKept == Values(held) \subseteq live

\* Equal strings are one object, so comparing the pointers compares them,
\* and the table finds every string there is.
StringsInterned ==
  gc # "sweep" =>
    /\ {r \in live : IsA("string", r)} \subseteq table
    /\ \A r, s \in live :
         IsA("string", r) /\ IsA("string", s) /\ objects[r].text = objects[s].text => r = s

\* What a collection is to keep: the least set with the roots in it that
\* following references does not leave.
Leads(S) == Roots(collecting) \cup Children(S) \subseteq S
Reachable == {r \in Ref : \A S \in SUBSET Ref : Leads(S) => r \in S}

\* A collection keeps exactly what is reachable from its roots.
CollectsExactly == [][gc = "sweep" /\ gc' # "sweep" => live' = Reachable]_vars
=============================================================================
