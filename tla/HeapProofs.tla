----------------------------- MODULE HeapProofs -----------------------------
(***************************************************************************)
(* Theorems about module Heap, for any number of addresses, texts, frames  *)
(* and stack slots: as long as one state is used, and no operation keeps   *)
(* an object that only it knows across an allocation that may collect,     *)
(* nothing in use is freed, and a collection keeps what is reachable and   *)
(* nothing else.                                                           *)
(***************************************************************************)
EXTENDS Heap, SequenceTheorems, TLAPS

(***************************************************************************)
(* What is assumed of the instance                                         *)
(***************************************************************************)
OneState == \A v, w \in Vm : v = w
Unrooted == {"split", "concat", "recompile", "register", "setstring", "close"}
Rooted == "pressure" \in Routines => Routines \cap Unrooted = {}

(***************************************************************************)
(* The inductive invariant                                                 *)
(***************************************************************************)
Ops == {"none", "array", "string", "split", "concat", "joined", "throw", "compile",
        "recompile", "builtin", "register", "setstring", "setplain", "getglobal"}

\* An operation is some open state's, and ends with an object in hand, or two.
CallOK ==
  /\ call \in [op : Ops, vm : Vm \cup {NoVm}, wants : Seq(Wanted)]
  /\ call.op = "none" => held = <<>> /\ call.wants = <<>>
  /\ call.op # "none" => call.vm \in opened
  /\ call.op \in {"string", "split"} => Top(call.vm) > 0
  /\ call.op \notin {"none", "concat"} => Len(held) + Len(call.wants) >= 1
  /\ call.op \in {"builtin", "register", "setstring"} => Len(held) + Len(call.wants) >= 2

\* All that anything refers to is there.
RootsLive == \A v \in Vm : Roots(v) \subseteq live
AllLive ==
  /\ RootsLive
  /\ Children(live) \subseteq live
  /\ table \subseteq live
  /\ Values(held) \subseteq live

\* Where an allocation may collect, no object is held yet.
NothingHeld ==
  "pressure" \in Routines =>
    /\ started \subseteq opened
    /\ gcVm # NoVm => gcVm \in started
    /\ gcVm # NoVm /\ call.wants # <<>> => held = <<>> /\ Len(call.wants) = 1

\* What is marked is there and has to stay; from the end of marking on, all
\* that has to stay is marked.
Marking ==
  /\ marked \subseteq live
  /\ gc \in {"off", "done"} => marked = {}
  /\ gc \in {"mark", "prune", "sweep"} =>
       /\ collecting \in Vm
       /\ held = <<>>
       /\ \A S \in SUBSET Ref : Leads(S) => marked \subseteq S
  /\ gc \in {"prune", "sweep"} => Leads(marked)
  /\ gc = "sweep" => table \subseteq marked

IInv == TypeOK /\ CallOK /\ AllLive /\ NothingHeld /\ Marking

-----------------------------------------------------------------------------
(***************************************************************************)
(* Stacks                                                                  *)
(***************************************************************************)
\* Append adds one value.
LEMMA AppendValues ==
  ASSUME NEW T, NEW s \in Seq(T), NEW r \in T
  PROVE  /\ Append(s, r) \in Seq(T)
         /\ Len(Append(s, r)) = Len(s) + 1
         /\ Values(Append(s, r)) = Values(s) \cup {r}
  BY DEF Values

\* A prefix has no values of its own.
LEMMA CutValues ==
  ASSUME NEW T, NEW s \in Seq(T), NEW n \in 0 .. Len(s)
  PROVE  /\ SubSeq(s, 1, n) \in Seq(T)
         /\ Values(SubSeq(s, 1, n)) \subseteq Values(s)
  <1>1. SubSeq(s, 1, n) \in Seq(T) /\ Len(SubSeq(s, 1, n)) = n
    BY SubSeqProperties
  <1>2. \A i \in 1 .. n : SubSeq(s, 1, n)[i] = s[i]
    BY SubSeqProperties
  <1> QED BY <1>1, <1>2 DEF Values

\* What is on top of the stack is one of its values.
LEMMA PeekValue ==
  ASSUME NEW v, stack[v] \in Seq(Ref \cup {NoRef}), Top(v) > 0
  PROVE  Peek(v, 0) \in Values(stack[v]) /\ Peek(v, 0) \in Ref \cup {NoRef}
  <1>1. Top(v) \in 1 .. Len(stack[v]) /\ Top(v) - 0 = Top(v)
    BY DEF Top
  <1>2. Peek(v, 0) = stack[v][Top(v)]
    BY <1>1 DEF Peek
  <1> QED BY <1>1, <1>2 DEF Values

\* The roots grow by no more than the stack, the frames, the globals and the
\* pending error do.
LEMMA RootsGrow ==
  ASSUME NEW v, NEW X,
         Values(stack'[v]) \subseteq Values(stack[v]) \cup X \cup {NoRef},
         Values(frames'[v]) \subseteq Values(frames[v]) \cup X \cup {NoRef},
         Keys(v)' \subseteq Keys(v) \cup X \cup {NoRef},
         Bindings(v)' \subseteq Bindings(v) \cup X \cup {NoRef},
         thrown'[v] \in {thrown[v], NoRef} \cup X
  PROVE  Roots(v)' \subseteq Roots(v) \cup X
  BY DEF Roots

\* Binding a name adds the name to the keys and the value to the bindings.
LEMMA BoundValues ==
  ASSUME NEW v \in Vm, NEW k \in Ref, NEW x \in Ref \cup {NoRef},
         globals \in [Vm -> SUBSET (Ref \X (Ref \cup {NoRef}))]
  PROVE  /\ Bound(v, k, x) \in SUBSET (Ref \X (Ref \cup {NoRef}))
         /\ {p[1] : p \in Bound(v, k, x)} \subseteq Keys(v) \cup {k}
         /\ {p[2] : p \in Bound(v, k, x)} \subseteq Bindings(v) \cup {x}
  BY DEF Bound, Keys, Bindings

\* The forms of what an operation may ask for.
LEMMA WantedForms ==
  /\ \A t \in Text : String(t) \in Wanted
  /\ \A type \in {"function", "native", "array"} : Other(type) \in Wanted
  BY DEF String, Other, Wanted

-----------------------------------------------------------------------------
\* Before nq_open there is nothing to lose.
LEMMA InitInv == Init => IInv
  <1> SUFFICES ASSUME Init PROVE IInv OBVIOUS
  <1>1. live = {} /\ objects \in [live -> Object]
    BY DEF Init, live
  <1>2. TypeOK
    BY <1>1 DEF Init, TypeOK, Idle
  <1>3. CallOK
    BY DEF Init, CallOK, Idle, Ops
  <1>4. \A v \in Vm : Roots(v) = {}
    BY DEF Init, Roots, Values, Keys, Bindings
  <1>5. AllLive
    BY <1>1, <1>4 DEF Init, AllLive, RootsLive, Children, Values
  <1>6. NothingHeld /\ Marking
    BY DEF Init, NothingHeld, Marking, Idle
  <1> QED BY <1>2, <1>3, <1>5, <1>6 DEF IInv

\* Replacing one state's stack keeps the type of all.
LEMMA StackTyped ==
  ASSUME TypeOK, NEW v \in Vm, NEW s \in Seq(Ref \cup {NoRef}), SetStack(v, s)
  PROVE  stack' \in [Vm -> Seq(Ref \cup {NoRef})] /\ stack'[v] = s
  BY DEF TypeOK, SetStack

-----------------------------------------------------------------------------
(***************************************************************************)
(* Operations that allocate nothing                                        *)
(***************************************************************************)
\* Between collections, an operation keeps the invariant when what its state
\* and the objects then refer to was there before.
LEMMA MoveStep ==
  ASSUME OneState, IInv, NEW v \in Vm, gc = "off",
         UNCHANGED <<table, states, held, call, collector>>,
         live' = live, TypeOK', Children(live)' \subseteq live, Roots(v)' \subseteq live,
         call = Idle
  PROVE  IInv'
  <1>1. CallOK'
    BY DEF IInv, CallOK, states, Idle
  <1>2. RootsLive'
    BY DEF OneState, RootsLive
  <1>3. AllLive'
    BY <1>2 DEF IInv, AllLive
  <1>4. NothingHeld'
    BY DEF IInv, NothingHeld, states
  <1>5. Marking'
    BY DEF IInv, Marking, collector
  <1> QED BY <1>1, <1>3, <1>4, <1>5 DEF IInv

\* Each of these reads objects that are there, and writes them elsewhere.
LEMMA LoadStep ==
  ASSUME OneState, IInv, NEW v \in Vm, Load(v)
  PROVE  IInv'
  <1>1. PICK r \in Loads(v) : SetStack(v, Append(stack[v], r))
    BY DEF Load
  <1>2. r \in live \cup {NoRef}
    <2>1. Roots(v) \subseteq live
      BY DEF IInv, AllLive, RootsLive
    <2>2. Values(stack[v]) \cup Bindings(v) \subseteq live \cup {NoRef}
      BY <2>1 DEF Roots
    <2>3. Children({CurrentFunction(v)} \cup Values(stack[v])) \subseteq live
      BY DEF IInv, AllLive, Children
    <2> QED BY <1>1, <2>2, <2>3 DEF Loads
  <1>3. r \in Ref \cup {NoRef} /\ stack[v] \in Seq(Ref \cup {NoRef})
    BY <1>2 DEF IInv, TypeOK
  <1>a. /\ Append(stack[v], r) \in Seq(Ref \cup {NoRef})
        /\ Values(Append(stack[v], r)) = Values(stack[v]) \cup {r}
    BY <1>3, AppendValues
  <1>4. stack' \in [Vm -> Seq(Ref \cup {NoRef})] /\ Values(stack'[v]) = Values(stack[v]) \cup {r}
    BY <1>1, <1>a, StackTyped DEF IInv
  <1>5. TypeOK'
    BY <1>4 DEF Load, Step, IInv, TypeOK, live, states, collector
  <1>6. Roots(v)' \subseteq Roots(v) \cup ({r} \ {NoRef})
    BY <1>4 DEF Load, Step, Roots, Keys, Bindings
  <1>7. live' = live /\ Children(live)' = Children(live)
    BY DEF Load, live, Children
  <1>8. Roots(v)' \subseteq live /\ Children(live)' \subseteq live
    BY <1>2, <1>6, <1>7 DEF IInv, AllLive, RootsLive
  <1> QED BY <1>5, <1>7, <1>8, MoveStep DEF Load, Step, Free

LEMMA DiscardStep ==
  ASSUME OneState, IInv, NEW v \in Vm, Discard(v)
  PROVE  IInv'
  <1>1. stack[v] \in Seq(Ref \cup {NoRef}) /\ Top(v) - 1 \in 0 .. Len(stack[v])
    BY DEF Discard, IInv, TypeOK, Top
  <1>2. stack' \in [Vm -> Seq(Ref \cup {NoRef})] /\ Values(stack'[v]) \subseteq Values(stack[v])
    BY <1>1, CutValues, StackTyped DEF Discard, Cut, IInv
  <1>3. TypeOK'
    BY <1>2 DEF Discard, Step, IInv, TypeOK, live, states, collector
  <1>4. Roots(v)' \subseteq Roots(v)
    BY <1>2 DEF Discard, Step, Roots, Keys, Bindings
  <1>5. live' = live /\ Children(live)' = Children(live)
    BY DEF Discard, live, Children
  <1>6. Roots(v)' \subseteq live /\ Children(live)' \subseteq live
    BY <1>4, <1>5 DEF IInv, AllLive, RootsLive
  <1> QED BY <1>3, <1>5, <1>6, MoveStep DEF Discard, Step, Free

LEMMA DefineStep ==
  ASSUME OneState, IInv, NEW v \in Vm, DefineGlobal(v)
  PROVE  IInv'
  <1>1. PICK k \in Children({CurrentFunction(v)}) :
          IsA("string", k) /\ globals' = [globals EXCEPT ![v] = Bound(v, k, Peek(v, 0))]
    BY DEF DefineGlobal
  <1>2. stack[v] \in Seq(Ref \cup {NoRef}) /\ Top(v) > 0
        /\ Top(v) - 1 \in 0 .. Len(stack[v])
    BY DEF DefineGlobal, IInv, TypeOK, Top
  <1>3. k \in live /\ k \in Ref
    BY <1>1 DEF IsA, IInv, TypeOK
  <1>4. Peek(v, 0) \in Values(stack[v]) /\ Peek(v, 0) \in Ref \cup {NoRef}
    BY <1>2, PeekValue
  <1>5. stack' \in [Vm -> Seq(Ref \cup {NoRef})] /\ Values(stack'[v]) \subseteq Values(stack[v])
    BY <1>2, CutValues, StackTyped DEF DefineGlobal, Cut, IInv
  <1>6. globals \in [Vm -> SUBSET (Ref \X (Ref \cup {NoRef}))]
    BY DEF IInv, TypeOK
  <1>7. /\ globals' \in [Vm -> SUBSET (Ref \X (Ref \cup {NoRef}))]
        /\ Keys(v)' \subseteq Keys(v) \cup {k}
        /\ Bindings(v)' \subseteq Bindings(v) \cup {Peek(v, 0)}
    <2>1. /\ Bound(v, k, Peek(v, 0)) \in SUBSET (Ref \X (Ref \cup {NoRef}))
          /\ {p[1] : p \in Bound(v, k, Peek(v, 0))} \subseteq Keys(v) \cup {k}
          /\ {p[2] : p \in Bound(v, k, Peek(v, 0))} \subseteq Bindings(v) \cup {Peek(v, 0)}
      BY <1>3, <1>4, <1>6, BoundValues
    <2>2. globals'[v] = Bound(v, k, Peek(v, 0))
      BY <1>1, <1>6
    <2>3. globals' \in [Vm -> SUBSET (Ref \X (Ref \cup {NoRef}))]
      BY <1>1, <1>6, <2>1
    <2> QED BY <2>1, <2>2, <2>3 DEF Keys, Bindings
  <1>8. TypeOK'
    BY <1>5, <1>7 DEF DefineGlobal, Step, IInv, TypeOK, live, states, collector
  <1>9. Roots(v)' \subseteq Roots(v) \cup {k}
    BY <1>4, <1>5, <1>7 DEF DefineGlobal, Roots
  <1>10. live' = live /\ Children(live)' = Children(live)
    BY DEF DefineGlobal, live, Children
  <1>11. Roots(v)' \subseteq live /\ Children(live)' \subseteq live
    BY <1>3, <1>9, <1>10 DEF IInv, AllLive, RootsLive
  <1> QED BY <1>8, <1>10, <1>11, MoveStep DEF DefineGlobal, Step, Free

\* Replacing what an object refers to by objects that are there.
LEMMA KidsChanged ==
  ASSUME objects \in [live -> Object], live \subseteq Ref, Children(live) \subseteq live,
         NEW a \in live, NEW K \in SUBSET Ref, K \subseteq live,
         objects' = WithKids(objects, a, K)
  PROVE  /\ live' = live
         /\ objects' \in [live' -> Object]
         /\ Children(live)' \subseteq live
  <1>0. objects' = [objects EXCEPT ![a] = [objects[a] EXCEPT !.kids = K]]
    BY DEF WithKids
  <1>1. live' = live
    BY <1>0 DEF live
  <1>2. objects[a] \in Object
    OBVIOUS
  <1>3. [objects[a] EXCEPT !.kids = K] \in Object /\ [objects[a] EXCEPT !.kids = K].kids = K
    BY <1>2 DEF Object
  <1>4. objects' \in [live -> Object]
    BY <1>0, <1>3
  <1>5. \A r \in live : objects'[r].kids \subseteq live
    BY <1>0, <1>3 DEF Children
  <1> QED BY <1>1, <1>4, <1>5 DEF Children

LEMMA SetIndexStep ==
  ASSUME OneState, IInv, NEW v \in Vm, SetIndexOp(v)
  PROVE  IInv'
  <1> DEFINE a == Peek(v, 2)
             item == {Peek(v, 0)} \ {NoRef}
  <1>1. a \in live /\ objects[a].kids \subseteq live /\ objects[a].kids \subseteq Ref
    <2>1. a \in live
      BY DEF SetIndexOp, IsA
    <2>2. objects[a].kids \subseteq Children(live)
      BY <2>1 DEF Children
    <2> QED BY <2>1, <2>2 DEF IInv, AllLive, TypeOK
  <1>2. PICK gone \in SUBSET objects[a].kids :
          objects' = WithKids(objects, a, (objects[a].kids \ gone) \cup item)
    BY DEF SetIndexOp
  <1>3. stack[v] \in Seq(Ref \cup {NoRef}) /\ Top(v) > 0
        /\ Top(v) - 3 \in 0 .. Len(stack[v])
    BY DEF SetIndexOp, IInv, TypeOK, Top
  <1>4. item \subseteq live /\ item \subseteq Ref
    <2>1. Peek(v, 0) \in Values(stack[v])
      BY <1>3, PeekValue
    <2>2. item \subseteq Roots(v)
      BY <2>1 DEF Roots
    <2> QED BY <2>2 DEF IInv, AllLive, RootsLive, TypeOK
  <1>5. stack' \in [Vm -> Seq(Ref \cup {NoRef})] /\ Values(stack'[v]) \subseteq Values(stack[v])
    BY <1>3, CutValues, StackTyped DEF SetIndexOp, Cut, IInv
  <1>6. /\ live' = live
        /\ objects' \in [live' -> Object]
        /\ Children(live)' \subseteq live
    <2>0. ((objects[a].kids \ gone) \cup item) \in SUBSET Ref /\ ((objects[a].kids \ gone) \cup item) \subseteq live
      BY <1>1, <1>4
    <2>1. PICK K \in SUBSET Ref : K = (objects[a].kids \ gone) \cup item /\ K \subseteq live
      BY <2>0
    <2> HIDE DEF a, item
    <2>2. objects' = WithKids(objects, a, K)
      BY <1>2, <2>1
    <2> QED BY <1>1, <2>1, <2>2, KidsChanged DEF IInv, TypeOK, AllLive
  <1>7. TypeOK'
    BY <1>5, <1>6 DEF SetIndexOp, Step, IInv, TypeOK, states, collector
  <1>8. Roots(v)' \subseteq Roots(v)
    BY <1>5 DEF SetIndexOp, Roots, Keys, Bindings
  <1>9. Roots(v)' \subseteq live
    BY <1>8 DEF IInv, AllLive, RootsLive
  <1> QED BY <1>6, <1>7, <1>9, MoveStep DEF SetIndexOp, Step, Free

LEMMA PushStep ==
  ASSUME OneState, IInv, NEW v \in Vm, NativePush(v)
  PROVE  IInv'
  <1> DEFINE a == Peek(v, 1)
             item == {Peek(v, 0)} \ {NoRef}
  <1>1. a \in live /\ objects[a].kids \subseteq live /\ objects[a].kids \subseteq Ref
    <2>1. a \in live
      BY DEF NativePush, IsA
    <2>2. objects[a].kids \subseteq Children(live)
      BY <2>1 DEF Children
    <2> QED BY <2>1, <2>2 DEF IInv, AllLive, TypeOK
  <1>2. objects' = WithKids(objects, a, objects[a].kids \cup item)
    BY DEF NativePush
  <1>3. stack[v] \in Seq(Ref \cup {NoRef}) /\ Top(v) > 0
        /\ Top(v) - 1 \in 0 .. Len(stack[v])
    BY DEF NativePush, IInv, TypeOK, Top
  <1>4. item \subseteq live /\ item \subseteq Ref
    <2>1. Peek(v, 0) \in Values(stack[v])
      BY <1>3, PeekValue
    <2>2. item \subseteq Roots(v)
      BY <2>1 DEF Roots
    <2> QED BY <2>2 DEF IInv, AllLive, RootsLive, TypeOK
  <1>5. stack' \in [Vm -> Seq(Ref \cup {NoRef})] /\ Values(stack'[v]) \subseteq Values(stack[v])
    BY <1>3, CutValues, StackTyped DEF NativePush, Cut, IInv
  <1>6. /\ live' = live
        /\ objects' \in [live' -> Object]
        /\ Children(live)' \subseteq live
    <2>0. (objects[a].kids \cup item) \in SUBSET Ref /\ (objects[a].kids \cup item) \subseteq live
      BY <1>1, <1>4
    <2>1. PICK K \in SUBSET Ref : K = objects[a].kids \cup item /\ K \subseteq live
      BY <2>0
    <2> HIDE DEF a, item
    <2>2. objects' = WithKids(objects, a, K)
      BY <1>2, <2>1
    <2> QED BY <1>1, <2>1, <2>2, KidsChanged DEF IInv, TypeOK, AllLive
  <1>7. thrown' \in [Vm -> Ref \cup {NoRef}] /\ thrown'[v] = NoRef
    BY DEF NativePush, IInv, TypeOK
  <1>8. TypeOK'
    BY <1>5, <1>6, <1>7 DEF NativePush, Step, IInv, TypeOK, states, collector
  <1>9. Roots(v)' \subseteq Roots(v)
    BY <1>5, <1>7 DEF NativePush, Roots, Keys, Bindings
  <1>10. Roots(v)' \subseteq live
    BY <1>9 DEF IInv, AllLive, RootsLive
  <1> QED BY <1>6, <1>8, <1>10, MoveStep DEF NativePush, Step, Free

LEMMA CallFunctionStep ==
  ASSUME OneState, IInv, NEW v \in Vm, CallFunction(v)
  PROVE  IInv'
  <1>1. PICK f \in Values(stack[v]) :
          IsA("function", f) /\ frames' = [frames EXCEPT ![v] = Append(@, f)]
    BY DEF CallFunction
  <1>2. f \in live /\ f \in Ref
    BY <1>1 DEF IsA, IInv, TypeOK
  <1>3. frames[v] \in Seq(Ref) /\ frames'[v] = Append(frames[v], f)
    BY <1>1 DEF IInv, TypeOK
  <1>4. Append(frames[v], f) \in Seq(Ref)
        /\ Values(Append(frames[v], f)) = Values(frames[v]) \cup {f}
    BY <1>2, <1>3, AppendValues
  <1>5. frames' \in [Vm -> Seq(Ref)]
    BY <1>1, <1>4 DEF IInv, TypeOK
  <1>6. TypeOK'
    BY <1>5 DEF CallFunction, Step, IInv, TypeOK, live, states, collector
  <1>7. Roots(v)' \subseteq Roots(v) \cup {f}
    BY <1>3, <1>4 DEF CallFunction, Roots, Keys, Bindings
  <1>8. live' = live /\ Children(live)' = Children(live)
    BY DEF CallFunction, live, Children
  <1>9. Roots(v)' \subseteq live /\ Children(live)' \subseteq live
    BY <1>2, <1>7, <1>8 DEF IInv, AllLive, RootsLive
  <1> QED BY <1>6, <1>8, <1>9, MoveStep DEF CallFunction, Step, Free

LEMMA ReturnStep ==
  ASSUME OneState, IInv, NEW v \in Vm, ReturnOp(v)
  PROVE  IInv'
  <1>1. PICK n \in 0 .. Top(v) - 1 :
          SetStack(v, IF Len(frames[v]) = 1 THEN Cut(v, n) ELSE Append(Cut(v, n), Peek(v, 0)))
    BY DEF ReturnOp
  <1>2. stack[v] \in Seq(Ref \cup {NoRef}) /\ Top(v) > 0 /\ n \in 0 .. Len(stack[v])
    <2>1. stack[v] \in Seq(Ref \cup {NoRef})
      BY DEF IInv, TypeOK
    <2>2. PICK k \in Nat : k = Len(stack[v])
      BY <2>1
    <2>3. Top(v) = k /\ n \in 0 .. k - 1
      BY <1>1, <2>2 DEF Top
    <2> QED BY <2>1, <2>2, <2>3
  <1>3. Peek(v, 0) \in Values(stack[v]) /\ Peek(v, 0) \in Ref \cup {NoRef}
    BY <1>2, PeekValue
  <1>4. Cut(v, n) \in Seq(Ref \cup {NoRef}) /\ Values(Cut(v, n)) \subseteq Values(stack[v])
    BY <1>2, CutValues DEF Cut
  <1>5. Append(Cut(v, n), Peek(v, 0)) \in Seq(Ref \cup {NoRef})
        /\ Values(Append(Cut(v, n), Peek(v, 0))) = Values(Cut(v, n)) \cup {Peek(v, 0)}
    BY <1>3, <1>4, AppendValues
  <1>6. stack' \in [Vm -> Seq(Ref \cup {NoRef})] /\ Values(stack'[v]) \subseteq Values(stack[v])
    <2>1. CASE Len(frames[v]) = 1
      BY <1>1, <1>4, <2>1, StackTyped DEF IInv
    <2>2. CASE Len(frames[v]) # 1
      <3>1. SetStack(v, Append(Cut(v, n), Peek(v, 0)))
        BY <1>1, <2>2
      <3> QED BY <1>3, <1>4, <1>5, <3>1, StackTyped DEF IInv
    <2> QED BY <2>1, <2>2
  <1>7. frames' \in [Vm -> Seq(Ref)] /\ Values(frames'[v]) \subseteq Values(frames[v])
    <2>1. frames[v] \in Seq(Ref) /\ frames[v] # <<>> /\ Len(frames[v]) - 1 \in 0 .. Len(frames[v])
      BY DEF ReturnOp, Step, IInv, TypeOK
    <2>2. SubSeq(frames[v], 1, Len(frames[v]) - 1) \in Seq(Ref)
          /\ Values(SubSeq(frames[v], 1, Len(frames[v]) - 1)) \subseteq Values(frames[v])
      BY <2>1, CutValues
    <2> QED BY <2>2 DEF ReturnOp, IInv, TypeOK
  <1>8. TypeOK'
    BY <1>6, <1>7 DEF ReturnOp, Step, IInv, TypeOK, live, states, collector
  <1>9. Roots(v)' \subseteq Roots(v)
    BY <1>6, <1>7 DEF ReturnOp, Roots, Keys, Bindings
  <1>10. live' = live /\ Children(live)' = Children(live)
    BY DEF ReturnOp, live, Children
  <1>11. Roots(v)' \subseteq live /\ Children(live)' \subseteq live
    BY <1>9, <1>10 DEF IInv, AllLive, RootsLive
  <1> QED BY <1>8, <1>10, <1>11, MoveStep DEF ReturnOp, Step, Free

LEMMA ResetStep ==
  ASSUME OneState, IInv, NEW v \in Vm, Reset(v)
  PROVE  IInv'
  <1>1. /\ stack' \in [Vm -> Seq(Ref \cup {NoRef})] /\ Values(stack'[v]) = {}
        /\ frames' \in [Vm -> Seq(Ref)] /\ Values(frames'[v]) = {}
        /\ thrown' \in [Vm -> Ref \cup {NoRef}] /\ thrown'[v] = NoRef
    BY DEF Reset, SetStack, IInv, TypeOK, Values
  <1>2. TypeOK'
    BY <1>1 DEF Reset, IInv, TypeOK, live, states, collector
  <1>3. Roots(v)' \subseteq Roots(v)
    BY <1>1 DEF Reset, Roots, Keys, Bindings
  <1>4. live' = live /\ Children(live)' = Children(live)
    BY DEF Reset, live, Children
  <1>5. Roots(v)' \subseteq live /\ Children(live)' \subseteq live
    BY <1>3, <1>4 DEF IInv, AllLive, RootsLive
  <1> QED BY <1>2, <1>4, <1>5, MoveStep DEF Reset, Free

-----------------------------------------------------------------------------
(***************************************************************************)
(* Operations that go on to allocate                                       *)
(***************************************************************************)
\* An operation may start with what it holds and wants if a collection that
\* one of its allocations makes finds it holding nothing.
LEMMA StartStep ==
  ASSUME OneState, IInv, NEW v \in Vm, NEW op \in Ops \ {"none", "joined"},
         NEW holds \in Seq(Ref), Values(holds) \subseteq live, NEW wants \in Seq(Wanted),
         Start(op, v, holds, wants), UNCHANGED <<frames, globals, thrown>>,
         stack' \in [Vm -> Seq(Ref \cup {NoRef})], Values(stack'[v]) \subseteq Values(stack[v]),
         op # "concat" => Len(holds) + Len(wants) >= 1,
         op \in {"builtin", "register", "setstring"} => Len(holds) + Len(wants) >= 2,
         op \in {"string", "split"} => Len(stack'[v]) > 0,
         "pressure" \in Routines /\ gcVm # NoVm => holds = <<>> /\ Len(wants) = 1
  PROVE  IInv'
  <1>1. /\ call' = [op |-> op, vm |-> v, wants |-> wants] /\ held' = holds /\ v \in opened
        /\ UNCHANGED <<objects, table, states, collector>>
    BY DEF Start
  <1>2. live' = live /\ Children(live)' = Children(live)
    BY <1>1 DEF live, Children
  <1>3. TypeOK'
    <2>1. \A i \in 1 .. Len(call'.wants) : call'.wants[i] \in Wanted
      BY <1>1
    <2> QED BY <1>1, <1>2, <2>1 DEF IInv, TypeOK, states, collector
  <1>4. CallOK'
    BY <1>1 DEF CallOK, Top, states, IInv, TypeOK
  <1>5. Roots(v)' \subseteq Roots(v)
    BY DEF Roots, Keys, Bindings
  <1>6. RootsLive'
    BY <1>2, <1>5 DEF OneState, IInv, AllLive, RootsLive
  <1>7. AllLive'
    BY <1>1, <1>2, <1>6 DEF IInv, AllLive, Values
  <1>8. NothingHeld'
    BY <1>1 DEF IInv, NothingHeld, states
  <1>9. Marking'
    BY <1>1 DEF Start, Free, IInv, Marking, collector
  <1> QED BY <1>3, <1>4, <1>7, <1>8, <1>9 DEF IInv

\* The operations that leave the stack as it is and hold nothing yet.
LEMMA PlainStart ==
  ASSUME OneState, IInv, NEW v \in Vm, NEW op \in Ops \ {"none", "joined", "concat"},
         NEW wants \in Seq(Wanted), Start(op, v, <<>>, wants), UNCHANGED roots,
         Len(wants) >= 1,
         op \in {"builtin", "register", "setstring"} => Len(wants) >= 2,
         op \in {"string", "split"} => Top(v) > 0,
         "pressure" \in Routines /\ gcVm # NoVm => Len(wants) = 1
  PROVE  IInv'
  <1>1. <<>> \in Seq(Ref) /\ Values(<<>>) = {} /\ Len(<<>>) = 0
    BY DEF Values
  <1>2. /\ stack' = stack /\ stack' \in [Vm -> Seq(Ref \cup {NoRef})]
        /\ UNCHANGED <<frames, globals, thrown>>
    BY DEF roots, IInv, TypeOK
  <1>3. Values(stack'[v]) \subseteq Values(stack[v]) /\ (op \in {"string", "split"} => Len(stack'[v]) > 0)
    BY <1>2 DEF Top
  <1>4. op \in Ops \ {"none", "joined"}
    OBVIOUS
  <1>5. op # "concat" => Len(<<>>) + Len(wants) >= 1
    BY <1>1
  <1>6. op \in {"builtin", "register", "setstring"} => Len(<<>>) + Len(wants) >= 2
    BY <1>1
  <1>7. "pressure" \in Routines /\ gcVm # NoVm => <<>> = <<>> /\ Len(wants) = 1
    OBVIOUS
  <1> HIDE DEF IInv
  <1> QED BY <1>1, <1>2, <1>3, <1>4, <1>5, <1>6, <1>7, StartStep

\* One, two or three wanted objects.
LEMMA WantedSeqs ==
  ASSUME NEW x \in Wanted, NEW y \in Wanted, NEW z \in Wanted
  PROVE  /\ <<x>> \in Seq(Wanted) /\ Len(<<x>>) = 1
         /\ <<x, y>> \in Seq(Wanted) /\ Len(<<x, y>>) = 2
         /\ <<x, y, z>> \in Seq(Wanted) /\ Len(<<x, y, z>>) = 3
  OBVIOUS

\* One object: any operation may.
LEMMA OneWanted ==
  ASSUME OneState, IInv, NEW v \in Vm, NEW w \in Wanted,
         NEW op \in {"array", "string", "throw", "compile", "recompile", "setplain", "getglobal"},
         Start(op, v, <<>>, <<w>>), UNCHANGED roots, op = "string" => Top(v) > 0
  PROVE  IInv'
  <1>1. PICK wants \in Seq(Wanted) : wants = <<w>>
    BY WantedSeqs
  <1>2. Len(wants) = 1 /\ Len(wants) >= 1
    BY <1>1
  <1>3. op \in Ops \ {"none", "joined", "concat"}
        /\ ~(op \in {"builtin", "register", "setstring"})
        /\ (op \in {"string", "split"} => Top(v) > 0)
    BY DEF Ops
  <1>4. Start(op, v, <<>>, wants)
    BY <1>1
  <1> QED BY <1>2, <1>3, <1>4, PlainStart

\* Two objects and more: where an allocation may collect, there is no state
\* yet that could be collected.
LEMMA MoreWanted ==
  ASSUME OneState, Rooted, IInv, NEW v \in Vm, NEW wants \in Seq(Wanted), Len(wants) >= 2,
         NEW op \in {"split", "compile", "recompile", "builtin", "register", "setstring"},
         Start(op, v, <<>>, wants), UNCHANGED roots,
         op \in {"compile", "builtin"} => v \notin started,
         op = "split" => Top(v) > 0
  PROVE  IInv'
  <1>1. ~("pressure" \in Routines /\ gcVm # NoVm)
    <2> SUFFICES ASSUME "pressure" \in Routines, gcVm # NoVm PROVE FALSE
      OBVIOUS
    <2>1. op \in Routines
      BY DEF Start
    <2>2. op \in {"compile", "builtin"}
      BY <2>1 DEF Rooted, Unrooted
    <2>3. gcVm \in started /\ gcVm \in Vm
      BY DEF IInv, NothingHeld, TypeOK
    <2> QED BY <2>2, <2>3 DEF OneState
  <1>2. op \in Ops \ {"none", "joined", "concat"} /\ op # "string" /\ Len(wants) >= 1
    BY DEF Ops
  <1>3. (op \in {"string", "split"} => Top(v) > 0)
        /\ ("pressure" \in Routines /\ gcVm # NoVm => Len(wants) = 1)
    BY <1>1, <1>2
  <1> QED BY <1>2, <1>3, PlainStart

\* The operations that want one object, whose operands stay on the stack.
LEMMA PlainSteps ==
  ASSUME OneState, IInv, NEW v \in Vm,
         BuildArray(v) \/ NativeString(v) \/ ThrowError(v) \/ SetGlobalPlain(v) \/ GetGlobal(v)
  PROVE  IInv'
  <1>1. CASE BuildArray(v)
    BY <1>1, WantedForms, OneWanted DEF BuildArray
  <1>2. CASE NativeString(v)
    <2>1. PICK t \in Text : Start("string", v, <<>>, <<String(t)>>)
      BY <1>2 DEF NativeString
    <2> QED BY <1>2, <2>1, WantedForms, OneWanted DEF NativeString
  <1>3. CASE ThrowError(v)
    <2>1. PICK t \in Text : Start("throw", v, <<>>, <<String(t)>>)
      BY <1>3 DEF ThrowError
    <2> QED BY <1>3, <2>1, WantedForms, OneWanted DEF ThrowError
  <1>4. CASE SetGlobalPlain(v)
    <2>1. PICK t \in Text : Start("setplain", v, <<>>, <<String(t)>>)
      BY <1>4 DEF SetGlobalPlain
    <2> QED BY <1>4, <2>1, WantedForms, OneWanted DEF SetGlobalPlain
  <1>5. CASE GetGlobal(v)
    <2>1. PICK t \in Text : Start("getglobal", v, <<>>, <<String(t)>>)
      BY <1>5 DEF GetGlobal
    <2> QED BY <1>5, <2>1, WantedForms, OneWanted DEF GetGlobal
  <1> QED BY <1>1, <1>2, <1>3, <1>4, <1>5

\* The operations that want several: `Rooted` keeps collections away from them.
LEMMA SplitStep ==
  ASSUME OneState, Rooted, IInv, NEW v \in Vm, NativeSplit(v)
  PROVE  IInv'
  <1>1. PICK t \in Text, u \in Text :
          Start("split", v, <<>>, <<Other("array"), String(t), String(u)>>)
    BY DEF NativeSplit
  <1>2. PICK wants \in Seq(Wanted) :
          wants = <<Other("array"), String(t), String(u)>> /\ Len(wants) = 3
    BY WantedForms, WantedSeqs
  <1>3. Start("split", v, <<>>, wants) /\ UNCHANGED roots /\ Top(v) > 0 /\ Len(wants) >= 2
    BY <1>1, <1>2 DEF NativeSplit
  <1> QED BY <1>3, MoreWanted

LEMMA CompileStep ==
  ASSUME OneState, Rooted, IInv, NEW v \in Vm, Compile(v)
  PROVE  IInv'
  <1>1. PICK op \in {"compile", "recompile"},
             w \in {Other("function")} \cup {String(t) : t \in Text} :
          /\ op = "compile" => v \notin started
          /\ \/ Start(op, v, <<>>, <<Other("function")>>)
             \/ Start(op, v, <<>>, <<Other("function"), w>>)
    BY DEF Compile
  <1>2. UNCHANGED roots
    BY DEF Compile
  <1>3. CASE Start(op, v, <<>>, <<Other("function")>>)
    BY <1>2, <1>3, WantedForms, OneWanted
  <1>4. CASE Start(op, v, <<>>, <<Other("function"), w>>)
    <2>1. PICK wants \in Seq(Wanted) : wants = <<Other("function"), w>> /\ Len(wants) = 2
      BY WantedForms, WantedSeqs
    <2>2. Start(op, v, <<>>, wants) /\ Len(wants) >= 2
      BY <1>4, <2>1
    <2> QED BY <1>1, <1>2, <2>2, MoreWanted
  <1> QED BY <1>1, <1>3, <1>4

LEMMA RegisterStep ==
  ASSUME OneState, Rooted, IInv, NEW v \in Vm, RegisterNative(v)
  PROVE  IInv'
  <1>1. PICK t \in Text, op \in {"builtin", "register"} :
          /\ op = "builtin" => v \notin started
          /\ Start(op, v, <<>>, <<Other("native"), String(t)>>)
    BY DEF RegisterNative
  <1>2. PICK wants \in Seq(Wanted) : wants = <<Other("native"), String(t)>> /\ Len(wants) = 2
    BY WantedForms, WantedSeqs
  <1>3. Start(op, v, <<>>, wants) /\ UNCHANGED roots /\ Len(wants) >= 2
    BY <1>1, <1>2 DEF RegisterNative
  <1> QED BY <1>1, <1>3, MoreWanted

LEMMA SetStringStep ==
  ASSUME OneState, Rooted, IInv, NEW v \in Vm, SetGlobalString(v)
  PROVE  IInv'
  <1>1. PICK t \in Text, u \in Text : Start("setstring", v, <<>>, <<String(t), String(u)>>)
    BY DEF SetGlobalString
  <1>2. PICK wants \in Seq(Wanted) : wants = <<String(t), String(u)>> /\ Len(wants) = 2
    BY WantedForms, WantedSeqs
  <1>3. Start("setstring", v, <<>>, wants) /\ UNCHANGED roots /\ Len(wants) >= 2
    BY <1>1, <1>2 DEF SetGlobalString
  <1> QED BY <1>3, MoreWanted

LEMMA ConcatStep ==
  ASSUME OneState, Rooted, IInv, NEW v \in Vm, Concat(v)
  PROVE  IInv'
  <1>1. stack[v] \in Seq(Ref \cup {NoRef}) /\ Top(v) > 1 /\ Top(v) - 2 \in 0 .. Len(stack[v])
    BY DEF Concat, IInv, TypeOK, Top
  <1>2. stack' \in [Vm -> Seq(Ref \cup {NoRef})] /\ Values(stack'[v]) \subseteq Values(stack[v])
    BY <1>1, CutValues, StackTyped DEF Concat, Cut, IInv
  <1> DEFINE holds == IfString(Peek(v, 1)) \o IfString(Peek(v, 0))
  <1>3. \A r : IfString(r) \in Seq(Ref) /\ Values(IfString(r)) \subseteq live /\ Len(IfString(r)) <= 1
    <2> TAKE r
    <2>1. CASE IsA("string", r)
      <3>1. r \in live /\ r \in Ref /\ IfString(r) = <<r>>
        BY <2>1 DEF IfString, IsA, IInv, TypeOK
      <3> QED BY <3>1 DEF Values
    <2>2. CASE ~IsA("string", r)
      <3>1. IfString(r) = <<>>
        BY <2>2 DEF IfString
      <3> QED BY <3>1 DEF Values
    <2> QED BY <2>1, <2>2
  <1>4. holds \in Seq(Ref) /\ Values(holds) \subseteq live /\ Len(holds) \in 0 .. 2
    <2>1. \A s, t \in Seq(Ref) : /\ s \o t \in Seq(Ref) /\ Len(s \o t) = Len(s) + Len(t)
                                 /\ Values(s \o t) \subseteq Values(s) \cup Values(t)
      BY DEF Values
    <2> QED BY <1>3, <2>1
  <1>5. PICK t \in [1 .. 2 - Len(holds) -> Text] :
          Start("concat", v, holds, [i \in DOMAIN t |-> String(t[i])])
    BY DEF Concat
  <1>6. [i \in DOMAIN t |-> String(t[i])] \in Seq(Wanted)
    <2>1. 2 - Len(holds) \in Nat /\ DOMAIN t = 1 .. 2 - Len(holds)
      BY <1>4
    <2>2. \A i \in 1 .. 2 - Len(holds) : String(t[i]) \in Wanted
      BY WantedForms
    <2> HIDE DEF holds
    <2> QED BY <2>1, <2>2
  <1>7. ~("pressure" \in Routines)
    BY <1>5 DEF Start, Rooted, Unrooted
  <1>8. UNCHANGED <<frames, globals, thrown>>
    BY DEF Concat
  <1>9. "concat" \in Ops \ {"none", "joined"}
    BY DEF Ops
  <1> HIDE DEF holds
  <1> QED BY <1>2, <1>4, <1>5, <1>6, <1>7, <1>8, <1>9, StartStep

\* A collection may start when nothing is held.
LEMMA CollectStep ==
  ASSUME IInv, NEW v \in Vm, Collect(v), held = <<>>, gc = "off"
  PROVE  IInv'
  <1>1. live' = live /\ Children(live)' = Children(live) /\ \A w \in Vm : Roots(w)' = Roots(w)
    BY DEF Collect, live, Children, Roots, Keys, Bindings, roots
  <1>2. TypeOK'
    BY <1>1 DEF Collect, IInv, TypeOK, states, roots
  <1>3. CallOK'
    BY DEF Collect, IInv, CallOK, Top, states, roots
  <1>4. AllLive'
    BY <1>1 DEF Collect, IInv, AllLive, RootsLive, Values
  <1>5. NothingHeld'
    BY DEF Collect, IInv, NothingHeld, states
  <1>6. Marking'
    BY DEF Collect, Marking
  <1> QED BY <1>2, <1>3, <1>4, <1>5, <1>6 DEF IInv

LEMMA CollectNowStep ==
  ASSUME IInv, NEW v \in Vm, CollectNow(v)
  PROVE  IInv'
  <1>1. held = <<>> /\ gc = "off" /\ Collect(v)
    BY DEF CollectNow, Free, Idle, IInv, CallOK
  <1> QED BY <1>1, CollectStep

LEMMA GcMaybeStep ==
  ASSUME IInv, GcMaybe
  PROVE  IInv'
  <1>1. held = <<>> /\ gc = "off" /\ Collect(gcVm) /\ gcVm \in Vm
    BY DEF GcMaybe, IInv, NothingHeld, TypeOK
  <1> QED BY <1>1, CollectStep

LEMMA OpenStep ==
  ASSUME IInv, NEW v \in Vm, Open(v)
  PROVE  IInv'
  <1>1. live' = live /\ Children(live)' = Children(live) /\ \A w \in Vm : Roots(w)' = Roots(w)
    BY DEF Open, live, Children, Roots, Keys, Bindings, roots
  <1>2. TypeOK'
    BY <1>1 DEF Open, IInv, TypeOK, roots, collector
  <1>3. CallOK'
    BY DEF Open, Free, Idle, IInv, CallOK
  <1>4. AllLive'
    BY <1>1 DEF Open, IInv, AllLive, RootsLive, Values
  <1>5. NothingHeld'
    BY DEF Open, Free, Idle, IInv, NothingHeld
  <1>6. Marking'
    BY <1>1 DEF Open, Free, IInv, Marking, collector
  <1> QED BY <1>2, <1>3, <1>4, <1>5, <1>6 DEF IInv

LEMMA CloseStep ==
  ASSUME OneState, Rooted, IInv, NEW v \in Vm, Close(v)
  PROVE  IInv'
  <1>1. live' = {} /\ objects' \in [live' -> Object] /\ Children(live)' = {}
    BY DEF Close, live, Children
  <1>2. /\ stack' \in [Vm -> Seq(Ref \cup {NoRef})] /\ stack'[v] = <<>>
        /\ frames' \in [Vm -> Seq(Ref)] /\ frames'[v] = <<>>
        /\ globals' \in [Vm -> SUBSET (Ref \X (Ref \cup {NoRef}))] /\ globals'[v] = {}
        /\ thrown' \in [Vm -> Ref \cup {NoRef}] /\ thrown'[v] = NoRef
    BY DEF Close, SetStack, IInv, TypeOK
  <1>3. TypeOK'
    BY <1>1, <1>2 DEF Close, IInv, TypeOK, collector
  <1>4. CallOK'
    BY DEF Close, Free, Idle, IInv, CallOK
  <1>5. Roots(v)' = {}
    BY <1>2 DEF Roots, Values, Keys, Bindings
  <1>6. held' = <<>>
    BY DEF Close, Free, Idle, IInv, CallOK
  <1>7. AllLive'
    BY <1>1, <1>5, <1>6 DEF Close, OneState, AllLive, RootsLive, Values
  <1>8. NothingHeld'
    BY DEF Close, Rooted, Unrooted, NothingHeld
  <1>9. Marking'
    BY DEF Close, Free, IInv, Marking, collector
  <1> QED BY <1>3, <1>4, <1>7, <1>8, <1>9 DEF IInv

-----------------------------------------------------------------------------
(***************************************************************************)
(* Allocating                                                              *)
(***************************************************************************)
\* One wanted object less.
LEMMA TailWants ==
  ASSUME NEW s \in Seq(Wanted), s # <<>>
  PROVE  Tail(s) \in Seq(Wanted) /\ Len(Tail(s)) = Len(s) - 1
  OBVIOUS

\* What an operation receives is among `objs`, which are the objects there
\* were, and perhaps one more.
LEMMA ReceiveStep ==
  ASSUME IInv, call.wants # <<>>, gc \in {"off", "done"},
         NEW D \in SUBSET Ref, NEW objs \in [D -> Object], NEW r \in D, live \subseteq D,
         \A x \in D : objs[x].kids \subseteq D, table' \subseteq D, Receive(r, objs)
  PROVE  IInv'
  <1>1. /\ call' = [op |-> call.op, vm |-> call.vm, wants |-> Tail(call.wants)]
        /\ gc' = "off" /\ UNCHANGED <<states, roots, collecting, marked>>
    BY DEF Receive
  <1>2. call.wants \in Seq(Wanted) /\ call.op \in Ops /\ call.vm \in Vm \cup {NoVm}
    BY DEF IInv, CallOK
  <1>3. Tail(call.wants) \in Seq(Wanted) /\ Len(Tail(call.wants)) = Len(call.wants) - 1
        /\ Len(call.wants) >= 1
    BY <1>2, TailWants
  <1>4. /\ live' = D /\ objects' \in [D -> Object]
        /\ \A x \in D : objects'[x].kids \subseteq D
        /\ held' \in Seq(Ref) /\ Values(held') \subseteq D
        /\ \/ Len(held') = Len(held) + 1
           \/ Len(held') = Len(held) /\ Len(held) >= 1 /\ call.op \in {"split", "compile", "recompile"}
    <2>0. held \in Seq(Ref) /\ Values(held) \subseteq D
      BY DEF IInv, TypeOK, AllLive
    <2>1. CASE Collects
      <3>1. held[1] \in live /\ held' = held
            /\ objects' = WithKids(objs, held[1], objs[held[1]].kids \cup {r})
        BY <2>1 DEF Receive
      <3>2. PICK K \in SUBSET D : K = objs[held[1]].kids \cup {r}
        BY <3>1
      <3>3. objects' = [objs EXCEPT ![held[1]] = [objs[held[1]] EXCEPT !.kids = K]]
        BY <3>1, <3>2 DEF WithKids
      <3>4. objs[held[1]] \in Object /\ K \in SUBSET Ref
        BY <3>1
      <3>5. [objs[held[1]] EXCEPT !.kids = K] \in Object
            /\ [objs[held[1]] EXCEPT !.kids = K].kids = K
        BY <3>4 DEF Object
      <3>6. live' = D /\ objects' \in [D -> Object]
        BY <3>3, <3>5 DEF live
      <3>7. \A x \in D : objects'[x].kids \subseteq D
        BY <3>3, <3>5
      <3>8. Len(held) >= 1 /\ call.op \in {"split", "compile", "recompile"}
        BY <2>0, <2>1 DEF Collects
      <3> QED BY <2>0, <3>1, <3>6, <3>7, <3>8
    <2>2. CASE ~Collects
      <3>1. held' = Append(held, r) /\ objects' = objs
        BY <2>2 DEF Receive
      <3>2. held' \in Seq(Ref) /\ Len(held') = Len(held) + 1 /\ Values(held') = Values(held) \cup {r}
        BY <2>0, <3>1, AppendValues
      <3> QED BY <2>0, <3>1, <3>2 DEF live
    <2> QED BY <2>1, <2>2
  <1>5. Children(live)' \subseteq D /\ \A w \in Vm : Roots(w)' = Roots(w)
    BY <1>1, <1>4 DEF Children, Roots, Keys, Bindings, roots
  <1>6. TypeOK'
    <2>1. \A i \in 1 .. Len(call'.wants) : call'.wants[i] \in Wanted
      BY <1>1, <1>3
    <2>2. table' \subseteq Ref /\ call'.vm \in Vm \cup {NoVm}
      BY <1>1, <1>2
    <2> QED BY <1>1, <1>4, <2>1, <2>2 DEF IInv, TypeOK, states, roots
  <1>7. CallOK'
    <2>1. call' \in [op : Ops, vm : Vm \cup {NoVm}, wants : Seq(Wanted)]
          /\ call'.op = call.op /\ call'.vm = call.vm /\ call'.wants = Tail(call.wants)
      BY <1>1, <1>2, <1>3
    <2>2. held \in Seq(Ref) /\ Len(held) \in Nat /\ Len(held') \in Nat
      BY <1>4 DEF IInv, TypeOK
    <2>3. call.op # "none"
      BY DEF IInv, CallOK
    <2>4. call'.op \notin {"none", "concat"} => Len(held') + Len(call'.wants) >= 1
      BY <1>3, <1>4, <2>1, <2>2 DEF IInv, CallOK
    <2>5. call'.op \in {"builtin", "register", "setstring"} => Len(held') + Len(call'.wants) >= 2
      BY <1>3, <1>4, <2>1, <2>2 DEF IInv, CallOK
    <2> QED BY <1>1, <2>1, <2>3, <2>4, <2>5 DEF IInv, CallOK, Top, states, roots
  <1>8. AllLive'
    BY <1>4, <1>5 DEF IInv, AllLive, RootsLive
  <1>9. NothingHeld'
    BY <1>1, <1>3 DEF IInv, NothingHeld, states
  <1>10. Marking'
    BY <1>1 DEF IInv, Marking
  <1> QED BY <1>6, <1>7, <1>8, <1>9, <1>10 DEF IInv

\* A string that is interned is there already.
LEMMA FindStringStep ==
  ASSUME IInv, FindString
  PROVE  IInv'
  <1>1. PICK r \in Found : Receive(r, objects)
    BY DEF FindString
  <1>2. r \in live /\ live \in SUBSET Ref /\ objects \in [live -> Object]
    BY DEF Found, IInv, TypeOK
  <1>3. \A x \in live : objects[x].kids \subseteq live
    BY DEF IInv, AllLive, Children
  <1>4. table' \subseteq live
    BY DEF FindString, IInv, AllLive
  <1>5. call.wants # <<>> /\ gc \in {"off", "done"}
    BY DEF FindString
  <1> QED BY <1>1, <1>2, <1>3, <1>4, <1>5, ReceiveStep

\* A new object refers to nothing yet, and is no garbage to a collection that is
\* not running.
LEMMA AllocateStep ==
  ASSUME IInv, Allocate
  PROVE  IInv'
  <1>1. PICK r \in Ref \ live :
       /\ Receive(r, [x \in live \cup {r} |->
                        IF x = r THEN [type |-> Want.type, text |-> Want.text, kids |-> {}]
                                 ELSE objects[x]])
       /\ table' = IF Want.type = "string" THEN table \cup {r} ELSE table
    BY DEF Allocate
  <1>2. PICK D \in SUBSET Ref : D = live \cup {r}
    BY <1>1 DEF IInv, TypeOK
  <1>3. PICK objs : objs = [x \in D |-> IF x = r THEN [type |-> Want.type, text |-> Want.text, kids |-> {}]
                                       ELSE objects[x]]
    OBVIOUS
  <1>4. Want \in Wanted
    <2>1. call.wants \in Seq(Wanted) /\ call.wants # <<>>
      BY DEF Allocate, IInv, CallOK
    <2> QED BY <2>1 DEF Want
  <1>5. [type |-> Want.type, text |-> Want.text, kids |-> {}] \in Object
    BY <1>4 DEF Wanted, Object
  <1>6. objs \in [D -> Object]
    BY <1>2, <1>3, <1>5 DEF IInv, TypeOK
  <1>7. \A x \in D : objs[x].kids \subseteq D
    <2> SUFFICES ASSUME NEW x \in D PROVE objs[x].kids \subseteq D
      OBVIOUS
    <2>1. CASE x = r
      BY <1>3, <2>1
    <2>2. CASE x # r
      <3>1. x \in live /\ objs[x] = objects[x]
        BY <1>2, <1>3, <2>2
      <3>2. objects[x].kids \subseteq live
        BY <3>1 DEF IInv, AllLive, Children
      <3> QED BY <1>2, <3>1, <3>2
    <2> QED BY <2>1, <2>2
  <1>8. table' \subseteq D
    BY <1>1, <1>2 DEF IInv, AllLive
  <1>9. Receive(r, objs) /\ r \in D /\ live \subseteq D
    BY <1>1, <1>2, <1>3
  <1>10. call.wants # <<>> /\ gc \in {"off", "done"}
    BY DEF Allocate
  <1> QED BY <1>6, <1>7, <1>8, <1>9, <1>10, ReceiveStep

-----------------------------------------------------------------------------
(***************************************************************************)
(* The ends of operations                                                  *)
(***************************************************************************)
\* The end of an operation keeps the invariant when what it stores was in hand.
LEMMA EndStep ==
  ASSUME OneState, IInv, NEW v \in Vm, v = call.vm, gc = "off", Done, TypeOK',
         UNCHANGED <<table, opened, collector>>, live' = live,
         Children(live)' \subseteq live, Roots(v)' \subseteq live,
         "pressure" \in Routines =>
           started' \subseteq opened /\ (gcVm' # NoVm => gcVm' \in started')
  PROVE  IInv'
  <1>2. CallOK'
    BY DEF Done, Idle, CallOK, Ops
  <1>3. RootsLive'
    BY DEF OneState, RootsLive
  <1>4. AllLive'
    BY <1>3 DEF Done, IInv, AllLive, Values
  <1>5. NothingHeld'
    BY DEF Done, Idle, NothingHeld
  <1>6. Marking'
    BY DEF IInv, Marking, collector
  <1> QED BY <1>2, <1>4, <1>5, <1>6 DEF IInv

\* What an operation that is ready has in hand.
LEMMA InHand ==
  ASSUME IInv, call.op \notin {"none", "concat"}, call.wants = <<>>
  PROVE  /\ call.vm \in Vm /\ call.vm \in opened
         /\ held[1] \in live /\ held[1] \in Ref
         /\ call.op \in {"builtin", "register", "setstring"} => held[2] \in live /\ held[2] \in Ref
         /\ call.op \in {"string", "split"} => Top(call.vm) > 0
  <1>1. held \in Seq(Ref) /\ Values(held) \subseteq live /\ Len(held) >= 1
        /\ (call.op \in {"builtin", "register", "setstring"} => Len(held) >= 2)
    BY DEF IInv, CallOK, TypeOK, AllLive
  <1>2. \A i \in 1 .. Len(held) : held[i] \in live /\ held[i] \in Ref
    BY <1>1 DEF Values
  <1> QED BY <1>1, <1>2 DEF IInv, CallOK, TypeOK

\* Push adds one value to a stack.
LEMMA PushedValues ==
  ASSUME IInv, NEW v \in Vm, NEW n \in 0 .. Top(v), NEW r \in Ref, Push(v, n, r)
  PROVE  /\ stack' \in [Vm -> Seq(Ref \cup {NoRef})]
         /\ Values(stack'[v]) \subseteq Values(stack[v]) \cup {r}
  <1>1. stack[v] \in Seq(Ref \cup {NoRef}) /\ Top(v) - n \in 0 .. Len(stack[v])
    BY DEF IInv, TypeOK, Top
  <1>2. Cut(v, Top(v) - n) \in Seq(Ref \cup {NoRef})
        /\ Values(Cut(v, Top(v) - n)) \subseteq Values(stack[v])
    BY <1>1, CutValues DEF Cut
  <1>3. r \in Ref \cup {NoRef}
    OBVIOUS
  <1>4. Append(Cut(v, Top(v) - n), r) \in Seq(Ref \cup {NoRef})
        /\ Values(Append(Cut(v, Top(v) - n), r)) = Values(Cut(v, Top(v) - n)) \cup {r}
    BY <1>2, <1>3, AppendValues
  <1>5. SetStack(v, Append(Cut(v, Top(v) - n), r)) /\ TypeOK
    BY DEF Push, IInv
  <1> QED BY <1>2, <1>4, <1>5, StackTyped

\* Which states are open, and which one is collected, is all NothingHeld asks of them.
LEMMA StatesKept ==
  ASSUME IInv, UNCHANGED states
  PROVE  "pressure" \in Routines =>
           started' \subseteq opened /\ (gcVm' # NoVm => gcVm' \in started')
  BY DEF IInv, NothingHeld, states

\* The types after an operation that only pushed.
LEMMA EndTyped ==
  ASSUME TypeOK, Done, UNCHANGED <<objects, table, opened, collector>>,
         started' \subseteq Vm, gcVm' \in Vm \cup {NoVm},
         stack' \in [Vm -> Seq(Ref \cup {NoRef})], frames' \in [Vm -> Seq(Ref)],
         globals' \in [Vm -> SUBSET (Ref \X (Ref \cup {NoRef}))],
         thrown' \in [Vm -> Ref \cup {NoRef}]
  PROVE  TypeOK'
  <1>1. held' \in Seq(Ref) /\ call'.vm \in Vm \cup {NoVm} /\ call'.wants = <<>>
    BY DEF Done, Idle
  <1>2. \A i \in 1 .. Len(call'.wants) : call'.wants[i] \in Wanted
    BY <1>1
  <1>3. live' = live /\ objects' \in [live' -> Object]
    BY DEF TypeOK, live
  <1>4. live' \subseteq Ref /\ table' \subseteq Ref /\ opened' \subseteq Vm
    BY <1>3 DEF TypeOK
  <1>5. /\ gc' \in {"off", "mark", "prune", "sweep", "done"}
        /\ collecting' \in Vm \cup {NoVm} /\ marked' \subseteq Ref
    BY DEF TypeOK, collector
  <1> QED BY <1>1, <1>2, <1>3, <1>4, <1>5 DEF TypeOK

LEMMA EndArrayStep ==
  ASSUME OneState, IInv, EndArray
  PROVE  IInv'
  <1>1. call.op = "array" /\ call.wants = <<>> /\ gc = "off" /\ Done
        /\ UNCHANGED <<table, states, frames, globals, thrown, collector>>
    BY DEF EndArray, Ready
  <1>2. PICK n \in 0 .. Top(call.vm) :
       /\ objects' = WithKids(objects, held[1],
                       {Peek(call.vm, i) : i \in 0 .. n - 1} \ {NoRef})
       /\ Push(call.vm, n, held[1])
    BY DEF EndArray
  <1>3. call.vm \in Vm /\ held[1] \in live /\ held[1] \in Ref
    BY <1>1, InHand
  <1>4. PICK v \in Vm : v = call.vm
    BY <1>3
  <1>5. stack[v] \in Seq(Ref \cup {NoRef}) /\ n \in 0 .. Top(v) /\ Top(v) = Len(stack[v])
    BY <1>2, <1>4 DEF IInv, TypeOK, Top
  <1>6. PICK K : K = {Peek(v, i) : i \in 0 .. n - 1} \ {NoRef}
    OBVIOUS
  <1>7. K \subseteq live /\ K \in SUBSET Ref
    <2>1. \A i \in 0 .. n - 1 : Top(v) - i \in 1 .. Len(stack[v])
      BY <1>5
    <2>2. \A i \in 0 .. n - 1 : Peek(v, i) \in Values(stack[v])
      BY <2>1 DEF Peek, Values
    <2>3. K \subseteq Roots(v)
      BY <1>6, <2>2 DEF Roots
    <2> QED BY <2>3 DEF IInv, AllLive, RootsLive, TypeOK
  <1>8. objects' = WithKids(objects, held[1], K) /\ Push(v, n, held[1])
    BY <1>2, <1>4, <1>6
  <1>9. /\ live' = live
        /\ objects' \in [live' -> Object]
        /\ Children(live)' \subseteq live
    BY <1>3, <1>7, <1>8, KidsChanged DEF IInv, TypeOK, AllLive
  <1>10. /\ stack' \in [Vm -> Seq(Ref \cup {NoRef})]
         /\ Values(stack'[v]) \subseteq Values(stack[v]) \cup {held[1]}
    BY <1>3, <1>5, <1>8, PushedValues
  <1>11. TypeOK'
    <2>1. TypeOK
      BY DEF IInv
    <2>2. held' \in Seq(Ref) /\ call'.vm = NoVm /\ Len(call'.wants) = 0
      BY <1>1 DEF Done, Idle
    <2>3. live' \subseteq Ref /\ objects' \in [live' -> Object]
      BY <1>9, <2>1 DEF TypeOK
    <2>4. call'.vm \in Vm \cup {NoVm} /\ \A i \in 1 .. Len(call'.wants) : call'.wants[i] \in Wanted
      BY <2>2
    <2>5. UNCHANGED <<table, opened, started, gcVm, frames, globals, thrown, gc, collecting, marked>>
      BY <1>1 DEF states, collector
    <2> QED BY <1>10, <2>1, <2>2, <2>3, <2>4, <2>5 DEF TypeOK
  <1>12. Roots(v)' \subseteq Roots(v) \cup {held[1]}
    BY <1>1, <1>10 DEF Roots, Keys, Bindings
  <1>13. Roots(v)' \subseteq live
    BY <1>3, <1>12 DEF IInv, AllLive, RootsLive
  <1>14. UNCHANGED <<table, opened, collector>> /\ UNCHANGED states
    BY <1>1 DEF states
  <1> QED BY <1>1, <1>4, <1>9, <1>11, <1>13, <1>14, StatesKept, EndStep

\* What the operations that only push their result have in common.
LEMMA EndPush ==
  ASSUME OneState, IInv, call.op \notin {"none", "concat"}, call.wants = <<>>, gc = "off", Done,
         NEW n \in 0 .. Top(call.vm), Push(call.vm, n, held[1]),
         UNCHANGED <<objects, table, states, frames, globals, collector>>,
         thrown' \in {thrown, [thrown EXCEPT ![call.vm] = NoRef]}
  PROVE  IInv'
  <1>1. call.vm \in Vm /\ held[1] \in live /\ held[1] \in Ref
    BY InHand
  <1>2. PICK v \in Vm : v = call.vm
    BY <1>1
  <1>3. /\ stack' \in [Vm -> Seq(Ref \cup {NoRef})]
        /\ Values(stack'[v]) \subseteq Values(stack[v]) \cup {held[1]}
    BY <1>1, <1>2, PushedValues
  <1>4. thrown' \in [Vm -> Ref \cup {NoRef}] /\ thrown'[v] \in {thrown[v], NoRef}
    BY <1>2 DEF IInv, TypeOK
  <1>5. live' = live /\ Children(live)' = Children(live) /\ objects' \in [live' -> Object]
    BY DEF live, Children, IInv, TypeOK
  <1>6. TypeOK'
    <2>1. TypeOK /\ UNCHANGED <<objects, table, opened, collector>>
      BY DEF IInv, states
    <2>2. /\ started' \subseteq Vm /\ gcVm' \in Vm \cup {NoVm}
          /\ frames' \in [Vm -> Seq(Ref)]
          /\ globals' \in [Vm -> SUBSET (Ref \X (Ref \cup {NoRef}))]
      BY DEF IInv, TypeOK, states
    <2> QED BY <1>3, <1>4, <2>1, <2>2, EndTyped
  <1>7. Roots(v)' \subseteq Roots(v) \cup {held[1]}
    BY <1>3, <1>4 DEF Roots, Keys, Bindings
  <1>8. Roots(v)' \subseteq live /\ Children(live)' \subseteq live
    BY <1>1, <1>5, <1>7 DEF IInv, AllLive, RootsLive
  <1>9. UNCHANGED <<table, opened, collector>> /\ UNCHANGED states
    BY DEF states
  <1> QED BY <1>2, <1>5, <1>6, <1>8, <1>9, StatesKept, EndStep

LEMMA EndPushSteps ==
  ASSUME OneState, IInv, EndString \/ EndSplit \/ EndConcat
  PROVE  IInv'
  <1>1. /\ call.op \in {"string", "split", "joined"} /\ call.wants = <<>> /\ gc = "off" /\ Done
        /\ UNCHANGED <<objects, table, states, frames, globals, collector>>
    BY DEF EndString, EndSplit, EndConcat, Ready
  <1>2. call.vm \in Vm /\ (call.op \in {"string", "split"} => Top(call.vm) > 0)
    BY <1>1, InHand
  <1>3. Top(call.vm) \in Nat
    BY <1>2 DEF IInv, TypeOK, Top
  <1>4. CASE EndString \/ EndSplit
    <2>1. call.op \in {"string", "split"} /\ Push(call.vm, 1, held[1])
          /\ thrown' \in {thrown, [thrown EXCEPT ![call.vm] = NoRef]}
      BY <1>4 DEF EndString, EndSplit, Ready
    <2>2. 1 \in 0 .. Top(call.vm)
      BY <1>2, <1>3, <2>1
    <2> QED BY <1>1, <2>1, <2>2, EndPush
  <1>5. CASE EndConcat
    <2>1. Push(call.vm, 0, held[1]) /\ thrown' \in {thrown, [thrown EXCEPT ![call.vm] = NoRef]}
      BY <1>5 DEF EndConcat
    <2>2. 0 \in 0 .. Top(call.vm)
      BY <1>3
    <2> QED BY <1>1, <2>1, <2>2, EndPush
  <1> QED BY <1>4, <1>5

LEMMA JoinStep ==
  ASSUME IInv, Join
  PROVE  IInv'
  <1>1. PICK t \in Text : call' = [op |-> "joined", vm |-> call.vm, wants |-> <<String(t)>>]
    BY DEF Join
  <1>2. String(t) \in Wanted /\ <<String(t)>> \in Seq(Wanted) /\ Len(<<String(t)>>) = 1
    BY WantedForms, WantedSeqs
  <1>3. call.op = "concat" /\ held' = <<>> /\ gc = "off"
        /\ UNCHANGED <<objects, table, states, roots, collector>>
    BY DEF Join, Ready
  <1>4. live' = live /\ Children(live)' = Children(live) /\ \A w \in Vm : Roots(w)' = Roots(w)
    BY <1>3 DEF live, Children, Roots, Keys, Bindings, roots
  <1>5. TypeOK'
    <2>1. call.vm \in Vm \cup {NoVm}
      BY DEF IInv, CallOK
    <2>2. \A i \in 1 .. Len(call'.wants) : call'.wants[i] \in Wanted
      BY <1>1, <1>2
    <2> QED BY <1>1, <1>3, <1>4, <2>1, <2>2 DEF IInv, TypeOK, states, roots, collector
  <1>6. CallOK'
    BY <1>1, <1>2, <1>3 DEF IInv, CallOK, Ops, states
  <1>7. AllLive'
    BY <1>3, <1>4 DEF IInv, AllLive, RootsLive, Values
  <1>8. NothingHeld'
    BY <1>1, <1>2, <1>3 DEF IInv, NothingHeld, states
  <1>9. Marking'
    BY <1>3 DEF IInv, Marking, collector
  <1> QED BY <1>5, <1>6, <1>7, <1>8, <1>9 DEF IInv

LEMMA EndGetGlobalStep ==
  ASSUME OneState, IInv, EndGetGlobal
  PROVE  IInv'
  <1>1. /\ call.op = "getglobal" /\ call.wants = <<>> /\ gc = "off" /\ Done
        /\ UNCHANGED <<objects, table, states, roots, collector>>
    BY DEF EndGetGlobal, Ready
  <1>2. PICK v \in Vm : v = call.vm
    BY <1>1, InHand
  <1>3. live' = live /\ Children(live)' = Children(live) /\ Roots(v)' = Roots(v)
    BY <1>1 DEF live, Children, Roots, Keys, Bindings, roots
  <1>4. TypeOK'
    BY <1>1, <1>3 DEF Done, Idle, IInv, TypeOK, states, roots, collector
  <1>5. Roots(v)' \subseteq live /\ Children(live)' \subseteq live
    BY <1>3 DEF IInv, AllLive, RootsLive
  <1>6. UNCHANGED <<table, opened, collector>> /\ UNCHANGED states
    BY <1>1 DEF states
  <1> QED BY <1>1, <1>2, <1>3, <1>4, <1>5, <1>6, StatesKept, EndStep

LEMMA EndThrowStep ==
  ASSUME OneState, IInv, EndThrow
  PROVE  IInv'
  <1>1. /\ call.op = "throw" /\ call.wants = <<>> /\ gc = "off" /\ Done
        /\ thrown' = [thrown EXCEPT ![call.vm] = held[1]]
        /\ UNCHANGED <<objects, table, states, globals, collector>>
    BY DEF EndThrow, Ready
  <1>2. call.vm \in Vm /\ held[1] \in live /\ held[1] \in Ref
    BY <1>1, InHand
  <1>3. PICK v \in Vm : v = call.vm
    BY <1>2
  <1>4. thrown' \in [Vm -> Ref \cup {NoRef}] /\ thrown'[v] = held[1]
    BY <1>1, <1>2, <1>3 DEF IInv, TypeOK
  <1>5. /\ stack' \in [Vm -> Seq(Ref \cup {NoRef})]
        /\ Values(stack'[v]) \subseteq Values(stack[v]) \cup {held[1]}
        /\ frames' \in [Vm -> Seq(Ref)] /\ Values(frames'[v]) \subseteq Values(frames[v])
    <2>1. CASE UNCHANGED <<stack, frames>>
      BY <2>1 DEF IInv, TypeOK
    <2>2. CASE ~UNCHANGED <<stack, frames>>
      <3>1. PICK n \in 0 .. Top(v), d \in 1 .. Len(frames[v]) :
              /\ SetStack(v, Append(Cut(v, n), held[1]))
              /\ frames' = [frames EXCEPT ![v] = SubSeq(@, 1, d)]
        BY <1>3, <2>2 DEF EndThrow
      <3>2. stack[v] \in Seq(Ref \cup {NoRef}) /\ n \in 0 .. Len(stack[v])
            /\ frames[v] \in Seq(Ref) /\ d \in 0 .. Len(frames[v])
        BY <3>1 DEF IInv, TypeOK, Top
      <3>3. Cut(v, n) \in Seq(Ref \cup {NoRef}) /\ Values(Cut(v, n)) \subseteq Values(stack[v])
        BY <3>2, CutValues DEF Cut
      <3>4. held[1] \in Ref \cup {NoRef}
        BY <1>2
      <3>5. Append(Cut(v, n), held[1]) \in Seq(Ref \cup {NoRef})
            /\ Values(Append(Cut(v, n), held[1])) = Values(Cut(v, n)) \cup {held[1]}
        BY <3>3, <3>4, AppendValues
      <3>6. TypeOK
        BY DEF IInv
      <3>7. stack' \in [Vm -> Seq(Ref \cup {NoRef})] /\ stack'[v] = Append(Cut(v, n), held[1])
        BY <3>1, <3>5, <3>6, StackTyped
      <3>8. SubSeq(frames[v], 1, d) \in Seq(Ref)
            /\ Values(SubSeq(frames[v], 1, d)) \subseteq Values(frames[v])
        BY <3>2, CutValues
      <3>9. frames' \in [Vm -> Seq(Ref)] /\ frames'[v] = SubSeq(frames[v], 1, d)
        BY <3>1, <3>8 DEF IInv, TypeOK
      <3> QED BY <3>3, <3>5, <3>7, <3>8, <3>9
    <2> QED BY <2>1, <2>2
  <1>6. live' = live /\ Children(live)' = Children(live) /\ objects' \in [live' -> Object]
    BY <1>1 DEF live, Children, IInv, TypeOK
  <1>7. TypeOK'
    <2>1. TypeOK /\ UNCHANGED <<objects, table, opened, collector>>
      BY <1>1 DEF IInv, states
    <2>2. /\ started' \subseteq Vm /\ gcVm' \in Vm \cup {NoVm}
          /\ globals' \in [Vm -> SUBSET (Ref \X (Ref \cup {NoRef}))]
      BY <1>1 DEF IInv, TypeOK, states
    <2> QED BY <1>1, <1>4, <1>5, <2>1, <2>2, EndTyped
  <1>8. Roots(v)' \subseteq Roots(v) \cup {held[1]}
    BY <1>1, <1>4, <1>5 DEF Roots, Keys, Bindings
  <1>9. Roots(v)' \subseteq live /\ Children(live)' \subseteq live
    BY <1>2, <1>6, <1>8 DEF IInv, AllLive, RootsLive
  <1>10. UNCHANGED <<table, opened, collector>> /\ UNCHANGED states
    BY <1>1 DEF states
  <1> QED BY <1>1, <1>3, <1>6, <1>7, <1>9, <1>10, StatesKept, EndStep

LEMMA RunStep ==
  ASSUME OneState, IInv, RunVM
  PROVE  IInv'
  <1>1. /\ call.op \in {"compile", "recompile"} /\ call.wants = <<>> /\ gc = "off" /\ Done
        /\ started' = started \cup {call.vm} /\ gcVm' = call.vm
        /\ Push(call.vm, 0, held[1])
        /\ UNCHANGED <<objects, table, opened, globals, thrown, collector>>
    BY DEF RunVM, Ready
  <1>2. call.vm \in Vm /\ call.vm \in opened /\ held[1] \in live /\ held[1] \in Ref
    BY <1>1, InHand
  <1>3. PICK v \in Vm : v = call.vm
    BY <1>2
  <1>4. 0 \in 0 .. Top(v) /\ Push(v, 0, held[1])
    BY <1>1, <1>3 DEF IInv, TypeOK, Top
  <1>5. /\ stack' \in [Vm -> Seq(Ref \cup {NoRef})]
        /\ Values(stack'[v]) \subseteq Values(stack[v]) \cup {held[1]}
    BY <1>2, <1>4, PushedValues
  <1>6. frames' \in [Vm -> Seq(Ref)] /\ Values(frames'[v]) \subseteq Values(frames[v]) \cup {held[1]}
    <2>1. frames[v] \in Seq(Ref) /\ frames \in [Vm -> Seq(Ref)]
      BY DEF IInv, TypeOK
    <2>2. Append(frames[v], held[1]) \in Seq(Ref)
          /\ Values(Append(frames[v], held[1])) = Values(frames[v]) \cup {held[1]}
      BY <1>2, <2>1, AppendValues
    <2>3. frames' \in {frames, [frames EXCEPT ![v] = Append(@, held[1])]}
      BY <1>3 DEF RunVM
    <2> QED BY <2>1, <2>2, <2>3
  <1>7. live' = live /\ Children(live)' = Children(live) /\ objects' \in [live' -> Object]
    BY <1>1 DEF live, Children, IInv, TypeOK
  <1>8. TypeOK'
    <2>1. /\ TypeOK /\ UNCHANGED <<objects, table, opened, collector>>
          /\ started' \subseteq Vm /\ gcVm' \in Vm \cup {NoVm}
          /\ globals' \in [Vm -> SUBSET (Ref \X (Ref \cup {NoRef}))]
          /\ thrown' \in [Vm -> Ref \cup {NoRef}]
      BY <1>1, <1>2 DEF IInv, TypeOK
    <2> QED BY <1>1, <1>5, <1>6, <2>1, EndTyped
  <1>9. Roots(v)' \subseteq Roots(v) \cup {held[1]}
    BY <1>1, <1>5, <1>6 DEF Roots, Keys, Bindings
  <1>10. Roots(v)' \subseteq live /\ Children(live)' \subseteq live
    BY <1>2, <1>7, <1>9 DEF IInv, AllLive, RootsLive
  <1>11. "pressure" \in Routines => started' \subseteq opened /\ (gcVm' # NoVm => gcVm' \in started')
    BY <1>1, <1>2 DEF IInv, NothingHeld
  <1>12. UNCHANGED <<table, opened, collector>>
    BY <1>1
  <1> QED BY <1>1, <1>3, <1>7, <1>8, <1>10, <1>11, <1>12, EndStep

LEMMA EndBindStep ==
  ASSUME OneState, IInv, EndBind
  PROVE  IInv'
  <1>1. /\ call.op \in {"builtin", "register", "setstring", "setplain"}
        /\ call.wants = <<>> /\ gc = "off" /\ Done
        /\ UNCHANGED <<objects, table, states, stack, frames, thrown, collector>>
    BY DEF EndBind, Ready
  <1>2. /\ call.vm \in Vm /\ held[1] \in live /\ held[1] \in Ref
        /\ call.op # "setplain" => held[2] \in live /\ held[2] \in Ref
    BY <1>1, InHand
  <1>3. PICK v \in Vm : v = call.vm
    BY <1>2
  <1>4. PICK k \in Ref, x \in Ref \cup {NoRef} :
          /\ globals' = [globals EXCEPT ![v] = Bound(v, k, x)]
          /\ k \in live /\ x \in live \cup {NoRef}
    <2>1. CASE call.op = "setplain"
      <3>1. globals' = [globals EXCEPT ![v] = Bound(v, held[1], NoRef)]
        BY <1>3, <2>1 DEF EndBind
      <3> QED BY <1>2, <3>1
    <2>2. CASE call.op # "setplain"
      <3>1. globals' = [globals EXCEPT ![v] = Bound(v, held[2], held[1])]
        BY <1>3, <2>2 DEF EndBind
      <3> QED BY <1>2, <2>2, <3>1
    <2> QED BY <2>1, <2>2
  <1>5. globals \in [Vm -> SUBSET (Ref \X (Ref \cup {NoRef}))]
    BY DEF IInv, TypeOK
  <1>6. /\ Bound(v, k, x) \in SUBSET (Ref \X (Ref \cup {NoRef}))
        /\ {p[1] : p \in Bound(v, k, x)} \subseteq Keys(v) \cup {k}
        /\ {p[2] : p \in Bound(v, k, x)} \subseteq Bindings(v) \cup {x}
    BY <1>5, BoundValues
  <1>7. globals' \in [Vm -> SUBSET (Ref \X (Ref \cup {NoRef}))] /\ globals'[v] = Bound(v, k, x)
    BY <1>4, <1>5, <1>6
  <1>8. Keys(v)' \subseteq Keys(v) \cup {k} /\ Bindings(v)' \subseteq Bindings(v) \cup {x}
    BY <1>6, <1>7 DEF Keys, Bindings
  <1>9. live' = live /\ Children(live)' = Children(live) /\ objects' \in [live' -> Object]
    BY <1>1 DEF live, Children, IInv, TypeOK
  <1>10. TypeOK'
    BY <1>1, <1>7, <1>9 DEF Done, Idle, IInv, TypeOK, states, collector
  <1>11. Roots(v)' \subseteq Roots(v) \cup {k} \cup ({x} \ {NoRef})
    BY <1>1, <1>8 DEF Roots
  <1>12. Roots(v)' \subseteq live /\ Children(live)' \subseteq live
    BY <1>4, <1>9, <1>11 DEF IInv, AllLive, RootsLive
  <1>13. UNCHANGED <<table, opened, collector>> /\ UNCHANGED states
    BY <1>1 DEF states
  <1> QED BY <1>1, <1>3, <1>9, <1>10, <1>12, <1>13, StatesKept, EndStep

-----------------------------------------------------------------------------
(***************************************************************************)
(* Collecting                                                              *)
(***************************************************************************)
\* Marking leaves everything but the marks, the phase and the table alone.
LEMMA MarkingStep ==
  ASSUME IInv, UNCHANGED <<objects, states, roots, held, call, collecting>>,
         table' \subseteq table, marked' \subseteq live, gc' \in {"mark", "prune", "sweep"}, Marking'
  PROVE  IInv'
  <1>1. live' = live /\ Children(live)' = Children(live) /\ \A w \in Vm : Roots(w)' = Roots(w)
    BY DEF live, Children, Roots, Keys, Bindings, roots
  <1>2. marked' \subseteq Ref /\ table' \subseteq Ref
    BY DEF IInv, TypeOK
  <1>3. TypeOK'
    BY <1>1, <1>2 DEF IInv, TypeOK, states, roots
  <1>4. CallOK'
    BY DEF IInv, CallOK, Top, states, roots
  <1>5. AllLive'
    BY <1>1 DEF IInv, AllLive, RootsLive, Values
  <1>6. NothingHeld'
    BY DEF IInv, NothingHeld, states
  <1> QED BY <1>3, <1>4, <1>5, <1>6 DEF IInv

\* What leads where depends only on the objects and the roots.
LEMMA LeadsKept ==
  ASSUME UNCHANGED <<objects, roots, collecting>>, NEW CONSTANT S
  PROVE  Leads(S)' <=> Leads(S)
  BY DEF Leads, Roots, Keys, Bindings, Children, live, roots

\* Marking follows references only from what has to stay.
LEMMA MarkOneStep ==
  ASSUME IInv, MarkOne
  PROVE  IInv'
  <1>1. PICK r \in (Roots(collecting) \cup Children(marked)) \ marked : marked' = marked \cup {r}
    BY DEF MarkOne
  <1>2. /\ gc = "mark" /\ gc' = "mark"
        /\ UNCHANGED <<objects, table, states, roots, held, call, collecting>>
    BY DEF MarkOne
  <1>3. marked \subseteq live /\ collecting \in Vm /\ held = <<>>
        /\ \A S \in SUBSET Ref : Leads(S) => marked \subseteq S
    BY <1>2 DEF IInv, Marking
  <1>4. r \in live
    <2>1. Roots(collecting) \subseteq live
      BY <1>3 DEF IInv, AllLive, RootsLive
    <2>2. Children(marked) \subseteq live
      BY <1>3 DEF IInv, AllLive, Children
    <2> QED BY <1>1, <2>1, <2>2
  <1>5. \A S \in SUBSET Ref : Leads(S) => r \in S
    <2> SUFFICES ASSUME NEW S \in SUBSET Ref, Leads(S) PROVE r \in S
      OBVIOUS
    <2>1. marked \subseteq S
      BY <1>3
    <2>2. Children(marked) \subseteq Children(S)
      BY <2>1 DEF Children
    <2> QED BY <1>1, <2>2 DEF Leads
  <1>6. \A S \in SUBSET Ref : Leads(S)' => marked' \subseteq S
    BY <1>1, <1>2, <1>3, <1>5, LeadsKept
  <1>7. marked' \subseteq live /\ live' = live
    BY <1>1, <1>2, <1>3, <1>4 DEF live
  <1>8. Marking'
    BY <1>2, <1>3, <1>6, <1>7 DEF Marking
  <1> QED BY <1>2, <1>7, <1>8, MarkingStep

\* Nothing left to mark: what is marked is closed under references.
LEMMA EndMarkStep ==
  ASSUME IInv, EndMark
  PROVE  IInv'
  <1>1. /\ gc = "mark" /\ gc' = "prune" /\ Leads(marked)
        /\ UNCHANGED <<objects, table, states, roots, held, call, collecting, marked>>
    BY DEF EndMark, Leads
  <1>2. marked \subseteq live /\ collecting \in Vm /\ held = <<>>
        /\ \A S \in SUBSET Ref : Leads(S) => marked \subseteq S
    BY <1>1 DEF IInv, Marking
  <1>3. \A S \in SUBSET Ref : Leads(S)' => marked' \subseteq S
    BY <1>1, <1>2, LeadsKept
  <1>4. Leads(marked)' /\ live' = live
    BY <1>1 DEF Leads, Roots, Keys, Bindings, Children, live, roots
  <1>5. Marking'
    BY <1>1, <1>2, <1>3, <1>4 DEF Marking
  <1> QED BY <1>1, <1>2, <1>5, MarkingStep

\* The string table is left with marked strings only.
LEMMA PruneStep ==
  ASSUME IInv, Prune
  PROVE  IInv'
  <1>1. /\ gc = "prune" /\ gc' = "sweep" /\ table' = table \cap marked
        /\ UNCHANGED <<objects, states, roots, held, call, collecting, marked>>
    BY DEF Prune
  <1>2. marked \subseteq live /\ collecting \in Vm /\ held = <<>> /\ Leads(marked)
        /\ \A S \in SUBSET Ref : Leads(S) => marked \subseteq S
    BY <1>1 DEF IInv, Marking
  <1>3. \A S \in SUBSET Ref : Leads(S)' => marked' \subseteq S
    BY <1>1, <1>2, LeadsKept
  <1>4. Leads(marked)' /\ live' = live
    BY <1>1, <1>2 DEF Leads, Roots, Keys, Bindings, Children, live, roots
  <1>5. Marking'
    BY <1>1, <1>2, <1>3, <1>4 DEF Marking
  <1> QED BY <1>1, <1>2, <1>5, MarkingStep

\* What is freed was not marked, so nothing that stays refers to it.
LEMMA SweepStep ==
  ASSUME OneState, IInv, Sweep
  PROVE  IInv' /\ live' = marked
  <1>1. /\ gc = "sweep" /\ gc' \in {"off", "done"}
        /\ objects' = [r \in live \cap marked |-> objects[r]]
        /\ collecting' = NoVm /\ marked' = {}
        /\ UNCHANGED <<table, states, roots, held, call>>
    BY DEF Sweep
  <1>2. /\ marked \subseteq live /\ collecting \in Vm /\ held = <<>>
        /\ Roots(collecting) \subseteq marked /\ Children(marked) \subseteq marked
        /\ table \subseteq marked
    BY <1>1 DEF IInv, Marking, Leads
  <1>3. live' = marked /\ \A r \in marked : objects'[r] = objects[r]
    BY <1>1, <1>2 DEF live
  <1>4. objects' \in [live' -> Object] /\ live' \subseteq Ref
    BY <1>1, <1>2, <1>3 DEF IInv, TypeOK
  <1>5. Children(live)' \subseteq marked
    BY <1>2, <1>3 DEF Children
  <1>6. \A w \in Vm : Roots(w)' \subseteq marked
    <2>1. \A w \in Vm : Roots(w)' = Roots(w)
      BY <1>1 DEF Roots, Keys, Bindings, roots
    <2> QED BY <1>2, <2>1 DEF OneState
  <1>7. TypeOK'
    BY <1>1, <1>4 DEF IInv, TypeOK, states, roots
  <1>8. CallOK'
    BY <1>1 DEF IInv, CallOK, Top, states, roots
  <1>9. AllLive'
    BY <1>1, <1>2, <1>3, <1>5, <1>6 DEF AllLive, RootsLive, Values
  <1>10. NothingHeld'
    BY <1>1 DEF IInv, NothingHeld, states
  <1>11. Marking'
    BY <1>1 DEF Marking
  <1> QED BY <1>3, <1>7, <1>8, <1>9, <1>10, <1>11 DEF IInv

-----------------------------------------------------------------------------
(***************************************************************************)
(* The theorems                                                            *)
(***************************************************************************)
\* A stuttering step.
LEMMA StutterStep == ASSUME IInv, UNCHANGED vars PROVE IInv'
  <1>1. /\ UNCHANGED <<objects, table, opened, started, gcVm, stack, frames, globals, thrown>>
        /\ UNCHANGED <<held, call, gc, collecting, marked>>
    BY DEF vars, states, roots, collector
  <1>2. TypeOK'
    BY <1>1 DEF IInv, TypeOK, live
  <1>3. CallOK' /\ NothingHeld'
    BY <1>1 DEF IInv, CallOK, NothingHeld, Top
  <1>4. AllLive'
    BY <1>1 DEF IInv, AllLive, RootsLive, Roots, Keys, Bindings, Values, Children, live
  <1>5. Marking'
    BY <1>1 DEF IInv, Marking, Leads, Roots, Keys, Bindings, Values, Children, live
  <1> QED BY <1>2, <1>3, <1>4, <1>5 DEF IInv

\* Every step, by the action it is of.
LEMMA NextInv ==
  ASSUME OneState, Rooted, IInv, [Next]_vars
  PROVE  IInv'
  <1>1. CASE Collecting
    BY <1>1, MarkOneStep, EndMarkStep, PruneStep, SweepStep DEF Collecting
  <1>2. CASE Allocating
    BY <1>2, FindStringStep, GcMaybeStep, AllocateStep DEF Allocating
  <1>3. CASE Ending
    BY <1>3, EndArrayStep, EndPushSteps, JoinStep, EndThrowStep, RunStep, EndBindStep,
       EndGetGlobalStep DEF Ending
  <1>4. ASSUME NEW v \in Vm, Moving(v) PROVE IInv'
    BY <1>4, LoadStep, DiscardStep, DefineStep, SetIndexStep, PushStep, CallFunctionStep,
       ReturnStep, ResetStep DEF Moving
  <1>5. ASSUME NEW v \in Vm, Starting(v) PROVE IInv'
    BY <1>5, PlainSteps, SplitStep, ConcatStep, CompileStep, RegisterStep, SetStringStep,
       CollectNowStep, OpenStep, CloseStep DEF Starting
  <1>6. CASE UNCHANGED vars
    BY <1>6, StutterStep
  <1> QED BY <1>1, <1>2, <1>3, <1>4, <1>5, <1>6 DEF Next

\* Under those two conditions the invariant holds between any two steps, in the
\* middle of an operation and of a collection too.
THEOREM Invariance == ASSUME OneState, Rooted PROVE Spec => []IInv
  <1>1. Init => IInv
    BY InitInv
  <1>2. IInv /\ [Next]_vars => IInv'
    BY NextInv
  <1> QED BY <1>1, <1>2, PTL DEF Spec

\* The variables keep their types: no operation takes an object from an empty
\* list, and no stack, frame or table ever holds what is not an object.
THEOREM Typed == ASSUME OneState, Rooted PROVE Spec => []TypeOK
  <1>1. IInv => TypeOK
    BY DEF IInv
  <1> QED BY <1>1, Invariance, PTL

\* With one state, and every allocating operation rooting what it makes,
\* no collection frees what the stack, the frames, the globals, the pending
\* error or an object reachable from them still refers to, nor leaves a freed
\* string in the table.
THEOREM NoneDangles == ASSUME OneState, Rooted PROVE Spec => []NothingDangles
  <1>1. IInv => NothingDangles
    BY DEF IInv, AllLive, RootsLive, TypeOK, NothingDangles
  <1> QED BY <1>1, Invariance, PTL

\* Under the same conditions, what a C function has made and is still to use
\* is not freed under it.
THEOREM HeldStays == ASSUME OneState, Rooted PROVE Spec => []HeldKept
  <1>1. IInv => HeldKept
    BY DEF IInv, AllLive, HeldKept
  <1> QED BY <1>1, Invariance, PTL

\* Mark-and-sweep is exact: what is left after nq_collect is the least set
\* that holds the roots and all that its members refer to.
THEOREM Exact == ASSUME OneState, Rooted PROVE Spec => CollectsExactly
  <1>1. IInv /\ [Next]_vars => [gc = "sweep" /\ gc' # "sweep" => live' = Reachable]_vars
    <2> SUFFICES ASSUME IInv, [Next]_vars, gc = "sweep", gc' # "sweep"
                 PROVE  live' = Reachable
      OBVIOUS
    <2>1. Sweep
      BY DEF Next, Collecting, MarkOne, EndMark, Prune, Allocating, FindString, GcMaybe, Allocate,
         Ending, EndArray, EndString, EndSplit, Join, EndConcat, EndThrow, RunVM, EndBind,
         EndGetGlobal, Ready, Moving, Load, Discard, DefineGlobal, SetIndexOp, NativePush,
         CallFunction, ReturnOp, Reset, Step, Starting, BuildArray, NativeString, NativeSplit,
         Concat, ThrowError, Compile, RegisterNative, SetGlobalString, SetGlobalPlain, GetGlobal,
         CollectNow, Open, Close, Start, Free, vars, collector
    <2>2. live' = marked
      BY <2>1, SweepStep
    <2>3. marked \in SUBSET Ref /\ Leads(marked)
          /\ \A S \in SUBSET Ref : Leads(S) => marked \subseteq S
      BY DEF IInv, Marking, TypeOK
    <2>4. marked = Reachable
      BY <2>3 DEF Reachable
    <2> QED BY <2>2, <2>4
  <1> QED BY <1>1, Invariance, PTL DEF Spec, CollectsExactly

-----------------------------------------------------------------------------
(***************************************************************************)
(* Strings: between two collections the string table has every string      *)
(* there is, and no two strings say the same.                              *)
(***************************************************************************)
Strings == {r \in live : IsA("string", r)}

\* Before the sweep the strings that stay are in the table; a host that has no
\* state open has left no object behind.
TableComplete == IF gc = "sweep" THEN Strings \cap marked \subseteq table ELSE Strings \subseteq table
AllDistinct == \A r, s \in Strings : objects[r].text = objects[s].text => r = s
Interned == TableComplete /\ AllDistinct /\ (opened = {} => live = {})

(***************************************************************************)
(* Steps that make and free no object                                      *)
(***************************************************************************)
SameObjects ==
  live' = live /\ \A r \in live : objects'[r].type = objects[r].type /\ objects'[r].text = objects[r].text

\* An object that refers to others is the object it was.
LEMMA KidsKeepStrings ==
  ASSUME TypeOK, NEW a, NEW K, objects' = WithKids(objects, a, K)
  PROVE  SameObjects
<1>1. live' = live BY DEF WithKids, live
<1>2. ASSUME NEW r \in live
      PROVE  objects'[r].type = objects[r].type /\ objects'[r].text = objects[r].text
  <2>1. objects[r] \in Object BY DEF TypeOK
  <2>2. /\ [objects[r] EXCEPT !.kids = K].type = objects[r].type
        /\ [objects[r] EXCEPT !.kids = K].text = objects[r].text
    BY <2>1 DEF Object
  <2>3. objects'[r] = IF r = a THEN [objects[r] EXCEPT !.kids = K] ELSE objects[r]
    BY DEF WithKids, live
  <2>. QED BY <2>2, <2>3
<1>. QED BY <1>1, <1>2 DEF SameObjects

LEMMA Untouched == ASSUME UNCHANGED objects PROVE SameObjects
BY DEF SameObjects, live

\* Where the objects and the table are as they were, so is what is said of them.
LEMMA InternedKept ==
  ASSUME Interned, SameObjects, table' = table, opened' = opened,
         gc' = "sweep" => gc = "sweep" /\ marked' = marked,
         gc = "sweep" => gc' = "sweep"
  PROVE  Interned'
<1>1. Strings' = Strings BY DEF Strings, SameObjects, IsA
<1>2. AllDistinct' BY <1>1 DEF Interned, AllDistinct, SameObjects, Strings
<1>3. TableComplete' BY <1>1 DEF Interned, TableComplete
<1>. QED BY <1>2, <1>3 DEF Interned, SameObjects

(***************************************************************************)
(* The collector                                                           *)
(***************************************************************************)
LEMMA MarkInterned ==
  ASSUME Interned, MarkOne \/ EndMark
  PROVE  Interned'
<1>1. UNCHANGED <<objects, table, opened>> /\ gc = "mark" /\ gc' # "sweep"
  BY DEF MarkOne, EndMark, states
<1>. QED BY <1>1, Untouched, InternedKept

\* Pruning leaves the strings that stay in the table,
LEMMA PruneInterned ==
  ASSUME Interned, Prune
  PROVE  Interned'
<1>1. /\ UNCHANGED <<objects, opened, marked>> /\ gc = "prune" /\ gc' = "sweep"
      /\ table' = table \cap marked
  BY DEF Prune, states
<1>2. Strings' = Strings /\ live' = live BY <1>1 DEF Strings, live, IsA
<1>3. TableComplete' BY <1>1, <1>2 DEF Interned, TableComplete
<1>4. AllDistinct' BY <1>1, <1>2 DEF Interned, AllDistinct
<1>. QED BY <1>1, <1>2, <1>3, <1>4 DEF Interned

\* and sweeping leaves no other.
LEMMA SweepInterned ==
  ASSUME Interned, Sweep
  PROVE  Interned'
<1>1. /\ objects' = [r \in live \cap marked |-> objects[r]]
      /\ UNCHANGED <<table, opened>> /\ gc = "sweep" /\ gc' # "sweep"
  BY DEF Sweep, states
<1>2. live' = live \cap marked /\ \A r \in live' : objects'[r] = objects[r]
  BY <1>1 DEF live
<1>3. Strings' = Strings \cap marked BY <1>2 DEF Strings, IsA
<1>4. TableComplete' BY <1>1, <1>3 DEF Interned, TableComplete
<1>5. AllDistinct' BY <1>2, <1>3 DEF Interned, AllDistinct, Strings
<1>. QED BY <1>1, <1>2, <1>4, <1>5 DEF Interned

(***************************************************************************)
(* Allocating                                                              *)
(***************************************************************************)
LEMMA FindInterned ==
  ASSUME IInv, Interned, FindString
  PROVE  Interned'
<1>1. PICK r \in Found : Receive(r, objects) BY DEF FindString
<1>2. SameObjects
  <2>1. CASE Collects
    BY <1>1, <2>1, KidsKeepStrings DEF Receive, IInv
  <2>2. CASE ~Collects BY <1>1, <2>2, Untouched DEF Receive
  <2>. QED BY <2>1, <2>2
<1>3. table' = table /\ gc = "off" /\ gc' = "off" /\ opened' = opened
  BY <1>1 DEF FindString, Receive, states
<1>. QED BY <1>2, <1>3, InternedKept

\* A string that is made was not in the table, and hence nowhere.
LEMMA AllocateInterned ==
  ASSUME IInv, Interned, Allocate
  PROVE  Interned'
<1>. DEFINE made(r) == [x \in live \cup {r} |->
                          IF x = r THEN [type |-> Want.type, text |-> Want.text, kids |-> {}]
                                   ELSE objects[x]]
<1>1. PICK r \in Ref \ live :
        /\ Receive(r, made(r))
        /\ table' = IF Want.type = "string" THEN table \cup {r} ELSE table
  BY DEF Allocate
<1>2. /\ gc \in {"off", "done"} /\ gc' = "off" /\ opened' = opened /\ Found = {}
      /\ call.wants # <<>>
  BY <1>1 DEF Allocate, Receive, states
<1>3. Want \in Wanted
  <2>1. call.wants \in Seq(Wanted) BY DEF IInv, CallOK
  <2>. QED BY <2>1, <1>2 DEF Want
<1>4. opened # {}
  <2>1. call.op # "none" BY <1>2 DEF IInv, CallOK
  <2>. QED BY <2>1 DEF IInv, CallOK
<1>5. /\ live' = live \cup {r}
      /\ objects'[r].type = Want.type /\ objects'[r].text = Want.text
      /\ \A x \in live : objects'[x].type = objects[x].type /\ objects'[x].text = objects[x].text
  <2>1. DOMAIN made(r) = live \cup {r} OBVIOUS
  <2>2. made(r)[r] = [type |-> Want.type, text |-> Want.text, kids |-> {}]
        /\ \A x \in live : made(r)[x] = objects[x]
    BY <1>1
  <2>3. CASE ~Collects
    <3>1. objects' = made(r) BY <1>1, <2>3 DEF Receive
    <3>. QED BY <3>1, <2>1, <2>2 DEF live
  <2>4. CASE Collects
    <3>1. PICK a, K : objects' = WithKids(made(r), a, K) /\ a \in live
      BY <1>1, <2>4 DEF Receive
    <3>2. objects' = [made(r) EXCEPT ![a] = [made(r)[a] EXCEPT !.kids = K]]
      BY <3>1 DEF WithKids
    <3>3. a # r BY <3>1, <1>1
    <3>4. made(r)[a] = objects[a] BY <2>2, <3>1
    <3>. HIDE DEF made
    <3>5. live' = live \cup {r} BY <3>2, <2>1 DEF live
    <3>6. objects'[r] = made(r)[r] BY <3>2, <3>3, <2>1
    <3>7. \A x \in live : objects'[x] = IF x = a THEN [objects[a] EXCEPT !.kids = K] ELSE objects[x]
      BY <3>2, <3>4, <2>1, <2>2
    <3>8. objects[a] \in Object BY <3>1 DEF IInv, TypeOK
    <3>9. /\ [objects[a] EXCEPT !.kids = K].type = objects[a].type
          /\ [objects[a] EXCEPT !.kids = K].text = objects[a].text
      BY <3>8 DEF Object
    <3>10. objects'[r].type = Want.type /\ objects'[r].text = Want.text
      BY <3>6, <2>2
    <3>11. ASSUME NEW x \in live
           PROVE  objects'[x].type = objects[x].type /\ objects'[x].text = objects[x].text
      <4>1. CASE x = a BY <4>1, <3>7, <3>9
      <4>2. CASE x # a BY <4>2, <3>7
      <4>. QED BY <4>1, <4>2
    <3>. QED BY <3>5, <3>10, <3>11
  <2>. QED BY <2>3, <2>4
<1>6. Strings' = IF Want.type = "string" THEN Strings \cup {r} ELSE Strings
  BY <1>5, <1>1 DEF Strings, IsA
<1>7. Strings \subseteq table BY <1>2 DEF Interned, TableComplete
<1>8. TableComplete' BY <1>1, <1>2, <1>6, <1>7 DEF TableComplete
<1>9. ASSUME Want.type = "string", NEW s \in Strings
      PROVE  objects[s].text # Want.text
  <2>1. Want = String(Want.text) BY <1>3, <1>9 DEF Wanted, String
  <2>2. s \in table \cap live BY <1>7 DEF Strings
  <2>. QED BY <2>1, <2>2, <1>2 DEF Found
<1>10. AllDistinct'
  <2>. SUFFICES ASSUME NEW x \in Strings', NEW y \in Strings', objects'[x].text = objects'[y].text
                PROVE  x = y
    BY DEF AllDistinct
  <2>1. CASE x \in Strings /\ y \in Strings
    BY <2>1, <1>5 DEF Interned, AllDistinct, Strings
  <2>2. CASE x = r /\ y \in Strings BY <2>2, <1>5, <1>6, <1>9, <1>1 DEF Strings
  <2>3. CASE y = r /\ x \in Strings BY <2>3, <1>5, <1>6, <1>9, <1>1 DEF Strings
  <2>. QED BY <2>1, <2>2, <2>3, <1>6
<1>. QED BY <1>2, <1>4, <1>8, <1>10 DEF Interned

(***************************************************************************)
(* The host and the rest                                                   *)
(***************************************************************************)
\* With one state, none is open when it opens, and nothing is left.
LEMMA OpenInterned ==
  ASSUME OneState, IInv, Interned, NEW v \in Vm, Open(v)
  PROVE  Interned'
<1>1. opened = {} BY DEF OneState, Open, IInv, TypeOK
<1>2. /\ live = {} /\ UNCHANGED <<objects, gc>> /\ opened' # {}
  BY <1>1 DEF Interned, Open, collector
<1>3. live' = {} /\ Strings' = {} BY <1>2 DEF live, Strings
<1>. QED BY <1>2, <1>3 DEF Interned, TableComplete, AllDistinct

LEMMA CloseInterned ==
  ASSUME NEW v \in Vm, Close(v)
  PROVE  Interned'
<1>1. live' = {} /\ Strings' = {} BY DEF Close, live, Strings
<1>. QED BY <1>1 DEF Interned, TableComplete, AllDistinct

\* What only begins, or begins to collect.
LEMMA BeginInterned ==
  ASSUME Interned, NEW v \in Vm, Starting(v), ~Open(v), ~Close(v)
  PROVE  Interned'
<1>1. CASE CollectNow(v)
  <2>1. UNCHANGED <<objects, table, opened>> /\ gc = "off" /\ gc' = "mark"
    BY <1>1 DEF CollectNow, Collect, Free, states
  <2>. QED BY <2>1, Untouched, InternedKept
<1>2. CASE ~CollectNow(v)
  <2>1. \E op, holds, wants : Start(op, v, holds, wants)
    BY <1>2 DEF Starting, BuildArray, NativeString, NativeSplit, Concat, ThrowError, Compile,
                RegisterNative, SetGlobalString, SetGlobalPlain, GetGlobal
  <2>2. UNCHANGED <<objects, table, opened, gc, marked>> BY <2>1 DEF Start, states, collector
  <2>. QED BY <2>2, Untouched, InternedKept
<1>. QED BY <1>1, <1>2

LEMMA MoveInterned ==
  ASSUME IInv, Interned, NEW v \in Vm, Moving(v)
  PROVE  Interned'
<1>1. UNCHANGED <<table, opened, gc, marked>>
  BY DEF Moving, Load, Discard, DefineGlobal, SetIndexOp, NativePush, CallFunction, ReturnOp, Reset,
         Step, states, collector
<1>2. SameObjects
  <2>1. CASE SetIndexOp(v)
    <3>1. PICK a, K : objects' = WithKids(objects, a, K) BY <2>1 DEF SetIndexOp
    <3>. QED BY <3>1, KidsKeepStrings DEF IInv
  <2>2. CASE NativePush(v)
    <3>1. PICK a, K : objects' = WithKids(objects, a, K) BY <2>2 DEF NativePush
    <3>. QED BY <3>1, KidsKeepStrings DEF IInv
  <2>3. CASE ~SetIndexOp(v) /\ ~NativePush(v)
    BY <2>3, Untouched DEF Moving, Load, Discard, DefineGlobal, CallFunction, ReturnOp, Reset
  <2>. QED BY <2>1, <2>2, <2>3
<1>. QED BY <1>1, <1>2, InternedKept

LEMMA EndInterned ==
  ASSUME IInv, Interned, Ending
  PROVE  Interned'
<1>1. UNCHANGED <<table, opened, gc, marked>>
  BY DEF Ending, EndArray, EndString, EndSplit, Join, EndConcat, EndThrow, RunVM, EndBind,
         EndGetGlobal, states, collector
<1>2. SameObjects
  <2>1. CASE EndArray
    <3>1. PICK a, K : objects' = WithKids(objects, a, K) BY <2>1 DEF EndArray
    <3>. QED BY <3>1, KidsKeepStrings DEF IInv
  <2>2. CASE ~EndArray
    BY <2>2, Untouched DEF Ending, EndString, EndSplit, Join, EndConcat, EndThrow, RunVM, EndBind,
                           EndGetGlobal
  <2>. QED BY <2>1, <2>2
<1>. QED BY <1>1, <1>2, InternedKept

\* Every step keeps every string in the table and one of each text.
LEMMA InternedStep ==
  ASSUME OneState, IInv, Interned, [Next]_vars
  PROVE  Interned'
<1>1. CASE Collecting BY <1>1, MarkInterned, PruneInterned, SweepInterned DEF Collecting
<1>2. CASE GcMaybe
  <2>1. UNCHANGED <<objects, table, opened>> /\ gc = "off" /\ gc' = "mark"
    BY <1>2 DEF GcMaybe, Collect, states
  <2>. QED BY <2>1, Untouched, InternedKept
<1>3. CASE FindString \/ Allocate BY <1>3, FindInterned, AllocateInterned
<1>4. CASE Ending BY <1>4, EndInterned
<1>5. ASSUME NEW v \in Vm, Moving(v) \/ Starting(v) PROVE Interned'
  BY <1>5, MoveInterned, BeginInterned, OpenInterned, CloseInterned
<1>6. CASE UNCHANGED vars
  <2>1. UNCHANGED <<objects, table, opened, gc, marked>> BY <1>6 DEF vars, states, collector
  <2>. QED BY <2>1, Untouched, InternedKept
<1>. QED BY <1>1, <1>2, <1>3, <1>4, <1>5, <1>6 DEF Next, Allocating

\* With one state, every string there is is in the table of interned strings and
\* no two say the same, whenever the collector runs (gc.c:102, object.c:118): so
\* comparing two strings by their addresses compares their texts.
THEOREM EqualStringsAreOne == ASSUME OneState, Rooted PROVE Spec => []StringsInterned
<1>1. Init => Interned
  <2>. SUFFICES ASSUME Init PROVE Interned OBVIOUS
  <2>1. live = {} /\ Strings = {} BY DEF Init, live, Strings
  <2>. QED BY <2>1 DEF Interned, TableComplete, AllDistinct
<1>2. Spec => []IInv BY Invariance
<1>3. IInv /\ Interned /\ [Next]_vars => Interned' BY InternedStep
<1>4. Interned => StringsInterned
  BY DEF Interned, TableComplete, AllDistinct, Strings, StringsInterned
<1>. QED BY <1>1, <1>2, <1>3, <1>4, PTL DEF Spec
=============================================================================
