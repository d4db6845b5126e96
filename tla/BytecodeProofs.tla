--------------------------- MODULE BytecodeProofs ---------------------------
(***************************************************************************)
(* One step of runVM, and of its hosts, on verified code: the frames stay  *)
(* on the stack, their locals and handlers too, if what is called as a     *)
(* function is one.  ValueProofs shows that it is.                         *)
(***************************************************************************)
EXTENDS Bytecode, TLAPS
LOCAL INSTANCE SequencesExt

(***************************************************************************)
(* Verified code                                                           *)
(***************************************************************************)
\* The function values whose code is verified, and the frames and handlers made of them.
Known == UNION {{Fn(t, k) : k \in 1 .. Len(Code[t].fns)} : t \in {u \in DOMAIN Code : Code[u].ok}}
FrameSet == [fn : Known \cup {Nil}, ip : Nat, slots : Nat]
HandlerSet == [catch : Nat, top : Nat, frames : 1 .. FramesMax]

Main(f) == f[3] = Len(Code[f[2]].fns)
Shape(f) == CHOOSE sh : Fits(FunctionOf(f), Main(f), sh)
Placed(f, ip) == ip \in DOMAIN Shape(f)
PlaceOf(f, ip) == Shape(f)[ip]
CodeAt(f, ip) == FunctionOf(f).code[ip]

LEMMA KnownSound ==
  ASSUME Sound, NEW f \in Known
  PROVE  /\ f[2] \in DOMAIN Code /\ Code[f[2]].ok
         /\ Fits(FunctionOf(f), Main(f), Shape(f))
<1>1. PICK t \in DOMAIN Code : Code[t].ok /\ \E k \in 1 .. Len(Code[t].fns) : f = <<"fn", t, k>>
  BY DEF Known, Fn
<1>2. PICK k \in 1 .. Len(Code[t].fns) : f = <<"fn", t, k>>
  BY <1>1
<1>3. \E sh : Fits(Code[t].fns[k], k = Len(Code[t].fns), sh)
  BY <1>1 DEF Sound, SoundScript
<1>4. f[2] = t /\ f[3] = k
  BY <1>2
<1>5. \E sh : Fits(FunctionOf(f), Main(f), sh)
  BY <1>3, <1>4 DEF FunctionOf, Main
<1> QED BY <1>1, <1>4, <1>5 DEF Shape

\* What may be called is a function of a script that compiles, and not its last.
LEMMA CallableIsDeclared ==
  ASSUME NEW f \in Callable
  PROVE  /\ f = Fn(f[2], f[3]) /\ f[2] \in DOMAIN Code /\ Code[f[2]].ok
         /\ f[3] \in 1 .. Len(Code[f[2]].fns) - 1
<1>1. PICK t \in {u \in DOMAIN Code : Code[u].ok} :
        f \in {Fn(t, k) : k \in 1 .. Len(Code[t].fns) - 1}
  BY DEF Callable, Declared
<1>2. PICK k \in 1 .. Len(Code[t].fns) - 1 : f = <<"fn", t, k>>
  BY <1>1 DEF Fn
<1>3. f[2] = t /\ f[3] = k
  BY <1>2
<1> QED BY <1>1, <1>2, <1>3 DEF Fn

\* Where a function begins.
LEMMA Entry ==
  ASSUME Sound, NEW f \in Known
  PROVE  /\ FunctionOf(f).arity \in Nat
         /\ Main(f) => FunctionOf(f).arity = 0
         /\ Placed(f, 1)
         /\ PlaceOf(f, 1) = [height |-> FunctionOf(f).arity + 1, open |-> <<>>]
<1>1. Fits(FunctionOf(f), Main(f), Shape(f))
  BY KnownSound
<1> QED BY <1>1 DEF Fits, Placed, PlaceOf

\* What is known of an instruction at a place.
LEMMA Instruction ==
  ASSUME Sound, NEW f \in Known, NEW ip, Placed(f, ip)
  PROVE  LET at == PlaceOf(f, ip)
             i == CodeAt(f, ip)
         IN /\ ip \in Nat /\ ip \in DOMAIN FunctionOf(f).code /\ i[1] \in Opcodes
            /\ at \in Places
            /\ TrysNested(Shape(f), at)
            /\ Suffices(i, at, Main(f))
            /\ \A t \in Targets(i, ip) : Placed(f, t) /\ PlaceOf(f, t) = NextPlace(i, at)
<1>1. Fits(FunctionOf(f), Main(f), Shape(f))
  BY KnownSound
<1> QED BY <1>1 DEF Fits, Placed, PlaceOf, CodeAt

\* The floor is above the function's slot and no lower than what any open try keeps.
LEMMA FloorHeight ==
  ASSUME Sound, NEW f \in Known, NEW ip, Placed(f, ip)
  PROVE  LET at == PlaceOf(f, ip)
         IN /\ at.height \in Nat /\ at.open \in Seq(Trys)
            /\ Floor(at) \in Nat /\ 1 <= Floor(at) /\ Floor(at) <= at.height
            /\ \A m \in 1 .. Len(at.open) :
                 /\ at.open[m] \in Trys
                 /\ 1 <= at.open[m].height /\ at.open[m].height <= Floor(at)
                 /\ \A l \in 1 .. m : at.open[l].height <= at.open[m].height
                 /\ Placed(f, at.open[m].catch)
                 /\ PlaceOf(f, at.open[m].catch) = Caught(at, m)
<1> DEFINE at == PlaceOf(f, ip)
<1>1. at \in Places /\ TrysNested(Shape(f), at)
  BY Instruction
<1> HIDE DEF at
<1>2. at.height \in Nat /\ at.open \in Seq(Trys)
  BY <1>1 DEF Places
<1>3. DOMAIN at.open = 1 .. Len(at.open) /\ Len(at.open) \in Nat
  BY <1>2
<1>4. ASSUME NEW m \in 1 .. Len(at.open)
      PROVE  /\ at.open[m] \in Trys /\ at.open[m].height \in Nat
             /\ 1 <= at.open[m].height
             /\ \A l \in 1 .. m : at.open[l].height <= at.open[m].height
             /\ Placed(f, at.open[m].catch)
             /\ PlaceOf(f, at.open[m].catch) = Caught(at, m)
  <2>1. at.open[m] \in Trys
    BY <1>2
  <2> QED BY <2>1, <1>1, <1>3 DEF TrysNested, Trys, Placed, PlaceOf
<1>5. at.open = <<>> <=> Len(at.open) = 0
  BY <1>2
<1>6. Floor(at) \in Nat /\ 1 <= Floor(at) /\ Floor(at) <= at.height
  BY <1>1, <1>2, <1>3, <1>4, <1>5 DEF Floor, TrysNested
<1>7. \A m \in 1 .. Len(at.open) : at.open[m].height <= Floor(at)
  BY <1>2, <1>3, <1>4, <1>5 DEF Floor
<1> QED BY <1>2, <1>4, <1>6, <1>7 DEF at

-----------------------------------------------------------------------------
(***************************************************************************)
(* The machine: stack st up to tp, frames fr up to dp, handlers hs.  From  *)
(* frame b on the frames are those of the run; what is below it are the    *)
(* frames that earlier scripts left.  The handlers of frame i are those    *)
(* from off[i] + 1 to off[i + 1], one for each of its open trys.           *)
(***************************************************************************)
PlaceIn(fr, i) == PlaceOf(fr[i].fn, fr[i].ip)

IsStack(st) == st = [a \in 0 .. StackMax - 1 |-> st[a]]

Typed(st, tp, fr, dp, hs) ==
  /\ IsStack(st)
  /\ tp \in 0 .. StackMax
  /\ fr \in [1 .. FramesMax -> FrameSet]
  /\ dp \in 0 .. FramesMax
  /\ hs \in Seq(HandlerSet) /\ Len(hs) <= TryMax

Stacked(st, tp, fr, dp) ==
  /\ \A i \in 1 .. dp : fr[i].slots < tp /\ st[fr[i].slots] = fr[i].fn
  /\ \A i, j \in 1 .. dp : i < j => fr[i].slots < fr[j].slots

Aligned(tp, fr, dp, b) ==
  /\ b \in 1 .. dp
  /\ \A i \in b .. dp :
       fr[i].fn \in Known /\ Placed(fr[i].fn, fr[i].ip) /\ (Main(fr[i].fn) <=> i = b)
  /\ \A i \in b .. dp - 1 :
       /\ fr[i + 1].slots = fr[i].slots + PlaceIn(fr, i).height - 1
       /\ Floor(PlaceIn(fr, i)) < PlaceIn(fr, i).height
  /\ tp = fr[dp].slots + PlaceIn(fr, dp).height

HandlerOf(fr, i, m) ==
  LET try == PlaceIn(fr, i).open[m]
  IN [catch |-> try.catch, top |-> fr[i].slots + try.height, frames |-> i]

Guarded(fr, dp, hs, b, off) ==
  /\ off \in [b .. dp + 1 -> Nat] /\ off[b] = 0 /\ off[dp + 1] = Len(hs)
  /\ \A i, j \in b .. dp + 1 : i <= j => off[i] <= off[j]
  /\ \A i \in b .. dp :
       /\ off[i + 1] = off[i] + Len(PlaceIn(fr, i).open)
       /\ \A m \in 1 .. Len(PlaceIn(fr, i).open) : hs[off[i] + m] = HandlerOf(fr, i, m)
  /\ \A j \in 1 .. Len(hs) :
       hs[j].frames \in b .. dp /\ off[hs[j].frames] < j /\ j <= off[hs[j].frames + 1]

Stands(st, tp, fr, dp, hs, b, off) ==
  /\ Typed(st, tp, fr, dp, hs) /\ Stacked(st, tp, fr, dp)
  /\ Aligned(tp, fr, dp, b) /\ Guarded(fr, dp, hs, b, off)

\* Frame dq becomes the innermost; below it nothing changes but where frame dq - 1 goes
\* on, and gs has the handlers of the frames below and those that fs says of frame dq.
Rebuilt(st, fr, dp, hs, b, off, su, tq, fs, dq, gs) ==
  /\ dq \in b .. dp + 1 /\ fs \in [1 .. FramesMax -> FrameSet] /\ dq <= FramesMax
  /\ \A i \in 1 .. dq - 1 :
       fs[i].fn = fr[i].fn /\ fs[i].slots = fr[i].slots /\ fr[i].slots < fs[dq].slots
  /\ \A i \in b .. dq - 1 :
       /\ Placed(fs[i].fn, fs[i].ip) /\ PlaceIn(fs, i).open = PlaceIn(fr, i).open
       /\ fs[i + 1].slots = fs[i].slots + PlaceIn(fs, i).height - 1
       /\ Floor(PlaceIn(fs, i)) < PlaceIn(fs, i).height
  /\ fs[dq].fn \in Known /\ Placed(fs[dq].fn, fs[dq].ip) /\ (Main(fs[dq].fn) <=> dq = b)
  /\ tq = fs[dq].slots + PlaceIn(fs, dq).height /\ tq <= StackMax
  /\ IsStack(su) /\ su[fs[dq].slots] = fs[dq].fn
  /\ \A a \in 0 .. fs[dq].slots - 1 : su[a] = st[a]
  /\ gs \in Seq(HandlerSet) /\ Len(gs) <= TryMax
  /\ Len(gs) = off[dq] + Len(PlaceIn(fs, dq).open)
  /\ \A j \in 1 .. off[dq] : gs[j] = hs[j]
  /\ \A m \in 1 .. Len(PlaceIn(fs, dq).open) : gs[off[dq] + m] = HandlerOf(fs, dq, m)

LEMMA RebuildStep ==
  ASSUME Sound,
         NEW st, NEW tp, NEW fr, NEW dp, NEW hs, NEW b, NEW off,
         Stands(st, tp, fr, dp, hs, b, off),
         NEW su, NEW tq, NEW fs, NEW dq, NEW gs,
         Rebuilt(st, fr, dp, hs, b, off, su, tq, fs, dq, gs)
  PROVE  \E on : Stands(su, tq, fs, dq, gs, b, on)
<1>0. /\ Typed(st, tp, fr, dp, hs) /\ Stacked(st, tp, fr, dp)
      /\ Aligned(tp, fr, dp, b) /\ Guarded(fr, dp, hs, b, off)
  BY DEF Stands
<1>1. /\ b \in Nat /\ dp \in Nat /\ 1 <= b /\ b <= dp /\ dp <= FramesMax
      /\ FramesMax \in Nat /\ StackMax \in Nat
      /\ dq \in Nat /\ b <= dq /\ dq <= dp + 1 /\ dq <= FramesMax
  BY <1>0, VMAssumption DEF Aligned, Typed, VMAssumption, Rebuilt
<1>2. /\ fs \in [1 .. FramesMax -> FrameSet]
      /\ \A i \in 1 .. FramesMax : fs[i].slots \in Nat /\ fr[i].slots \in Nat
  BY <1>0 DEF Rebuilt, FrameSet, Typed
<1>3. /\ PlaceIn(fs, dq).height \in Nat /\ 1 <= PlaceIn(fs, dq).height
      /\ PlaceIn(fs, dq).open \in Seq(Trys)
  BY FloorHeight DEF PlaceIn, Rebuilt
<1>4. Typed(su, tq, fs, dq, gs)
  <2>1. tq \in 0 .. StackMax
    BY <1>1, <1>2, <1>3 DEF Rebuilt
  <2> QED BY <1>1, <2>1 DEF Typed, Rebuilt
<1>5. Stacked(su, tq, fs, dq)
  <2>1. ASSUME NEW i \in 1 .. dq - 1
        PROVE  fs[i].slots < fs[dq].slots /\ su[fs[i].slots] = fs[i].fn
    <3>1. i \in 1 .. dp /\ i \in 1 .. FramesMax
      BY <1>1
    <3>2. fs[i].fn = fr[i].fn /\ fs[i].slots = fr[i].slots /\ fr[i].slots < fs[dq].slots
      BY DEF Rebuilt
    <3>3. st[fr[i].slots] = fr[i].fn
      BY <1>0, <3>1 DEF Stacked
    <3>4. fr[i].slots \in 0 .. fs[dq].slots - 1
      BY <1>1, <1>2, <3>1, <3>2
    <3>5. su[fr[i].slots] = st[fr[i].slots]
      BY <3>4 DEF Rebuilt
    <3> QED BY <3>2, <3>3, <3>5
  <2>2. fs[dq].slots < tq /\ su[fs[dq].slots] = fs[dq].fn
    BY <1>1, <1>2, <1>3 DEF Rebuilt
  <2>3. ASSUME NEW i \in 1 .. dq PROVE fs[i].slots < tq /\ su[fs[i].slots] = fs[i].fn
    <3>1. i = dq \/ i \in 1 .. dq - 1
      BY <1>1
    <3>2. tq \in Nat /\ fs[i].slots \in Nat /\ fs[dq].slots \in Nat
      BY <1>1, <1>2, <1>4 DEF Typed
    <3> QED BY <2>1, <2>2, <3>1, <3>2
  <2>4. ASSUME NEW i \in 1 .. dq, NEW j \in 1 .. dq, i < j PROVE fs[i].slots < fs[j].slots
    <3>1. i \in 1 .. dq - 1 /\ i \in 1 .. dp
      BY <1>1, <2>4
    <3>2. CASE j = dq
      BY <2>1, <3>1, <3>2
    <3>3. CASE j \in 1 .. dq - 1
      <4>1. fr[i].slots < fr[j].slots
        BY <1>0, <1>1, <2>4, <3>1, <3>3 DEF Stacked
      <4>2. fs[i].slots = fr[i].slots /\ fs[j].slots = fr[j].slots
        BY <3>1, <3>3 DEF Rebuilt
      <4> QED BY <4>1, <4>2
    <3>4. j = dq \/ j \in 1 .. dq - 1
      BY <1>1
    <3> QED BY <3>2, <3>3, <3>4
  <2> QED BY <2>3, <2>4 DEF Stacked
<1>6. Aligned(tq, fs, dq, b)
  <2>1. ASSUME NEW i \in b .. dq
        PROVE  fs[i].fn \in Known /\ Placed(fs[i].fn, fs[i].ip) /\ (Main(fs[i].fn) <=> i = b)
    <3>1. CASE i = dq
      BY <3>1 DEF Rebuilt
    <3>2. CASE i \in b .. dq - 1
      <4>1. i \in 1 .. dq - 1 /\ i \in b .. dp
        BY <1>1, <3>2
      <4>2. fs[i].fn = fr[i].fn /\ Placed(fs[i].fn, fs[i].ip)
        BY <3>2, <4>1 DEF Rebuilt
      <4> QED BY <1>0, <4>1, <4>2 DEF Aligned
    <3> QED BY <1>1, <3>1, <3>2
  <2>2. \A i \in b .. dq - 1 :
          /\ fs[i + 1].slots = fs[i].slots + PlaceIn(fs, i).height - 1
          /\ Floor(PlaceIn(fs, i)) < PlaceIn(fs, i).height
    BY DEF Rebuilt
  <2>3. b \in 1 .. dq /\ tq = fs[dq].slots + PlaceIn(fs, dq).height
    BY <1>1 DEF Rebuilt
  <2> QED BY <2>1, <2>2, <2>3 DEF Aligned
<1>7. PICK on : on = [i \in b .. dq + 1 |-> IF i = dq + 1 THEN Len(gs) ELSE off[i]]
  OBVIOUS
<1>8. /\ off \in [b .. dp + 1 -> Nat] /\ off[b] = 0
      /\ \A i, j \in b .. dp + 1 : i <= j => off[i] <= off[j]
  BY <1>0 DEF Guarded
<1>9. /\ Len(gs) \in Nat /\ Len(PlaceIn(fs, dq).open) \in Nat
      /\ Len(gs) = off[dq] + Len(PlaceIn(fs, dq).open)
  BY <1>3 DEF Rebuilt
<1>10. \A i \in b .. dq : off[i] \in Nat /\ off[i] <= off[dq] /\ off[i] <= Len(gs)
  <2>1. ASSUME NEW i \in b .. dq PROVE off[i] \in Nat /\ off[dq] \in Nat /\ off[i] <= off[dq]
    <3>1. i \in b .. dp + 1 /\ dq \in b .. dp + 1 /\ i <= dq
      BY <1>1
    <3> QED BY <1>8, <3>1
  <2> QED BY <1>9, <2>1
<1>11. on[dq + 1] = Len(gs) /\ \A i \in b .. dq : on[i] = off[i]
  BY <1>1, <1>7
<1>12. on \in [b .. dq + 1 -> Nat]
  <2>1. ASSUME NEW i \in b .. dq + 1 PROVE (IF i = dq + 1 THEN Len(gs) ELSE off[i]) \in Nat
    <3>1. i = dq + 1 \/ i \in b .. dq
      BY <1>1
    <3> QED BY <1>9, <1>10, <3>1
  <2> QED BY <1>7, <2>1
<1>13. Guarded(fs, dq, gs, b, on)
  <2>1. on[b] = 0
    BY <1>1, <1>8, <1>11
  <2>2. ASSUME NEW i \in b .. dq + 1, NEW j \in b .. dq + 1, i <= j PROVE on[i] <= on[j]
    <3>1. CASE j = dq + 1
      <4>1. i = dq + 1 \/ i \in b .. dq
        BY <1>1
      <4> QED BY <1>9, <1>10, <1>11, <3>1, <4>1
    <3>2. CASE j \in b .. dq
      <4>1. i \in b .. dq /\ i \in b .. dp + 1 /\ j \in b .. dp + 1
        BY <1>1, <2>2, <3>2
      <4> QED BY <1>8, <1>11, <2>2, <3>2, <4>1
    <3> QED BY <1>1, <3>1, <3>2
  <2>3. ASSUME NEW i \in b .. dq
        PROVE  /\ on[i + 1] = on[i] + Len(PlaceIn(fs, i).open)
               /\ \A m \in 1 .. Len(PlaceIn(fs, i).open) : gs[on[i] + m] = HandlerOf(fs, i, m)
    <3>1. CASE i = dq
      BY <1>1, <1>9, <1>11, <3>1 DEF Rebuilt
    <3>2. CASE i \in b .. dq - 1
      <4>1. i \in 1 .. dq - 1 /\ i \in b .. dp /\ i + 1 \in b .. dq
        BY <1>1, <3>2
      <4>2. PlaceIn(fs, i).open = PlaceIn(fr, i).open /\ fs[i].slots = fr[i].slots
        BY <3>2, <4>1 DEF Rebuilt
      <4>3. off[i + 1] = off[i] + Len(PlaceIn(fr, i).open)
        BY <1>0, <4>1 DEF Guarded
      <4>4. on[i + 1] = on[i] + Len(PlaceIn(fs, i).open)
        BY <1>11, <4>1, <4>2, <4>3
      <4>5. ASSUME NEW m \in 1 .. Len(PlaceIn(fs, i).open) PROVE gs[on[i] + m] = HandlerOf(fs, i, m)
        <5>1. hs[off[i] + m] = HandlerOf(fr, i, m)
          BY <1>0, <4>1, <4>2, <4>5 DEF Guarded
        <5>2. HandlerOf(fs, i, m) = HandlerOf(fr, i, m)
          BY <4>2 DEF HandlerOf
        <5>3. off[i] + m <= off[i + 1] /\ off[i + 1] <= off[dq]
              /\ off[i] \in Nat /\ off[dq] \in Nat /\ off[i + 1] \in Nat /\ m \in Nat /\ 1 <= m
          <6>1. m \in Nat /\ 1 <= m /\ m <= Len(PlaceIn(fr, i).open) /\ Len(PlaceIn(fr, i).open) \in Nat
            <7>1. fr[i].fn \in Known /\ Placed(fr[i].fn, fr[i].ip)
              BY <1>0, <4>1 DEF Aligned
            <7>2. PlaceIn(fr, i).open \in Seq(Trys)
              BY <7>1, FloorHeight DEF PlaceIn
            <7> QED BY <4>2, <4>5, <7>2
          <6>2. off[i] \in Nat /\ off[i + 1] <= off[dq] /\ off[dq] \in Nat
            BY <1>1, <1>10, <3>2, <4>1
          <6> QED BY <4>3, <6>1, <6>2
        <5>4. off[i] + m \in 1 .. off[dq]
          BY <4>5, <5>3
        <5>5. gs[off[i] + m] = hs[off[i] + m]
          BY <5>4 DEF Rebuilt
        <5> QED BY <1>11, <3>2, <5>1, <5>2, <5>5
      <4> QED BY <4>4, <4>5
    <3> QED BY <1>1, <3>1, <3>2
  <2>4. ASSUME NEW j \in 1 .. Len(gs)
        PROVE  gs[j].frames \in b .. dq /\ on[gs[j].frames] < j /\ j <= on[gs[j].frames + 1]
    <3>0. off[dq] \in Nat
      BY <1>1, <1>10
    <3>1. CASE j \in 1 .. off[dq]
      <4>1. gs[j] = hs[j]
        BY <3>1 DEF Rebuilt
      <4>2. off[dq] <= Len(hs)
        <5>1. dq \in b .. dp + 1 /\ dp + 1 \in b .. dp + 1
          BY <1>1
        <5>2. off[dp + 1] = Len(hs)
          BY <1>0 DEF Guarded
        <5> QED BY <1>8, <5>1, <5>2, <1>1
      <4>3. Len(hs) \in Nat
        BY <1>0 DEF Typed
      <4>4. j \in 1 .. Len(hs)
        BY <3>0, <3>1, <4>2, <4>3
      <4>5. hs[j].frames \in b .. dp /\ off[hs[j].frames] < j /\ j <= off[hs[j].frames + 1]
        BY <1>0, <4>4 DEF Guarded
      <4>6. hs[j].frames \in b .. dq - 1
        <5>1. SUFFICES ASSUME hs[j].frames >= dq PROVE FALSE
          BY <1>1, <4>5
        <5>2. off[dq] <= off[hs[j].frames]
          BY <1>1, <1>8, <4>5, <5>1
        <5>3. off[hs[j].frames] \in Nat
          BY <1>1, <1>8, <4>5
        <5> QED BY <3>0, <3>1, <4>5, <5>2, <5>3
      <4>7. hs[j].frames \in b .. dq /\ hs[j].frames + 1 \in b .. dq
        BY <1>1, <4>6
      <4> QED BY <1>11, <4>1, <4>5, <4>7
    <3>2. CASE j > off[dq]
      <4>1. PICK m \in Nat : m = j - off[dq]
        BY <3>0, <3>2
      <4>2. m \in 1 .. Len(PlaceIn(fs, dq).open) /\ off[dq] + m = j
        BY <1>9, <3>0, <3>2, <4>1
      <4>3. gs[j] = HandlerOf(fs, dq, m)
        BY <4>2 DEF Rebuilt
      <4>4. gs[j].frames = dq
        BY <4>3 DEF HandlerOf
      <4>5. on[dq] = off[dq] /\ on[dq + 1] = Len(gs)
        BY <1>1, <1>11
      <4> QED BY <1>1, <1>9, <3>0, <3>2, <4>4, <4>5
    <3> QED BY <1>9, <3>0, <3>1, <3>2
  <2> QED BY <1>11, <1>12, <2>1, <2>2, <2>3, <2>4 DEF Guarded
<1> QED BY <1>4, <1>5, <1>6, <1>13 DEF Stands

\* fs is fr up to frame dq, and has frame dq at ip.
Moved(fs, fr, dq, ip) ==
  /\ fs \in [1 .. FramesMax -> FrameSet]
  /\ \A i \in 1 .. dq :
       /\ fs[i].fn = fr[i].fn /\ fs[i].slots = fr[i].slots
       /\ fs[i].ip = IF i = dq THEN ip ELSE fr[i].ip

LEMMA MovedFrames ==
  ASSUME NEW fr \in [1 .. FramesMax -> FrameSet], NEW dq \in 1 .. FramesMax, NEW ip \in Nat
  PROVE  Moved([fr EXCEPT ![dq].ip = ip], fr, dq, ip)
<1> DEFINE fs == [fr EXCEPT ![dq].ip = ip]
<1>1. fr[dq] \in FrameSet /\ FramesMax \in Nat
  BY VMAssumption DEF VMAssumption
<1>2. fs = [i \in 1 .. FramesMax |-> IF i = dq THEN [fr[dq] EXCEPT !.ip = ip] ELSE fr[i]]
  OBVIOUS
<1>3. [fr[dq] EXCEPT !.ip = ip] = [fn |-> fr[dq].fn, ip |-> ip, slots |-> fr[dq].slots]
  BY <1>1 DEF FrameSet
<1>4. [fn |-> fr[dq].fn, ip |-> ip, slots |-> fr[dq].slots] \in FrameSet
  BY <1>1 DEF FrameSet
<1> HIDE DEF fs
<1>5. fs \in [1 .. FramesMax -> FrameSet]
  BY <1>2, <1>3, <1>4
<1>6. ASSUME NEW i \in 1 .. dq
      PROVE  /\ fs[i].fn = fr[i].fn /\ fs[i].slots = fr[i].slots
             /\ fs[i].ip = IF i = dq THEN ip ELSE fr[i].ip
  <2>1. i \in 1 .. FramesMax
    BY <1>1
  <2> QED BY <1>2, <1>3, <2>1
<1> QED BY <1>5, <1>6 DEF fs, Moved

\* Frame dq is or becomes the innermost and goes on at ip; the handlers that stay are
\* those of the frames below and one for each try that is open there.
Remaining(fr, hs, off, dq, ip, gs) ==
  LET open == PlaceOf(fr[dq].fn, ip).open
  IN /\ gs \in Seq(HandlerSet) /\ Len(gs) <= TryMax /\ Len(gs) = off[dq] + Len(open)
     /\ \A j \in 1 .. off[dq] : gs[j] = hs[j]
     /\ \A m \in 1 .. Len(open) :
          gs[off[dq] + m] =
            [catch |-> open[m].catch, top |-> fr[dq].slots + open[m].height, frames |-> dq]

LEMMA UnwindStep ==
  ASSUME Sound,
         NEW st, NEW tp, NEW fr, NEW dp, NEW hs, NEW b, NEW off,
         Stands(st, tp, fr, dp, hs, b, off),
         NEW dq \in b .. dp, NEW ip, Placed(fr[dq].fn, ip),
         NEW fs, Moved(fs, fr, dq, ip),
         NEW tq, tq = fr[dq].slots + PlaceOf(fr[dq].fn, ip).height, tq <= StackMax,
         NEW su, IsStack(su), \A a \in 0 .. fr[dq].slots : su[a] = st[a],
         NEW gs, Remaining(fr, hs, off, dq, ip, gs)
  PROVE  \E on : Stands(su, tq, fs, dq, gs, b, on)
<1>0. /\ Typed(st, tp, fr, dp, hs) /\ Stacked(st, tp, fr, dp)
      /\ Aligned(tp, fr, dp, b) /\ Guarded(fr, dp, hs, b, off)
  BY DEF Stands
<1>1. /\ b \in Nat /\ dp \in Nat /\ 1 <= b /\ b <= dp /\ dp <= FramesMax /\ FramesMax \in Nat
      /\ dq \in Nat /\ b <= dq /\ dq <= dp
  BY <1>0, VMAssumption DEF Aligned, Typed, VMAssumption
<1>2. /\ fs \in [1 .. FramesMax -> FrameSet]
      /\ \A i \in 1 .. dq : fs[i].fn = fr[i].fn /\ fs[i].slots = fr[i].slots
      /\ \A i \in 1 .. dq - 1 : fs[i].ip = fr[i].ip
      /\ fs[dq].ip = ip
  BY <1>1 DEF Moved
<1>3. fs[dq].fn = fr[dq].fn /\ fs[dq].slots = fr[dq].slots /\ PlaceIn(fs, dq) = PlaceOf(fr[dq].fn, ip)
  BY <1>1, <1>2 DEF PlaceIn
<1>4. \A i \in b .. dq - 1 : PlaceIn(fs, i) = PlaceIn(fr, i)
  BY <1>1, <1>2 DEF PlaceIn
<1>5. \A i \in 1 .. dq - 1 :
        fs[i].fn = fr[i].fn /\ fs[i].slots = fr[i].slots /\ fr[i].slots < fs[dq].slots
  BY <1>0, <1>1, <1>2 DEF Stacked
<1>6. ASSUME NEW i \in b .. dq - 1
      PROVE  /\ Placed(fs[i].fn, fs[i].ip) /\ PlaceIn(fs, i).open = PlaceIn(fr, i).open
             /\ fs[i + 1].slots = fs[i].slots + PlaceIn(fs, i).height - 1
             /\ Floor(PlaceIn(fs, i)) < PlaceIn(fs, i).height
  <2>1. i \in b .. dp - 1 /\ i \in b .. dp /\ i \in 1 .. dq /\ i \in 1 .. dq - 1 /\ i + 1 \in 1 .. dq
    BY <1>1
  <2> QED BY <1>0, <1>2, <1>4, <2>1 DEF Aligned
<1>7. fs[dq].fn \in Known /\ Placed(fs[dq].fn, fs[dq].ip) /\ (Main(fs[dq].fn) <=> dq = b)
  BY <1>0, <1>1, <1>2, <1>3 DEF Aligned
<1>8. su[fs[dq].slots] = fs[dq].fn /\ \A a \in 0 .. fs[dq].slots - 1 : su[a] = st[a]
  <2>1. fr[dq].slots \in Nat /\ st[fr[dq].slots] = fr[dq].fn
    BY <1>0, <1>1 DEF Stacked, Typed, FrameSet
  <2> QED BY <1>3, <2>1
<1>9. ASSUME NEW m \in 1 .. Len(PlaceIn(fs, dq).open)
      PROVE  gs[off[dq] + m] = HandlerOf(fs, dq, m)
  BY <1>3 DEF Remaining, HandlerOf
<1>10. /\ gs \in Seq(HandlerSet) /\ Len(gs) <= TryMax
       /\ Len(gs) = off[dq] + Len(PlaceIn(fs, dq).open)
       /\ \A j \in 1 .. off[dq] : gs[j] = hs[j]
  BY <1>3 DEF Remaining
<1>11. Rebuilt(st, fr, dp, hs, b, off, su, tq, fs, dq, gs)
  <2>1. dq \in b .. dp + 1 /\ dq <= FramesMax
    BY <1>1
  <2>2. tq = fs[dq].slots + PlaceIn(fs, dq).height
    BY <1>3
  <2> QED BY <1>2, <1>5, <1>6, <1>7, <1>8, <1>9, <1>10, <2>1, <2>2 DEF Rebuilt
<1> QED BY <1>11, RebuildStep

LEMMA FrontOf ==
  ASSUME NEW S, NEW s \in Seq(S), s # <<>>
  PROVE  LET t == SubSeq(s, 1, Len(s) - 1)
         IN /\ t \in Seq(S) /\ Len(s) \in Nat /\ Len(s) >= 1 /\ Len(t) = Len(s) - 1
            /\ \A m \in 1 .. Len(s) - 1 : t[m] = s[m]
<1>1. Len(s) \in Nat /\ Len(s) >= 1
  OBVIOUS
<1> DEFINE n == Len(s) - 1
           t == SubSeq(s, 1, n)
<1>2. n \in Nat /\ n <= Len(s)
  BY <1>1
<1>3. \A m \in 1 .. n : s[m] \in S
  BY <1>1
<1> HIDE DEF n
<1>4. Len(t) = n /\ \A m \in 1 .. n : t[m] = s[m]
  BY <1>1, <1>2
<1>5. t \in Seq(S)
  BY <1>1, <1>2, <1>3
<1> QED BY <1>1, <1>4, <1>5 DEF n

\* What stands, of the innermost frame.
LEMMA Innermost ==
  ASSUME Sound,
         NEW st, NEW tp, NEW fr, NEW dp, NEW hs, NEW b, NEW off,
         Stands(st, tp, fr, dp, hs, b, off)
  PROVE  /\ b \in Nat /\ dp \in Nat /\ 1 <= b /\ b <= dp /\ dp <= FramesMax
         /\ FramesMax \in Nat /\ StackMax \in Nat
         /\ fr \in [1 .. FramesMax -> FrameSet] /\ hs \in Seq(HandlerSet) /\ Len(hs) <= TryMax
         /\ fr[dp].fn \in Known /\ fr[dp].slots \in Nat /\ fr[dp].ip \in Nat
         /\ Placed(fr[dp].fn, fr[dp].ip) /\ (Main(fr[dp].fn) <=> dp = b)
         /\ tp = fr[dp].slots + PlaceIn(fr, dp).height /\ tp \in 0 .. StackMax
         /\ Len(hs) = off[dp] + Len(PlaceIn(fr, dp).open) /\ off[dp] \in Nat
         /\ \A m \in 1 .. Len(PlaceIn(fr, dp).open) : hs[off[dp] + m] = HandlerOf(fr, dp, m)
<1>0. /\ Typed(st, tp, fr, dp, hs) /\ Aligned(tp, fr, dp, b) /\ Guarded(fr, dp, hs, b, off)
  BY DEF Stands
<1>1. /\ b \in Nat /\ dp \in Nat /\ 1 <= b /\ b <= dp /\ dp <= FramesMax
      /\ FramesMax \in Nat /\ StackMax \in Nat
  BY <1>0, VMAssumption DEF Aligned, Typed, VMAssumption
<1>2. /\ fr \in [1 .. FramesMax -> FrameSet] /\ hs \in Seq(HandlerSet) /\ Len(hs) <= TryMax
      /\ tp \in 0 .. StackMax
  BY <1>0 DEF Typed
<1>3. /\ fr[dp].fn \in Known /\ Placed(fr[dp].fn, fr[dp].ip) /\ (Main(fr[dp].fn) <=> dp = b)
      /\ tp = fr[dp].slots + PlaceIn(fr, dp).height
  BY <1>0, <1>1 DEF Aligned
<1>4. fr[dp].slots \in Nat /\ fr[dp].ip \in Nat
  BY <1>1, <1>2 DEF FrameSet
<1>5. /\ Len(hs) = off[dp] + Len(PlaceIn(fr, dp).open) /\ off[dp] \in Nat
      /\ \A m \in 1 .. Len(PlaceIn(fr, dp).open) : hs[off[dp] + m] = HandlerOf(fr, dp, m)
  BY <1>0, <1>1 DEF Guarded
<1> QED BY <1>1, <1>2, <1>3, <1>4, <1>5

\* The innermost frame goes on with the same trys open; above its function it may
\* write what it likes.
LEMMA LocalStep ==
  ASSUME Sound,
         NEW st, NEW tp, NEW fr, NEW dp, NEW hs, NEW b, NEW off,
         Stands(st, tp, fr, dp, hs, b, off),
         NEW ip, Placed(fr[dp].fn, ip), PlaceOf(fr[dp].fn, ip).open = PlaceIn(fr, dp).open,
         NEW fs, Moved(fs, fr, dp, ip),
         NEW tq, tq = fr[dp].slots + PlaceOf(fr[dp].fn, ip).height, tq <= StackMax,
         NEW su, IsStack(su), \A a \in 0 .. fr[dp].slots : su[a] = st[a]
  PROVE  \E on : Stands(su, tq, fs, dp, hs, b, on)
<1>1. dp \in b .. dp
  BY Innermost
<1>2. Remaining(fr, hs, off, dp, ip, hs)
  BY Innermost DEF Remaining, HandlerOf
<1> QED BY <1>1, <1>2, UnwindStep

\* TRY: the frame is in one try more.
LEMMA OpenStep ==
  ASSUME Sound,
         NEW st, NEW tp, NEW fr, NEW dp, NEW hs, NEW b, NEW off,
         Stands(st, tp, fr, dp, hs, b, off), Len(hs) < TryMax,
         NEW catch \in Nat, NEW ip, Placed(fr[dp].fn, ip),
         PlaceOf(fr[dp].fn, ip).height = PlaceIn(fr, dp).height,
         PlaceOf(fr[dp].fn, ip).open =
           Append(PlaceIn(fr, dp).open, [catch |-> catch, height |-> PlaceIn(fr, dp).height]),
         NEW fs, Moved(fs, fr, dp, ip),
         NEW gs, gs = Append(hs, [catch |-> catch, top |-> tp, frames |-> dp])
  PROVE  \E on : Stands(st, tp, fs, dp, gs, b, on)
<1> DEFINE o == PlaceIn(fr, dp).open
           h == PlaceIn(fr, dp).height
           p == PlaceOf(fr[dp].fn, ip).open
           try == [catch |-> catch, height |-> h]
           handler == [catch |-> catch, top |-> tp, frames |-> dp]
<1>1. dp \in b .. dp /\ dp \in 1 .. FramesMax /\ tp \in Nat /\ tp <= StackMax /\ tp = fr[dp].slots + h
  BY Innermost
<1>2. o \in Seq(Trys) /\ h \in Nat
  BY Innermost, FloorHeight DEF PlaceIn
<1>3. /\ hs \in Seq(HandlerSet) /\ Len(hs) = off[dp] + Len(o) /\ off[dp] \in Nat
      /\ \A m \in 1 .. Len(o) : hs[off[dp] + m] = HandlerOf(fr, dp, m)
  BY Innermost
<1>4. try \in Trys /\ handler \in HandlerSet /\ try.catch = catch /\ try.height = h
  BY <1>1, <1>2 DEF Trys, HandlerSet
<1>5. p = Append(o, try)
  OBVIOUS
<1> HIDE DEF o, h, p, try, handler
<1>6. /\ Len(p) = Len(o) + 1 /\ Len(o) \in Nat /\ p[Len(o) + 1] = try
      /\ \A m \in 1 .. Len(o) : p[m] = o[m]
  BY <1>2, <1>4, <1>5
<1>7. /\ gs \in Seq(HandlerSet) /\ Len(gs) = Len(hs) + 1 /\ Len(hs) \in Nat
      /\ gs[Len(hs) + 1] = handler /\ \A j \in 1 .. Len(hs) : gs[j] = hs[j]
  BY <1>3, <1>4 DEF handler
<1>8. ASSUME NEW m \in 1 .. Len(p)
      PROVE  gs[off[dp] + m] = [catch |-> p[m].catch, top |-> fr[dp].slots + p[m].height, frames |-> dp]
  <2>1. CASE m \in 1 .. Len(o)
    <3>1. hs[off[dp] + m] = [catch |-> o[m].catch, top |-> fr[dp].slots + o[m].height, frames |-> dp]
      BY <1>3, <2>1 DEF HandlerOf, o
    <3>2. off[dp] + m \in 1 .. Len(hs)
      <4>1. PICK d \in Nat : d = off[dp]
        BY <1>3
      <4>2. PICK k \in Nat : k = Len(o)
        BY <1>6
      <4>3. m \in 1 .. k /\ Len(hs) = d + k
        BY <1>3, <2>1, <4>1, <4>2
      <4> QED BY <4>1, <4>3
    <3> QED BY <1>6, <1>7, <2>1, <3>1, <3>2
  <2>2. CASE m = Len(o) + 1
    <3>1. off[dp] + m = Len(hs) + 1
      BY <1>3, <1>6, <2>2
    <3>2. p[m].catch = catch /\ p[m].height = h
      BY <1>4, <1>6, <2>2
    <3> QED BY <1>1, <1>7, <3>1, <3>2 DEF handler
  <2>3. m \in 1 .. Len(o) \/ m = Len(o) + 1
    BY <1>6
  <2> QED BY <2>1, <2>2, <2>3
<1>9. Remaining(fr, hs, off, dp, ip, gs)
  <2>1. Len(gs) <= TryMax /\ Len(gs) = off[dp] + Len(p)
    BY <1>3, <1>6, <1>7, VMAssumption DEF VMAssumption
  <2>2. \A j \in 1 .. off[dp] : gs[j] = hs[j]
    BY <1>3, <1>6, <1>7
  <2> QED BY <1>7, <1>8, <2>1, <2>2 DEF Remaining, p
<1>10. tp = fr[dp].slots + PlaceOf(fr[dp].fn, ip).height
  BY <1>1 DEF h
<1>11. IsStack(st)
  BY DEF Stands, Typed
<1> QED BY <1>1, <1>9, <1>10, <1>11, UnwindStep

\* TRY_END: the frame is in one try less.
LEMMA CloseStep ==
  ASSUME Sound,
         NEW st, NEW tp, NEW fr, NEW dp, NEW hs, NEW b, NEW off,
         Stands(st, tp, fr, dp, hs, b, off), PlaceIn(fr, dp).open # <<>>,
         NEW ip, Placed(fr[dp].fn, ip),
         PlaceOf(fr[dp].fn, ip).height = PlaceIn(fr, dp).height,
         PlaceOf(fr[dp].fn, ip).open = SubSeq(PlaceIn(fr, dp).open, 1, Len(PlaceIn(fr, dp).open) - 1),
         NEW fs, Moved(fs, fr, dp, ip)
  PROVE  /\ hs # <<>>
         /\ \E on : Stands(st, tp, fs, dp, SubSeq(hs, 1, Len(hs) - 1), b, on)
<1> DEFINE o == PlaceIn(fr, dp).open
           p == PlaceOf(fr[dp].fn, ip).open
           gs == SubSeq(hs, 1, Len(hs) - 1)
<1>1. dp \in b .. dp /\ dp \in 1 .. FramesMax /\ tp \in Nat /\ tp <= StackMax
  BY Innermost
<1>2. o \in Seq(Trys) /\ o # <<>>
  BY Innermost, FloorHeight DEF PlaceIn
<1>3. /\ hs \in Seq(HandlerSet) /\ Len(hs) <= TryMax /\ Len(hs) = off[dp] + Len(o) /\ off[dp] \in Nat
      /\ \A m \in 1 .. Len(o) : hs[off[dp] + m] = HandlerOf(fr, dp, m)
  BY Innermost
<1>4. p = SubSeq(o, 1, Len(o) - 1)
  OBVIOUS
<1> HIDE DEF o, p
<1>5. /\ Len(p) = Len(o) - 1 /\ Len(o) \in Nat /\ Len(o) >= 1
      /\ \A m \in 1 .. Len(p) : p[m] = o[m]
  BY <1>2, <1>4, FrontOf
<1>6. Len(hs) >= 1 /\ Len(hs) \in Nat
  BY <1>3, <1>5
<1>7. /\ gs \in Seq(HandlerSet) /\ Len(gs) = Len(hs) - 1
      /\ \A j \in 1 .. Len(gs) : gs[j] = hs[j]
  <2>1. hs # <<>>
    BY <1>6
  <2> QED BY <1>3, <2>1, FrontOf
<1> HIDE DEF gs
<1>8. ASSUME NEW m \in 1 .. Len(p)
      PROVE  gs[off[dp] + m] = [catch |-> p[m].catch, top |-> fr[dp].slots + p[m].height, frames |-> dp]
  <2>1. m \in 1 .. Len(o) /\ off[dp] + m \in 1 .. Len(gs)
    BY <1>3, <1>5, <1>6, <1>7, SMTT(30)
  <2>2. hs[off[dp] + m] = [catch |-> o[m].catch, top |-> fr[dp].slots + o[m].height, frames |-> dp]
    BY <1>3, <2>1 DEF HandlerOf, o
  <2>3. gs[off[dp] + m] = hs[off[dp] + m] /\ p[m] = o[m]
    BY <1>5, <1>7, <2>1
  <2> QED BY <2>2, <2>3, Zenon
<1>9. Remaining(fr, hs, off, dp, ip, gs)
  <2>1. Len(gs) <= TryMax /\ Len(gs) = off[dp] + Len(p)
    <3>1. TryMax \in Nat
      BY VMAssumption DEF VMAssumption
    <3>2. Len(gs) = Len(hs) - 1 /\ Len(hs) <= TryMax /\ Len(hs) \in Nat
      BY <1>3, <1>6, <1>7
    <3>3. Len(hs) = off[dp] + Len(o) /\ Len(p) = Len(o) - 1 /\ Len(o) \in Nat /\ off[dp] \in Nat
      BY <1>3, <1>5
    <3>4. Len(gs) <= TryMax
      BY <3>1, <3>2
    <3> QED BY <3>2, <3>3, <3>4
  <2>2. ASSUME NEW j \in 1 .. off[dp] PROVE gs[j] = hs[j]
    <3>1. Len(gs) \in Nat /\ Len(p) \in Nat /\ off[dp] \in Nat
      BY <1>3, <1>5, <1>6, <1>7
    <3>2. j \in 1 .. Len(gs)
      BY <2>1, <3>1
    <3> QED BY <1>7, <3>2
  <2> QED BY <1>7, <1>8, <2>1, <2>2 DEF Remaining, p
<1>10. tp = fr[dp].slots + PlaceOf(fr[dp].fn, ip).height
  BY Innermost
<1>11. IsStack(st)
  BY DEF Stands, Typed
<1>12. \E on : Stands(st, tp, fs, dp, gs, b, on)
  BY <1>1, <1>9, <1>10, <1>11, UnwindStep
<1> QED BY <1>3, <1>6, <1>12 DEF gs

\* What the innermost handler of hs says: a frame between the base b and dp, the innermost
\* open try o[m] of that frame, and where the catch block of that try goes on.
Closing(tp, fr, dp, hs, b, off) ==
  LET h == hs[Len(hs)]
      o == PlaceIn(fr, h.frames).open
      m == Len(o)
  IN /\ h.frames \in b .. dp /\ h.catch \in Nat /\ h.top \in Nat /\ h.top < tp
     /\ o \in Seq(Trys) /\ o # <<>> /\ Len(hs) = off[h.frames] + m /\ off[h.frames] \in Nat
     /\ h.catch = o[m].catch /\ h.top = fr[h.frames].slots + o[m].height /\ 1 <= o[m].height
     /\ Placed(fr[h.frames].fn, h.catch)
     /\ PlaceOf(fr[h.frames].fn, h.catch) = [height |-> o[m].height + 1, open |-> SubSeq(o, 1, m - 1)]

\* What the innermost handler is: it belongs to a frame of this run, and keeps less than
\* all of the stack when an operand is above what the open trys of dp keep.
LEMMA LastHandler ==
  ASSUME Sound,
         NEW st, NEW tp, NEW fr, NEW dp, NEW hs, NEW b, NEW off,
         Stands(st, tp, fr, dp, hs, b, off), hs # <<>>,
         Floor(PlaceIn(fr, dp)) < PlaceIn(fr, dp).height
  PROVE  Closing(tp, fr, dp, hs, b, off)
<1>0. /\ Typed(st, tp, fr, dp, hs) /\ Stacked(st, tp, fr, dp)
      /\ Aligned(tp, fr, dp, b) /\ Guarded(fr, dp, hs, b, off)
  BY DEF Stands
<1>1. /\ b \in Nat /\ dp \in Nat /\ 1 <= b /\ b <= dp /\ dp <= FramesMax /\ FramesMax \in Nat
      /\ tp = fr[dp].slots + PlaceIn(fr, dp).height /\ tp \in Nat
      /\ fr \in [1 .. FramesMax -> FrameSet] /\ hs \in Seq(HandlerSet)
  BY Innermost
<1>2. PICK k \in Nat : k = Len(hs) /\ k >= 1
  BY <1>1
<1>3. PICK h \in HandlerSet : h = hs[k]
  BY <1>1, <1>2
<1>4. PICK dq \in b .. dp : dq = h.frames
  BY <1>0, <1>2, <1>3 DEF Guarded
<1>5. h.catch \in Nat /\ h.top \in Nat
  BY <1>3 DEF HandlerSet
<1>6. off[dq] < k /\ k <= off[dq + 1] /\ off[dp + 1] = k
  BY <1>0, <1>2, <1>3, <1>4 DEF Guarded
<1>7. off[dq + 1] <= off[dp + 1] /\ off[dq] \in Nat /\ off[dq + 1] \in Nat
  BY <1>0, <1>1 DEF Guarded
<1>8. off[dq + 1] = k
  BY <1>6, <1>7
<1>9. /\ fr[dq].fn \in Known /\ Placed(fr[dq].fn, fr[dq].ip)
      /\ k = off[dq] + Len(PlaceIn(fr, dq).open)
      /\ \A l \in 1 .. Len(PlaceIn(fr, dq).open) : hs[off[dq] + l] = HandlerOf(fr, dq, l)
  BY <1>0, <1>8 DEF Aligned, Guarded
<1> DEFINE at == PlaceIn(fr, dq)
           o == at.open
           m == Len(o)
<1>10. /\ at.height \in Nat /\ o \in Seq(Trys) /\ Floor(at) \in Nat /\ 1 <= Floor(at)
       /\ \A l \in 1 .. m :
            /\ o[l] \in Trys /\ 1 <= o[l].height /\ o[l].height <= Floor(at)
            /\ Placed(fr[dq].fn, o[l].catch) /\ PlaceOf(fr[dq].fn, o[l].catch) = Caught(at, l)
  BY <1>9, FloorHeight DEF PlaceIn
<1>11. m \in Nat
  BY <1>10
<1>12. m >= 1 /\ off[dq] + m = k
  BY <1>6, <1>7, <1>9, <1>11
<1>13. h = [catch |-> o[m].catch, top |-> fr[dq].slots + o[m].height, frames |-> dq]
  BY <1>3, <1>9, <1>11, <1>12 DEF HandlerOf
<1>14. /\ Placed(fr[dq].fn, h.catch) /\ PlaceOf(fr[dq].fn, h.catch) = Caught(at, m)
       /\ 1 <= o[m].height /\ o[m].height <= Floor(at) /\ o[m].height \in Nat
  BY <1>10, <1>11, <1>12, <1>13 DEF Trys
<1>15. h.top < tp
  <2> HIDE DEF at
  <2>1. fr[dq].slots \in Nat /\ h.top = fr[dq].slots + o[m].height
    BY <1>1, <1>13 DEF FrameSet
  <2>2. PICK x \in Nat : x = o[m].height /\ x <= Floor(at)
    BY <1>14
  <2>3. Floor(at) \in Nat /\ at.height \in Nat
    BY <1>10
  <2>4. CASE dq = dp
    <3>1. Floor(at) < at.height /\ tp = fr[dq].slots + at.height
      BY <1>1, <2>4 DEF at
    <3> QED BY <2>1, <2>2, <2>3, <3>1, SMTT(30)
  <2>5. CASE dq \in b .. dp - 1
    <3>1. fr[dq + 1].slots = fr[dq].slots + at.height - 1 /\ Floor(at) < at.height
      BY <1>0, <2>5 DEF Aligned, at
    <3>2. fr[dq + 1].slots < tp
      <4>1. dq + 1 \in 1 .. dp
        BY <1>1, <2>5
      <4> QED BY <1>0, <4>1 DEF Stacked
    <3>3. tp \in Nat
      BY <1>1
    <3> QED BY <2>1, <2>2, <2>3, <3>1, <3>2, <3>3, SMTT(30)
  <2> QED BY <1>1, <2>4, <2>5
<1>16. o # <<>>
  BY <1>12
<1>17. Caught(at, m) = [height |-> o[m].height + 1, open |-> SubSeq(o, 1, m - 1)]
  BY DEF Caught
<1> QED
  <2>1. hs[Len(hs)].frames = dq /\ hs[Len(hs)] = h /\ Len(hs) = k
    BY <1>2, <1>3, <1>4
  <2> HIDE DEF at
  <2>2. PlaceIn(fr, dq) = at
    BY DEF at
  <2>3. o = PlaceIn(fr, dq).open /\ m = Len(o)
    BY <2>2
  <2> HIDE DEF o, m
  <2>4. /\ h.frames = dq /\ dq \in b .. dp /\ h.catch \in Nat /\ h.top \in Nat /\ h.top < tp
        /\ h.catch = o[m].catch /\ h.top = fr[dq].slots + o[m].height /\ 1 <= o[m].height
    BY <1>13, <1>14, <1>15, <1>5 DEF HandlerSet
  <2>5. o \in Seq(Trys) /\ o # <<>> /\ Len(hs) = off[dq] + m /\ off[dq] \in Nat
    BY <1>7, <1>10, <1>12, <1>16, <2>1
  <2>6. /\ Placed(fr[dq].fn, h.catch)
        /\ PlaceOf(fr[dq].fn, h.catch) = [height |-> o[m].height + 1, open |-> SubSeq(o, 1, m - 1)]
    BY <1>14, <1>17
  <2> QED BY <2>1, <2>3, <2>4, <2>5, <2>6, Zenon DEF Closing

\* An error: the innermost handler puts back its frame and its stack, and is gone.
LEMMA CatchStep ==
  ASSUME Sound,
         NEW st, NEW tp, NEW fr, NEW dp, NEW hs, NEW b, NEW off,
         Stands(st, tp, fr, dp, hs, b, off), hs # <<>>,
         Floor(PlaceIn(fr, dp)) < PlaceIn(fr, dp).height,
         NEW h, h = hs[Len(hs)],
         NEW fs, Moved(fs, fr, h.frames, h.catch),
         NEW su, IsStack(su), \A a \in 0 .. h.top - 1 : su[a] = st[a]
  PROVE  \E on : Stands(su, h.top + 1, fs, h.frames, SubSeq(hs, 1, Len(hs) - 1), b, on)
<1>1. PICK dq : dq = h.frames
  OBVIOUS
<1>2. PICK o : o = PlaceIn(fr, dq).open
  OBVIOUS
<1>3. PICK m : m = Len(o)
  OBVIOUS
<1>4. /\ dq \in b .. dp /\ h.catch \in Nat /\ h.top \in Nat /\ h.top < tp
      /\ o \in Seq(Trys) /\ o # <<>> /\ Len(hs) = off[dq] + m /\ off[dq] \in Nat
      /\ h.catch = o[m].catch /\ h.top = fr[dq].slots + o[m].height /\ 1 <= o[m].height
      /\ Placed(fr[dq].fn, h.catch)
      /\ PlaceOf(fr[dq].fn, h.catch) = [height |-> o[m].height + 1, open |-> SubSeq(o, 1, m - 1)]
  <2>1. Closing(tp, fr, dp, hs, b, off)
    BY LastHandler
  <2> QED BY <1>1, <1>2, <1>3, <2>1, Zenon DEF Closing
<1>5. /\ hs \in Seq(HandlerSet) /\ Len(hs) <= TryMax /\ tp \in 0 .. StackMax /\ StackMax \in Nat
      /\ b \in Nat /\ dp \in Nat /\ 1 <= b /\ dp <= FramesMax /\ FramesMax \in Nat
      /\ fr \in [1 .. FramesMax -> FrameSet]
  BY Innermost
<1>6. PICK p : p = SubSeq(o, 1, m - 1)
  OBVIOUS
<1>7. PICK gs : gs = SubSeq(hs, 1, Len(hs) - 1)
  OBVIOUS
<1>a. /\ dq \in Nat /\ Len(hs) = off[dq] + m /\ off[dq] \in Nat /\ h.top \in Nat /\ h.top < tp
      /\ h.top = fr[dq].slots + o[m].height /\ 1 <= o[m].height
  BY <1>4, <1>5
<1>8. /\ Len(p) = m - 1 /\ m \in Nat /\ m >= 1 /\ \A l \in 1 .. m - 1 : p[l] = o[l]
  BY <1>3, <1>4, <1>6, FrontOf
<1>9. /\ gs \in Seq(HandlerSet) /\ Len(hs) \in Nat /\ Len(gs) = Len(hs) - 1
      /\ \A j \in 1 .. Len(hs) - 1 : gs[j] = hs[j]
  BY <1>5, <1>7, FrontOf
<1>10. \A l \in 1 .. m : hs[off[dq] + l] = [catch |-> o[l].catch, top |-> fr[dq].slots + o[l].height, frames |-> dq]
  BY <1>2, <1>3, <1>4 DEF Stands, Guarded, HandlerOf
<1>11. PlaceOf(fr[dq].fn, h.catch).open = p /\ PlaceOf(fr[dq].fn, h.catch).height = o[m].height + 1
  BY <1>4, <1>6
<1>12. Remaining(fr, hs, off, dq, h.catch, gs)
  <2>1. Len(gs) <= TryMax /\ Len(gs) = off[dq] + Len(p)
    <3>1. Len(hs) <= TryMax /\ TryMax \in Nat
      BY <1>5, VMAssumption DEF VMAssumption
    <3> QED BY <1>a, <1>8, <1>9, <3>1
  <2>2. ASSUME NEW j \in 1 .. off[dq] PROVE gs[j] = hs[j]
    <3>1. j \in 1 .. Len(hs) - 1
      BY <1>a, <1>8
    <3> QED BY <1>9, <3>1
  <2>3. ASSUME NEW l \in 1 .. Len(p)
        PROVE  gs[off[dq] + l] = [catch |-> p[l].catch, top |-> fr[dq].slots + p[l].height, frames |-> dq]
    <3>1. l \in 1 .. m - 1 /\ l \in 1 .. m /\ off[dq] + l \in 1 .. Len(hs) - 1
      BY <1>a, <1>8
    <3> QED BY <1>8, <1>9, <1>10, <3>1
  <2> QED BY <1>9, <1>11, <2>1, <2>2, <2>3 DEF Remaining
<1>13. fr[dq].slots \in Nat /\ o[m].height \in Nat
  <2>1. dq \in 1 .. FramesMax /\ m \in 1 .. Len(o) /\ o \in Seq(Trys)
    BY <1>3, <1>4, <1>5, <1>8
  <2>2. o[m] \in Trys
    BY <2>1
  <2>3. fr[dq] \in FrameSet
    BY <1>5, <2>1
  <2> QED BY <2>2, <2>3 DEF FrameSet, Trys
<1>14. \A a \in 0 .. fr[dq].slots : su[a] = st[a]
  <2>1. PICK x \in Nat : x = fr[dq].slots
    BY <1>13
  <2>2. PICK y \in Nat : y = o[m].height
    BY <1>13
  <2>3. h.top = x + y /\ 1 <= y
    BY <1>a, <2>1, <2>2
  <2>4. 0 .. x \subseteq 0 .. h.top - 1
    BY <2>3
  <2> QED BY <2>1, <2>4
<1>15. h.top + 1 = fr[dq].slots + PlaceOf(fr[dq].fn, h.catch).height /\ h.top + 1 <= StackMax
  <2>1. tp <= StackMax /\ tp \in Nat /\ StackMax \in Nat
    BY <1>5
  <2>2. h.top + 1 <= StackMax
    BY <1>a, <2>1
  <2>3. PICK x \in Nat : x = o[m].height
    BY <1>13
  <2>4. h.top = fr[dq].slots + x /\ PlaceOf(fr[dq].fn, h.catch).height = x + 1
    BY <1>a, <1>11, <2>3
  <2> QED BY <1>13, <2>2, <2>3, <2>4
<1>16. Moved(fs, fr, dq, h.catch)
  BY <1>1
<1>17. \E on : Stands(su, h.top + 1, fs, dq, gs, b, on)
  BY <1>4, <1>12, <1>14, <1>15, <1>16, UnwindStep
<1> QED BY <1>1, <1>7, <1>17

\* RETURN: the caller goes on, with the result in the slot of the function.
LEMMA ReturnStep ==
  ASSUME Sound,
         NEW st, NEW tp, NEW fr, NEW dp, NEW hs, NEW b, NEW off,
         Stands(st, tp, fr, dp, hs, b, off), ~Main(fr[dp].fn), PlaceIn(fr, dp).open = <<>>,
         NEW ip, NEW fs, Moved(fs, fr, dp, ip),
         NEW su, IsStack(su), \A a \in 0 .. fr[dp].slots - 1 : su[a] = st[a]
  PROVE  /\ dp > b
         /\ \E on : Stands(su, fr[dp].slots + 1, fs, dp - 1, hs, b, on)
<1>0. Stacked(st, tp, fr, dp) /\ Aligned(tp, fr, dp, b) /\ Guarded(fr, dp, hs, b, off)
  BY DEF Stands
<1>1. /\ b \in Nat /\ dp \in Nat /\ 1 <= b /\ dp <= FramesMax /\ FramesMax \in Nat /\ b < dp
      /\ tp \in Nat /\ tp <= StackMax /\ StackMax \in Nat /\ fr[dp].slots \in Nat
      /\ fr \in [1 .. FramesMax -> FrameSet] /\ hs \in Seq(HandlerSet) /\ Len(hs) <= TryMax
  BY Innermost
<1>2. PICK dq \in b .. dp - 1 : dq = dp - 1
  BY <1>1
<1>3. dq \in b .. dp /\ dq \in Nat /\ dq + 1 = dp /\ dq \in 1 .. dp /\ dq \in 1 .. FramesMax
  BY <1>1, <1>2
<1>4. /\ fr[dq].fn \in Known /\ Placed(fr[dq].fn, fr[dq].ip) /\ fr[dq].slots \in Nat
      /\ fr[dp].slots = fr[dq].slots + PlaceIn(fr, dq).height - 1
  BY <1>0, <1>1, <1>2, <1>3 DEF Aligned, FrameSet
<1>5. PlaceIn(fr, dq).height \in Nat
  BY <1>4, FloorHeight DEF PlaceIn
<1>6. Moved(fs, fr, dq, fr[dq].ip)
  BY <1>1, <1>3 DEF Moved
<1>7. fr[dq].slots < fr[dp].slots /\ fr[dp].slots < tp
  BY <1>0, <1>1, <1>3 DEF Stacked
<1>8. \A a \in 0 .. fr[dq].slots : su[a] = st[a]
  BY <1>1, <1>4, <1>7
<1>9. /\ fr[dp].slots + 1 = fr[dq].slots + PlaceOf(fr[dq].fn, fr[dq].ip).height
      /\ fr[dp].slots + 1 <= StackMax
  <2>1. PICK H \in Nat : H = PlaceIn(fr, dq).height
    BY <1>5
  <2>2. PlaceOf(fr[dq].fn, fr[dq].ip).height = H
    BY <2>1 DEF PlaceIn
  <2>3. fr[dp].slots = fr[dq].slots + H - 1
    BY <1>4, <2>1
  <2>4. fr[dp].slots + 1 <= StackMax
    <3>1. PICK x \in Nat : x = fr[dp].slots
      BY <1>1
    <3>2. x < tp /\ tp \in Nat /\ tp <= StackMax /\ StackMax \in Nat
      BY <1>1, <1>7, <3>1
    <3>3. x + 1 <= StackMax
      BY <3>2
    <3> QED BY <3>1, <3>3
  <2>5. fr[dp].slots + 1 = fr[dq].slots + H
    <3>1. PICK x \in Nat : x = fr[dq].slots
      BY <1>4
    <3>2. PICK y \in Nat : y = fr[dp].slots
      BY <1>1
    <3>3. y = x + H - 1
      BY <2>3, <3>1, <3>2
    <3>4. y + 1 = x + H
      BY <3>3
    <3> QED BY <3>1, <3>2, <3>4
  <2> QED BY <2>2, <2>4, <2>5
<1>10. Remaining(fr, hs, off, dq, fr[dq].ip, hs)
  <2>1. Len(PlaceIn(fr, dp).open) = 0
    OBVIOUS
  <2>2. off[dp] = off[dq] + Len(PlaceIn(fr, dq).open) /\ Len(hs) = off[dp]
    <3>1. Len(hs) = off[dp] + Len(PlaceIn(fr, dp).open) /\ off[dp] \in Nat
      BY Innermost
    <3>2. off[dq + 1] = off[dq] + Len(PlaceIn(fr, dq).open)
      BY <1>0, <1>3 DEF Guarded
    <3> QED BY <1>3, <2>1, <3>1, <3>2
  <2>3. \A m \in 1 .. Len(PlaceIn(fr, dq).open) : hs[off[dq] + m] = HandlerOf(fr, dq, m)
    BY <1>0, <1>3 DEF Guarded
  <2> QED BY <1>1, <2>2, <2>3 DEF Remaining, HandlerOf, PlaceIn
<1>11. \E on : Stands(su, fr[dp].slots + 1, fs, dq, hs, b, on)
  BY <1>3, <1>4, <1>6, <1>8, <1>9, <1>10, UnwindStep
<1> QED BY <1>1, <1>2, <1>11

\* CALL of a function: its frame starts at its slot, below the n arguments.
LEMMA CallStep ==
  ASSUME Sound,
         NEW st, NEW tp, NEW fr, NEW dp, NEW hs, NEW b, NEW off,
         Stands(st, tp, fr, dp, hs, b, off), dp < FramesMax,
         NEW n \in Nat, n + 1 <= PlaceIn(fr, dp).height - Floor(PlaceIn(fr, dp)),
         NEW f \in Known, ~Main(f), FunctionOf(f).arity = n, st[tp - 1 - n] = f,
         NEW ip, Placed(fr[dp].fn, ip),
         PlaceOf(fr[dp].fn, ip) = [height |-> PlaceIn(fr, dp).height - n, open |-> PlaceIn(fr, dp).open],
         NEW fs, Moved(fs, fr, dp, ip), fs[dp + 1] = [fn |-> f, ip |-> 1, slots |-> tp - n - 1]
  PROVE  \E on : Stands(st, tp, fs, dp + 1, hs, b, on)
<1>0. Stacked(st, tp, fr, dp) /\ Aligned(tp, fr, dp, b) /\ Guarded(fr, dp, hs, b, off) /\ IsStack(st)
  BY DEF Stands, Typed
<1>1. /\ b \in Nat /\ dp \in Nat /\ 1 <= b /\ b <= dp /\ FramesMax \in Nat
      /\ fr \in [1 .. FramesMax -> FrameSet]
      /\ tp \in Nat /\ tp <= StackMax /\ fr[dp].slots \in Nat /\ fr[dp].fn \in Known
      /\ tp = fr[dp].slots + PlaceIn(fr, dp).height
      /\ hs \in Seq(HandlerSet) /\ Len(hs) <= TryMax
  BY Innermost
<1>2. PICK H : H = PlaceIn(fr, dp).height
  OBVIOUS
<1>3. PICK low : low = Floor(PlaceIn(fr, dp))
  OBVIOUS
<1>4. H \in Nat /\ low \in Nat /\ 1 <= low /\ n + 1 <= H - low /\ tp = fr[dp].slots + H
  <2>1. PlaceIn(fr, dp).height \in Nat /\ Floor(PlaceIn(fr, dp)) \in Nat /\ 1 <= Floor(PlaceIn(fr, dp))
    <3>1. Placed(fr[dp].fn, fr[dp].ip)
      BY Innermost
    <3> QED BY <1>1, <3>1, FloorHeight DEF PlaceIn
  <2> QED BY <1>1, <1>2, <1>3, <2>1, Zenon
<1>5. /\ fs \in [1 .. FramesMax -> FrameSet]
      /\ \A i \in 1 .. dp : fs[i].fn = fr[i].fn /\ fs[i].slots = fr[i].slots
      /\ \A i \in 1 .. dp - 1 : fs[i].ip = fr[i].ip
      /\ fs[dp].ip = ip
  BY <1>1, SMTT(30) DEF Moved
<1>6. fs[dp + 1].fn = f /\ fs[dp + 1].ip = 1 /\ fs[dp + 1].slots = tp - n - 1
  OBVIOUS
<1>7. PlaceIn(fs, dp).height = H - n /\ PlaceIn(fs, dp).open = PlaceIn(fr, dp).open
  BY <1>1, <1>2, <1>5, SMTT(30) DEF PlaceIn
<1>8. Floor(PlaceIn(fs, dp)) = low
  BY <1>3, <1>7 DEF Floor
<1>9. ASSUME NEW i \in b .. dp - 1 PROVE PlaceIn(fs, i) = PlaceIn(fr, i)
  <2>1. i \in 1 .. dp /\ i \in 1 .. dp - 1
    BY <1>1
  <2> QED BY <1>5, <2>1 DEF PlaceIn
<1>10. Placed(f, 1) /\ PlaceIn(fs, dp + 1).height = n + 1 /\ PlaceIn(fs, dp + 1).open = <<>>
  BY <1>6, Entry DEF PlaceIn
<1>11. ASSUME NEW i \in 1 .. dp
       PROVE  fs[i].fn = fr[i].fn /\ fs[i].slots = fr[i].slots /\ fr[i].slots < fs[dp + 1].slots
  <2>1. fr[dp].slots < tp - n - 1
    BY <1>1, <1>4, SMTT(30)
  <2>2. fr[i].slots \in Nat
    <3>1. i \in 1 .. FramesMax
      BY <1>1
    <3> QED BY <1>1, <3>1 DEF FrameSet
  <2>3. fr[i].slots <= fr[dp].slots
    BY <1>0, <1>1, <2>2, SMTT(30) DEF Stacked
  <2> QED BY <1>1, <1>5, <1>6, <2>1, <2>2, <2>3, SMTT(30)
<1>12. ASSUME NEW i \in b .. dp
       PROVE  /\ Placed(fs[i].fn, fs[i].ip) /\ PlaceIn(fs, i).open = PlaceIn(fr, i).open
              /\ fs[i + 1].slots = fs[i].slots + PlaceIn(fs, i).height - 1
              /\ Floor(PlaceIn(fs, i)) < PlaceIn(fs, i).height
  <2>1. CASE i = dp
    <3>1. Placed(fs[dp].fn, fs[dp].ip) /\ fs[dp].slots = fr[dp].slots
      BY <1>1, <1>5
    <3>2. fs[dp + 1].slots = fs[dp].slots + PlaceIn(fs, dp).height - 1
      <4>1. PICK s \in Nat : s = fr[dp].slots
        BY <1>1
      <4>2. PICK h \in Nat : h = H
        BY <1>4
      <4>3. tp = s + h
        BY <1>4, <4>1, <4>2
      <4>4. tp - n - 1 = s + (h - n) - 1
        BY <4>3
      <4> QED BY <1>6, <1>7, <3>1, <4>1, <4>2, <4>4
    <3>3. Floor(PlaceIn(fs, dp)) < PlaceIn(fs, dp).height
      BY <1>4, <1>7, <1>8
    <3> QED BY <1>7, <2>1, <3>1, <3>2, <3>3
  <2>2. CASE i \in b .. dp - 1
    <3>1. i \in b .. dp /\ i \in 1 .. dp - 1 /\ i \in 1 .. dp /\ i + 1 \in 1 .. dp
      <4>1. b \in 1 .. dp /\ dp \in Nat
        BY <1>1
      <4> QED BY <2>2, <4>1
    <3> QED BY <1>0, <1>5, <1>9, <2>2, <3>1 DEF Aligned
  <2> QED BY <1>1, <2>1, <2>2
<1>13. Rebuilt(st, fr, dp, hs, b, off, st, tp, fs, dp + 1, hs)
  <2>1. /\ dp + 1 \in b .. dp + 1 /\ dp + 1 <= FramesMax /\ (dp + 1) - 1 = dp /\ dp + 1 # b
    BY <1>1
  <2>2. /\ fs[dp + 1].fn \in Known /\ Placed(fs[dp + 1].fn, fs[dp + 1].ip)
        /\ (Main(fs[dp + 1].fn) <=> dp + 1 = b)
    BY <1>6, <1>10, <2>1
  <2>3. tp = fs[dp + 1].slots + PlaceIn(fs, dp + 1).height
    BY <1>1, <1>4, <1>6, <1>10
  <2>4. st[fs[dp + 1].slots] = fs[dp + 1].fn
    <3>1. tp - n - 1 = tp - 1 - n
      BY <1>1
    <3> QED BY <1>6, <3>1
  <2>5. Len(PlaceIn(fs, dp + 1).open) = 0
    BY <1>10
  <2>6. Len(hs) = off[dp + 1] /\ Len(hs) \in Nat
    BY <1>0, <1>1 DEF Guarded
  <2>7. Len(hs) = off[dp + 1] + Len(PlaceIn(fs, dp + 1).open)
    BY <2>5, <2>6
  <2>8. \A m \in 1 .. Len(PlaceIn(fs, dp + 1).open) : FALSE
    BY <2>5
  <2> QED BY <1>0, <1>1, <1>5, <1>11, <1>12, <2>1, <2>2, <2>3, <2>4, <2>7, <2>8 DEF Rebuilt
<1> QED BY <1>13, RebuildStep

-----------------------------------------------------------------------------
(***************************************************************************)
(* One instruction                                                         *)
(***************************************************************************)
Base(b, off) == Stands(stack, top, frames, depth, handlers, b, off)
PlaceNow == PlaceIn(frames, depth)

\* What runVM can take for granted when it has read an instruction.
LEMMA Granted ==
  ASSUME Sound, NEW b, NEW off, Base(b, off)
  PROVE  /\ ins[1] \in Opcodes /\ Suffices(ins, PlaceNow, depth = b)
         /\ PlaceNow.height \in Nat /\ PlaceNow.open \in Seq(Trys)
         /\ Floor(PlaceNow) \in Nat /\ 1 <= Floor(PlaceNow) /\ Floor(PlaceNow) <= PlaceNow.height
         /\ \A t \in Targets(ins, frame.ip) :
              t \in Nat /\ Placed(frame.fn, t) /\ PlaceOf(frame.fn, t) = NextPlace(ins, PlaceNow)
         /\ frame.slots \in Nat /\ frame.ip \in Nat /\ top = frame.slots + PlaceNow.height
         /\ top \in 0 .. StackMax /\ StackMax \in Nat
         /\ depth \in 1 .. FramesMax /\ FramesMax \in Nat /\ b \in 1 .. depth
         /\ frames \in [1 .. FramesMax -> FrameSet]
         /\ frame.ip \in DOMAIN FunctionOf(frame.fn).code
<1>1. /\ b \in Nat /\ depth \in Nat /\ 1 <= b /\ b <= depth /\ depth <= FramesMax
      /\ FramesMax \in Nat /\ StackMax \in Nat /\ frames \in [1 .. FramesMax -> FrameSet]
      /\ frame.fn \in Known /\ frame.slots \in Nat /\ frame.ip \in Nat
      /\ Placed(frame.fn, frame.ip) /\ (Main(frame.fn) <=> depth = b)
      /\ top = frame.slots + PlaceNow.height /\ top \in 0 .. StackMax
  BY Innermost DEF Base, PlaceNow, frame
<1>2. PlaceNow = PlaceOf(frame.fn, frame.ip) /\ ins = CodeAt(frame.fn, frame.ip)
  BY DEF PlaceNow, PlaceIn, frame, ins, CodeAt
<1>3. /\ frame.ip \in DOMAIN FunctionOf(frame.fn).code /\ ins[1] \in Opcodes
      /\ Suffices(ins, PlaceNow, Main(frame.fn))
      /\ \A t \in Targets(ins, frame.ip) :
           Placed(frame.fn, t) /\ PlaceOf(frame.fn, t) = NextPlace(ins, PlaceNow)
  BY <1>1, <1>2, Instruction
<1>4. /\ Suffices(ins, PlaceNow, depth = b)
      /\ \A t \in Targets(ins, frame.ip) : t \in Nat
  <2>1. Suffices(ins, PlaceNow, depth = b)
    BY <1>1, <1>3 DEF Suffices
  <2>2. ASSUME NEW t \in Targets(ins, frame.ip) PROVE t \in Nat
    BY <1>1, <1>3, Instruction
  <2> QED BY <2>1, <2>2
<1>5. /\ PlaceNow.height \in Nat /\ PlaceNow.open \in Seq(Trys)
      /\ Floor(PlaceNow) \in Nat /\ 1 <= Floor(PlaceNow) /\ Floor(PlaceNow) <= PlaceNow.height
  BY <1>1, <1>2, FloorHeight
<1> QED BY <1>1, <1>3, <1>4, <1>5

\* What the groups of instructions take and leave, and where they go on.
LEMMA Effects ==
  ASSUME NEW i, NEW ip
  PROVE  /\ i[1] \in Pushing => Takes(i) = 0 /\ Leaves(i) = 1
         /\ i[1] \in Dropping => Takes(i) = 1 /\ Leaves(i) = 0
         /\ i[1] \in Combining => Takes(i) = 2 /\ Leaves(i) = 1
         /\ i[1] \in Replacing \cup Peeking => Takes(i) = 1 /\ Leaves(i) = 1
         /\ i[1] \in Moving => Takes(i) = 0 /\ Leaves(i) = 0
         /\ i[1] = "BUILD_ARRAY" => Takes(i) = i[2] /\ Leaves(i) = 1
         /\ i[1] = "CALL" => Takes(i) = i[2] + 1 /\ Leaves(i) = 1
         /\ i[1] = "SET_INDEX" => Takes(i) = 3 /\ Leaves(i) = 0
         /\ i[1] = "RETURN" => Takes(i) = 1 /\ Leaves(i) = 0
         /\ i[1] \notin {"JUMP", "LOOP", "RETURN", "HALT"} => ip + 1 \in Targets(i, ip)
         /\ i[1] \in {"JUMP", "LOOP", "JUMP_IF_FALSE"} => i[2] \in Targets(i, ip)
<1> USE DEF Takes, Leaves, Pushing, Dropping, Combining, Replacing, Peeking, Collecting, Moving,
            Arithmetic, Division, Comparison
<1>1. i[1] \in Pushing => Takes(i) = 0 /\ Leaves(i) = 1
  OBVIOUS
<1>2. i[1] \in Dropping => Takes(i) = 1 /\ Leaves(i) = 0
  OBVIOUS
<1>3. i[1] \in Combining => Takes(i) = 2 /\ Leaves(i) = 1
  OBVIOUS
<1>4. i[1] \in Replacing \cup Peeking => Takes(i) = 1 /\ Leaves(i) = 1
  OBVIOUS
<1>5. i[1] \in Moving => Takes(i) = 0 /\ Leaves(i) = 0
  OBVIOUS
<1>6. i[1] = "BUILD_ARRAY" => Takes(i) = i[2] /\ Leaves(i) = 1
  OBVIOUS
<1>7. i[1] = "CALL" => Takes(i) = i[2] + 1 /\ Leaves(i) = 1
  OBVIOUS
<1>8. i[1] = "SET_INDEX" => Takes(i) = 3 /\ Leaves(i) = 0
  OBVIOUS
<1>9. i[1] = "RETURN" => Takes(i) = 1 /\ Leaves(i) = 0
  OBVIOUS
<1>10. /\ i[1] \notin {"JUMP", "LOOP", "RETURN", "HALT"} => ip + 1 \in Targets(i, ip)
       /\ i[1] \in {"JUMP", "LOOP", "JUMP_IF_FALSE"} => i[2] \in Targets(i, ip)
  BY DEF Targets
<1> QED BY <1>1, <1>2, <1>3, <1>4, <1>5, <1>6, <1>7, <1>8, <1>9, <1>10

\* Reading an instruction changes no more than where the frame is.
LEMMA AdvancedFrames ==
  ASSUME frames \in [1 .. FramesMax -> FrameSet], depth \in 1 .. FramesMax, frame.ip \in Nat
  PROVE  Moved(Advanced, frames, depth, frame.ip + 1)
<1>1. Advanced = [frames EXCEPT ![depth].ip = frames[depth].ip + 1]
  BY DEF Advanced
<1>2. frame.ip = frames[depth].ip /\ frame.ip + 1 \in Nat
  BY DEF frame
<1> QED BY <1>1, <1>2, MovedFrames

\* An instruction that stays in its frame and opens and closes no try.
LEMMA GoesOn ==
  ASSUME Sound, NEW b, NEW off, Base(b, off),
         ins[1] \notin {"TRY", "TRY_END"},
         NEW ip \in Targets(ins, frame.ip), Moved(frames', frames, depth, ip),
         top' = top - Takes(ins) + Leaves(ins), top' <= StackMax,
         IsStack(stack'), \A a \in 0 .. frame.slots : stack'[a] = stack[a],
         Takes(ins) \in Nat, Leaves(ins) \in Nat,
         UNCHANGED <<depth, handlers>>
  PROVE  \E on : Base(b, on)'
<1>1. /\ Placed(frame.fn, ip) /\ PlaceOf(frame.fn, ip) = NextPlace(ins, PlaceNow)
      /\ PlaceNow.height \in Nat /\ frame.slots \in Nat /\ top = frame.slots + PlaceNow.height
  BY Granted
<1>2. /\ PlaceOf(frame.fn, ip).open = PlaceNow.open
      /\ PlaceOf(frame.fn, ip).height = PlaceNow.height - Takes(ins) + Leaves(ins)
  BY <1>1 DEF NextPlace
<1>3. top' = frame.slots + PlaceOf(frame.fn, ip).height
  <2>1. PICK x \in Nat : x = Takes(ins)
    OBVIOUS
  <2>2. PICK y \in Nat : y = Leaves(ins)
    OBVIOUS
  <2>3. PICK z \in Nat : z = PlaceNow.height
    BY <1>1
  <2>4. top' = top - x + y /\ top = frame.slots + z /\ PlaceOf(frame.fn, ip).height = z - x + y
    BY <1>1, <1>2, <2>1, <2>2, <2>3
  <2> QED BY <1>1, <2>4
<1>4. Stands(stack, top, frames, depth, handlers, b, off)
  BY DEF Base
<1>5. \E on : Stands(stack', top', frames', depth, handlers, b, on)
  BY <1>1, <1>2, <1>3, <1>4, LocalStep DEF frame, PlaceNow
<1> QED BY <1>5 DEF Base
-----------------------------------------------------------------------------
(***************************************************************************)
(* What an instruction comes to                                            *)
(***************************************************************************)
TypedNow == Typed(stack, top, frames, depth, handlers)

\* What a script that ends well leaves to the next one on the same VM.
Calm == handlers = <<>> /\ depth <= runs /\ Stacked(stack, top, frames, depth)

\* What is below the frame is left alone, unless a handler is used up.
Spared ==
  Len(handlers') >= Len(handlers) => \A i \in 0 .. frame.slots - 1 : stack'[i] = stack[i]

\* The run goes on from the same base, or ends.
Outcome(b) ==
  /\ TypedNow' /\ UNCHANGED <<runs, host>> /\ Spared
  /\ \/ status' = "running" /\ \E on : Base(b, on)'
     \/ status' = "returned" /\ (result' = "OK" => Calm')
     \/ status' = "exited"

LEMMA StandingTyped ==
  ASSUME NEW b, NEW off, Base(b, off)'
  PROVE  TypedNow'
BY DEF Base, Stands, TypedNow

\* Going on is an outcome.
LEMMA GoesOnOutcome ==
  ASSUME Sound, status = "running", NEW b, NEW off, Base(b, off),
         ins[1] \notin {"TRY", "TRY_END"},
         NEW ip \in Targets(ins, frame.ip), Moved(frames', frames, depth, ip),
         top' = top - Takes(ins) + Leaves(ins), top' <= StackMax,
         IsStack(stack'), \A a \in 0 .. frame.slots : stack'[a] = stack[a],
         Takes(ins) \in Nat, Leaves(ins) \in Nat,
         UNCHANGED <<depth, handlers>>, Running
  PROVE  Outcome(b)
<1>1. \E on : Base(b, on)'
  BY GoesOn
<1>2. status' = "running" /\ UNCHANGED <<runs, host>>
  BY DEF Running, session
<1>3. TypedNow'
  BY <1>1, StandingTyped
<1>4. Spared
  <2>1. \A a \in 0 .. frame.slots - 1 : a \in 0 .. frame.slots
    BY Granted
  <2> QED BY <2>1 DEF Spared
<1> QED BY <1>1, <1>2, <1>3, <1>4 DEF Outcome

LEMMA ExitOutcome ==
  ASSUME NEW b, NEW off, Base(b, off), ExitProcess
  PROVE  Outcome(b)
<1>1. TypedNow /\ UNCHANGED machine /\ UNCHANGED <<runs, host>> /\ status' = "exited"
  BY DEF Base, Stands, TypedNow, ExitProcess
<1>2. TypedNow'
  BY <1>1 DEF TypedNow, machine
<1>3. Spared
  BY <1>1 DEF Spared, machine
<1> QED BY <1>1, <1>2, <1>3 DEF Outcome

\* What is written at a leaves a stack, and what is below a.
LEMMA Writing ==
  ASSUME IsStack(stack), NEW a \in 0 .. StackMax - 1, NEW v,
         stack' = [stack EXCEPT ![a] = v]
  PROVE  IsStack(stack') /\ \A c \in 0 .. a - 1 : stack'[c] = stack[c]
<1>1. stack = [c \in 0 .. StackMax - 1 |-> stack[c]] /\ StackMax \in Nat
  BY VMAssumption DEF IsStack, VMAssumption
<1>2. stack' = [c \in 0 .. StackMax - 1 |-> IF c = a THEN v ELSE stack[c]]
  BY <1>1
<1>3. IsStack(stack')
  BY <1>2 DEF IsStack
<1>4. ASSUME NEW c \in 0 .. a - 1 PROVE stack'[c] = stack[c]
  <2>1. c \in 0 .. StackMax - 1 /\ c # a
    BY <1>1
  <2> QED BY <1>2, <2>1
<1> QED BY <1>3, <1>4

\* An instruction that pops its n operands and pushes one value, in its frame.
LEMMA PopPushOutcome ==
  ASSUME Sound, status = "running", NEW b, NEW off, Base(b, off),
         NEW n \in Nat, Takes(ins) = n, Leaves(ins) = 1,
         frame.ip + 1 \in Targets(ins, frame.ip), ins[1] \notin {"TRY", "TRY_END"},
         top - n < StackMax,
         NEW v, PopPush(n, v), Advance, Running, UNCHANGED <<depth, handlers>>
  PROVE  Outcome(b)
<1>1. /\ Suffices(ins, PlaceNow, depth = b) /\ PlaceNow.height \in Nat
      /\ Floor(PlaceNow) \in Nat /\ 1 <= Floor(PlaceNow)
      /\ frame.slots \in Nat /\ frame.ip \in Nat /\ top = frame.slots + PlaceNow.height
      /\ top \in 0 .. StackMax /\ StackMax \in Nat
      /\ depth \in 1 .. FramesMax /\ frames \in [1 .. FramesMax -> FrameSet]
  BY Granted
<1>2. n <= PlaceNow.height - Floor(PlaceNow)
  BY <1>1 DEF Suffices
<1>3. top - n \in 0 .. StackMax - 1 /\ frame.slots < top - n
  BY <1>1, <1>2, SMTT(30)
<1>4. IsStack(stack)
  BY DEF Base, Stands, Typed
<1>5. stack' = [stack EXCEPT ![top - n] = v] /\ top' = top - n + 1
  BY DEF PopPush
<1>6. IsStack(stack') /\ \A c \in 0 .. frame.slots : stack'[c] = stack[c]
  <2>1. IsStack(stack') /\ \A c \in 0 .. (top - n) - 1 : stack'[c] = stack[c]
    BY <1>3, <1>4, <1>5, Writing
  <2>2. \A c \in 0 .. frame.slots : c \in 0 .. (top - n) - 1
    BY <1>1, <1>3
  <2> QED BY <2>1, <2>2
<1>7. Moved(frames', frames, depth, frame.ip + 1)
  BY <1>1, AdvancedFrames DEF Advance
<1>8. top' = top - Takes(ins) + Leaves(ins) /\ top' <= StackMax
  <2>1. top \in Nat /\ StackMax \in Nat /\ top - n < StackMax /\ top' = top - n + 1
    BY <1>1, <1>5
  <2>2. top' <= StackMax
    BY <2>1
  <2> QED BY <2>1, <2>2
<1> QED BY <1>6, <1>7, <1>8, GoesOnOutcome

LEMMA OperateOutcome ==
  ASSUME Sound, status = "running", NEW b, NEW off, Base(b, off),
         NEW n \in Nat, Takes(ins) = n, Leaves(ins) = 1,
         frame.ip + 1 \in Targets(ins, frame.ip), ins[1] \notin {"TRY", "TRY_END"},
         NEW v, Operate(n, v)
  PROVE  Outcome(b)
<1>1. CASE Overflows(n)
  BY <1>1, ExitOutcome DEF Operate
<1>2. CASE ~Overflows(n)
  <2>1. top \in Nat /\ StackMax \in Nat
    BY Granted
  <2>2. top - n < StackMax
    BY <1>2, <2>1 DEF Overflows
  <2>3. PopPush(n, v) /\ Advance /\ Running /\ UNCHANGED <<depth, handlers>>
    BY <1>2 DEF Operate
  <2> QED BY <2>2, <2>3, PopPushOutcome
<1> QED BY <1>1, <1>2

\* An instruction that leaves the stack alone but for its top, and goes on at ip.
LEMMA TopOutcome ==
  ASSUME Sound, status = "running", NEW b, NEW off, Base(b, off),
         ins[1] \notin {"TRY", "TRY_END"},
         NEW ip \in Targets(ins, frame.ip), frames' = [frames EXCEPT ![depth].ip = ip],
         Takes(ins) \in Nat, Leaves(ins) \in Nat, Leaves(ins) <= Takes(ins),
         top' = top - Takes(ins) + Leaves(ins),
         UNCHANGED <<stack, depth, handlers>>, Running
  PROVE  Outcome(b)
<1>1. /\ top \in 0 .. StackMax /\ StackMax \in Nat /\ ip \in Nat
      /\ depth \in 1 .. FramesMax /\ frames \in [1 .. FramesMax -> FrameSet]
  BY Granted
<1>2. IsStack(stack') /\ \A a \in 0 .. frame.slots : stack'[a] = stack[a]
  BY DEF Base, Stands, Typed
<1>3. Moved(frames', frames, depth, ip)
  BY <1>1, MovedFrames
<1>4. top' <= StackMax
  BY <1>1
<1> QED BY <1>2, <1>3, <1>4, GoesOnOutcome

\* A run that ends in an error, wherever the instruction leaves the top.
LEMMA QuitOutcome ==
  ASSUME Sound, NEW b, NEW off, Base(b, off),
         Advance, Quit("RUNTIME_ERROR"), top' \in 0 .. StackMax, UNCHANGED <<stack, depth, handlers>>
  PROVE  Outcome(b)
<1>1. /\ frame.ip \in Nat /\ depth \in 1 .. FramesMax /\ frames \in [1 .. FramesMax -> FrameSet]
  BY Granted
<1>2. frames' \in [1 .. FramesMax -> FrameSet]
  BY <1>1, AdvancedFrames DEF Moved, Advance
<1>3. Typed(stack, top, frames, depth, handlers)
  BY DEF Base, Stands
<1>4. TypedNow'
  BY <1>2, <1>3 DEF Typed, TypedNow
<1> QED BY <1>4 DEF Quit, Outcome, Spared

LEMMA AbortOutcome ==
  ASSUME Sound, NEW b, NEW off, Base(b, off), Abort
  PROVE  Outcome(b)
<1>1. top \in 0 .. StackMax
  BY Granted
<1> QED BY <1>1, QuitOutcome DEF Abort

\* An error thrown by an instruction that takes operands, once it has popped n of them.
LEMMA ThrowOutcome ==
  ASSUME Sound, status = "running", NEW b, NEW off, Base(b, off),
         Takes(ins) \in Nat, Takes(ins) >= 1, NEW n \in 0 .. Takes(ins),
         NEW err, Throw(n, err)
  PROVE  Outcome(b)
<1>1. /\ Suffices(ins, PlaceNow, depth = b) /\ PlaceNow.height \in Nat
      /\ Floor(PlaceNow) \in Nat /\ 1 <= Floor(PlaceNow)
      /\ frame.slots \in Nat /\ frame.ip \in Nat /\ top = frame.slots + PlaceNow.height
      /\ top \in 0 .. StackMax /\ StackMax \in Nat
      /\ depth \in 1 .. FramesMax /\ FramesMax \in Nat /\ b \in 1 .. depth
      /\ frames \in [1 .. FramesMax -> FrameSet]
  BY Granted
<1>2. Takes(ins) <= PlaceNow.height - Floor(PlaceNow)
  BY <1>1 DEF Suffices
<1>3. Floor(PlaceNow) < PlaceNow.height /\ top - n \in 0 .. StackMax
  <2>1. PICK t \in Nat : t = Takes(ins)
    OBVIOUS
  <2>2. PICK h \in Nat : h = PlaceNow.height
    BY <1>1
  <2>3. PICK f \in Nat : f = Floor(PlaceNow)
    BY <1>1
  <2>4. PICK s \in Nat : s = frame.slots
    BY <1>1
  <2>5. PICK u \in 0 .. StackMax : u = top
    BY <1>1
  <2>6. /\ 1 <= t /\ n \in 0 .. t /\ StackMax \in Nat
        /\ u = s + h /\ t <= h - f
    BY <1>1, <1>2, <2>1, <2>2, <2>3, <2>4, <2>5
  <2>7. f < h /\ u - n \in 0 .. StackMax
    BY <2>6
  <2> QED BY <2>2, <2>3, <2>5, <2>7
<1>4. CASE handlers = <<>>
  <2>1. top' = top - n /\ Advance /\ Quit("RUNTIME_ERROR") /\ UNCHANGED <<stack, depth, handlers>>
    BY <1>4 DEF Throw
  <2> QED BY <1>3, <2>1, QuitOutcome
<1>5. CASE handlers # <<>>
  <2>1. PICK h : h = handlers[Len(handlers)]
    OBVIOUS
  <2>2. /\ handlers' = SubSeq(handlers, 1, Len(handlers) - 1)
        /\ stack' = [stack EXCEPT ![h.top] = err] /\ top' = h.top + 1 /\ depth' = h.frames
        /\ frames' = [Advanced EXCEPT ![h.frames].ip = h.catch] /\ Running
    BY <1>5, <2>1 DEF Throw, Last, Front
  <2>3. Stands(stack, top, frames, depth, handlers, b, off)
    BY DEF Base
  <2>4. h.frames \in b .. depth /\ h.catch \in Nat /\ h.top \in Nat /\ h.top < top
    <3>1. /\ handlers # <<>> /\ Stands(stack, top, frames, depth, handlers, b, off)
          /\ Floor(PlaceIn(frames, depth)) < PlaceIn(frames, depth).height
      BY <1>3, <1>5, <2>3 DEF PlaceNow, PlaceIn
    <3>2. Closing(top, frames, depth, handlers, b, off)
      BY <3>1, LastHandler
    <3> QED BY <2>1, <3>2, Zenon DEF Closing
  <2>5. Moved(Advanced, frames, depth, frame.ip + 1)
    BY <1>1, AdvancedFrames
  <2>6. h.frames \in 1 .. FramesMax /\ h.frames \in 1 .. depth
    <3>1. PICK q : q = h.frames
      OBVIOUS
    <3>2. /\ q \in b .. depth /\ b \in 1 .. depth
          /\ depth \in 1 .. FramesMax /\ FramesMax \in Nat
      BY <1>1, <2>4, <3>1
    <3>3. q \in 1 .. FramesMax /\ q \in 1 .. depth
      BY <3>2
    <3> QED BY <3>1, <3>3
  <2>7. Moved(frames', Advanced, h.frames, h.catch)
    <3>1. Advanced \in [1 .. FramesMax -> FrameSet]
      BY <2>5 DEF Moved
    <3>2. Moved([Advanced EXCEPT ![h.frames].ip = h.catch], Advanced, h.frames, h.catch)
      BY <2>4, <2>6, <3>1, MovedFrames
    <3> QED BY <2>2, <3>2
  <2>8. Moved(frames', frames, h.frames, h.catch)
    <3>1. ASSUME NEW i \in 1 .. h.frames
          PROVE  /\ frames'[i].fn = frames[i].fn /\ frames'[i].slots = frames[i].slots
                 /\ frames'[i].ip = IF i = h.frames THEN h.catch ELSE frames[i].ip
      <4>1. i \in 1 .. depth /\ (i # h.frames => i # depth)
        <5>1. PICK q \in 1 .. depth : q = h.frames
          BY <2>6
        <5>2. i \in 1 .. q /\ depth \in Nat
          BY <1>1, <5>1
        <5>3. i \in 1 .. depth /\ (i # q => i # depth)
          BY <5>2
        <5> QED BY <5>1, <5>3
      <4>2. /\ Advanced[i].fn = frames[i].fn /\ Advanced[i].slots = frames[i].slots
            /\ (i # depth => Advanced[i].ip = frames[i].ip)
        BY <2>5, <4>1 DEF Moved
      <4>3. /\ frames'[i].fn = Advanced[i].fn /\ frames'[i].slots = Advanced[i].slots
            /\ frames'[i].ip = IF i = h.frames THEN h.catch ELSE Advanced[i].ip
        BY <2>7 DEF Moved
      <4> QED BY <4>1, <4>2, <4>3
    <3>2. frames' \in [1 .. FramesMax -> FrameSet]
      BY <2>7 DEF Moved
    <3> QED BY <3>1, <3>2 DEF Moved
  <2>9. IsStack(stack') /\ \A a \in 0 .. h.top - 1 : stack'[a] = stack[a]
    <3>1. IsStack(stack)
      BY DEF Base, Stands, Typed
    <3>2. h.top \in 0 .. StackMax - 1
      BY <1>1, <2>4
    <3> QED BY <2>2, <3>1, <3>2, Writing
  <2>10. \E on : Stands(stack', h.top + 1, frames', h.frames,
                        SubSeq(handlers, 1, Len(handlers) - 1), b, on)
    BY <1>3, <1>5, <2>1, <2>3, <2>8, <2>9, CatchStep DEF PlaceNow
  <2>11. \E on : Base(b, on)'
    BY <2>2, <2>10 DEF Base
  <2>12. TypedNow'
    BY <2>11, StandingTyped
  <2>13. status' = "running" /\ UNCHANGED <<runs, host>>
    BY <2>2 DEF Running, session
  <2>14. Spared
    <3>1. Len(handlers') = Len(handlers) - 1 /\ Len(handlers) \in Nat
      <4>1. handlers \in Seq(HandlerSet)
        BY <2>3, Innermost
      <4> QED BY <1>5, <2>2, <4>1, FrontOf
    <3>2. ~(Len(handlers') >= Len(handlers))
      BY <3>1
    <3> QED BY <3>2 DEF Spared
  <2> QED BY <2>11, <2>12, <2>13, <2>14 DEF Outcome
<1> QED BY <1>4, <1>5
-----------------------------------------------------------------------------
(***************************************************************************)
(* The instructions                                                        *)
(***************************************************************************)
\* frame.ip + 1, as Advance has it.
LEMMA AdvanceTo ==
  ASSUME Advance
  PROVE  frames' = [frames EXCEPT ![depth].ip = frame.ip + 1]
BY DEF Advance, Advanced, frame

LEMMA DropOutcome ==
  ASSUME Sound, status = "running", NEW b, NEW off, Base(b, off), ins[1] \in Dropping, Drop
  PROVE  Outcome(b)
<1>1. Takes(ins) = 1 /\ Leaves(ins) = 0
  BY Effects
<1>2. frame.ip + 1 \in Targets(ins, frame.ip) /\ ins[1] \notin {"TRY", "TRY_END"}
  BY Effects DEF Dropping
<1>3. top \in Nat
  BY Granted
<1>4. /\ frames' = [frames EXCEPT ![depth].ip = frame.ip + 1]
      /\ top' = top - 1 /\ Running /\ UNCHANGED <<stack, depth, handlers>>
  BY AdvanceTo DEF Drop
<1>5. /\ top' = top - Takes(ins) + Leaves(ins)
      /\ Takes(ins) \in Nat /\ Leaves(ins) \in Nat /\ Leaves(ins) <= Takes(ins)
  BY <1>1, <1>3, <1>4
<1> QED BY <1>2, <1>4, <1>5, TopOutcome

\* An instruction that leaves what it looks at on the stack.
LEMMA StayOutcome ==
  ASSUME Sound, status = "running", NEW b, NEW off, Base(b, off),
         NEW n \in 0 .. 1, Takes(ins) = n, Leaves(ins) = n, ins[1] \notin {"TRY", "TRY_END"},
         NEW ip \in Targets(ins, frame.ip), frames' = [frames EXCEPT ![depth].ip = ip],
         UNCHANGED <<stack, top, depth, handlers>>, Running
  PROVE  Outcome(b)
<1>1. top \in Nat
  BY Granted
<1>2. /\ top' = top - Takes(ins) + Leaves(ins)
      /\ Takes(ins) \in Nat /\ Leaves(ins) \in Nat /\ Leaves(ins) <= Takes(ins)
  BY <1>1
<1>3. UNCHANGED <<stack, depth, handlers>>
  OBVIOUS
<1> QED BY <1>2, <1>3, TopOutcome

LEMMA DataOutcome ==
  ASSUME Sound, NEW b, NEW off, Base(b, off), Data
  PROVE  Outcome(b)
<1>1. ASSUME status = "running", ins[1] \in Pushing
      PROVE  /\ Takes(ins) = 0 /\ Leaves(ins) = 1 /\ 0 \in Nat
             /\ frame.ip + 1 \in Targets(ins, frame.ip) /\ ins[1] \notin {"TRY", "TRY_END"}
  BY <1>1, Effects DEF Pushing
<1>2. ASSUME status = "running", ins[1] \in {"SET_LOCAL", "SET_GLOBAL"}
      PROVE  /\ Takes(ins) = 1 /\ Leaves(ins) = 1
             /\ frame.ip + 1 \in Targets(ins, frame.ip) /\ ins[1] \notin {"TRY", "TRY_END"}
  BY <1>2, Effects DEF Peeking
<1>3. CASE Const
  <2>1. status = "running" /\ ins[1] \in Pushing /\ Operate(0, constant)
    BY <1>3 DEF Const, At, Pushing
  <2> QED BY <1>1, <2>1, OperateOutcome
<1>4. CASE PushNil
  <2>1. status = "running" /\ ins[1] \in Pushing /\ Operate(0, Nil)
    BY <1>4 DEF PushNil, At, Pushing
  <2> QED BY <1>1, <2>1, OperateOutcome
<1>5. CASE PushTrue
  <2>1. status = "running" /\ ins[1] \in Pushing /\ Operate(0, Bool(TRUE))
    BY <1>5 DEF PushTrue, At, Pushing
  <2> QED BY <1>1, <2>1, OperateOutcome
<1>6. CASE PushFalse
  <2>1. status = "running" /\ ins[1] \in Pushing /\ Operate(0, Bool(FALSE))
    BY <1>6 DEF PushFalse, At, Pushing
  <2> QED BY <1>1, <2>1, OperateOutcome
<1>7. CASE Pop
  <2>1. status = "running" /\ ins[1] \in Dropping /\ Drop
    BY <1>7 DEF Pop, At, Dropping
  <2> QED BY <2>1, DropOutcome
<1>8. CASE GetLocal
  <2>1. status = "running" /\ ins[1] \in Pushing /\ Operate(0, stack[frame.slots + ins[2]])
    BY <1>8 DEF GetLocal, At, Pushing
  <2> QED BY <1>1, <2>1, OperateOutcome
<1>9. CASE SetLocal
  <2>1. /\ status = "running" /\ ins[1] = "SET_LOCAL" /\ Advance /\ Running
        /\ stack' = [stack EXCEPT ![frame.slots + ins[2]] = Peek(0)]
        /\ UNCHANGED <<top, depth, handlers>>
    BY <1>9 DEF SetLocal, At
  <2>2. /\ Suffices(ins, PlaceNow, depth = b) /\ PlaceNow.height \in Nat
        /\ frame.slots \in Nat /\ frame.ip \in Nat /\ top = frame.slots + PlaceNow.height
        /\ top \in 0 .. StackMax /\ StackMax \in Nat
        /\ depth \in 1 .. FramesMax /\ frames \in [1 .. FramesMax -> FrameSet]
    BY Granted
  <2>3. ins[2] \in 1 .. PlaceNow.height - 1
    BY <2>1, <2>2 DEF Suffices
  <2>4. frame.slots + ins[2] \in 0 .. StackMax - 1
    <3>1. PICK s \in Nat : s = frame.slots
      BY <2>2
    <3>2. PICK h \in Nat : h = PlaceNow.height
      BY <2>2
    <3>3. PICK k \in 1 .. h - 1 : k = ins[2]
      BY <2>3, <3>2
    <3>4. s + h \in 0 .. StackMax /\ StackMax \in Nat
      BY <2>2, <3>1, <3>2
    <3>5. s + k \in 0 .. StackMax - 1
      BY <3>4
    <3> QED BY <3>1, <3>3, <3>5
  <2>5. IsStack(stack)
    BY DEF Base, Stands, Typed
  <2>6. IsStack(stack') /\ \A c \in 0 .. (frame.slots + ins[2]) - 1 : stack'[c] = stack[c]
    BY <2>1, <2>4, <2>5, Writing
  <2>7. \A c \in 0 .. frame.slots : stack'[c] = stack[c]
    BY <2>2, <2>3, <2>6
  <2>8. Moved(frames', frames, depth, frame.ip + 1)
    BY <2>1, <2>2, AdvancedFrames DEF Advance
  <2>9. /\ Takes(ins) = 1 /\ Leaves(ins) = 1
        /\ frame.ip + 1 \in Targets(ins, frame.ip) /\ ins[1] \notin {"TRY", "TRY_END"}
    BY <1>2, <2>1
  <2>10. top' = top - Takes(ins) + Leaves(ins) /\ top' <= StackMax
    BY <2>1, <2>2, <2>9
  <2>11. Takes(ins) \in Nat /\ Leaves(ins) \in Nat /\ UNCHANGED <<depth, handlers>>
    BY <2>1, <2>9
  <2> QED BY <2>1, <2>6, <2>7, <2>8, <2>9, <2>10, <2>11, GoesOnOutcome
<1>10. CASE DefineGlobal
  <2>1. status = "running" /\ ins[1] \in Dropping /\ Drop
    BY <1>10 DEF DefineGlobal, At, Dropping
  <2> QED BY <2>1, DropOutcome
<1>11. CASE GetGlobal
  <2>1. /\ status = "running" /\ ins[1] \in Pushing
        /\ Operate(0, globals[constant]) \/ Abort
    BY <1>11 DEF GetGlobal, At, Pushing
  <2> QED BY <1>1, <2>1, OperateOutcome, AbortOutcome
<1>12. CASE SetGlobal
  <2>1. /\ status = "running" /\ ins[1] = "SET_GLOBAL"
        /\ \/ Advance /\ Running /\ UNCHANGED <<stack, top, depth, handlers>>
           \/ Abort
    BY <1>12 DEF SetGlobal, At
  <2>2. CASE Advance /\ Running /\ UNCHANGED <<stack, top, depth, handlers>>
    <3>1. frames' = [frames EXCEPT ![depth].ip = frame.ip + 1]
      BY <2>2, AdvanceTo
    <3>2. 1 \in 0 .. 1
      OBVIOUS
    <3> QED BY <1>2, <2>1, <2>2, <3>1, <3>2, StayOutcome
  <2> QED BY <2>1, <2>2, AbortOutcome
<1> QED BY <1>3, <1>4, <1>5, <1>6, <1>7, <1>8, <1>9, <1>10, <1>11, <1>12 DEF Data

\* An operator on two values, or on one, that may find them of the wrong kind.
LEMMA OperatorOutcome ==
  ASSUME Sound, status = "running", NEW b, NEW off, Base(b, off),
         ins[1] \in Combining \cup Replacing,
         \/ \E v : Operate(Takes(ins), v)
         \/ \E n \in {0, Takes(ins)} : \E kind : Fail(n, kind)
  PROVE  Outcome(b)
<1>1. /\ Takes(ins) \in Nat /\ Takes(ins) >= 1 /\ Leaves(ins) = 1
  BY Effects
<1>2. frame.ip + 1 \in Targets(ins, frame.ip) /\ ins[1] \notin {"TRY", "TRY_END"}
  BY Effects DEF Combining, Replacing, Arithmetic, Division, Comparison
<1>3. ASSUME NEW v, Operate(Takes(ins), v) PROVE Outcome(b)
  BY <1>1, <1>2, <1>3, OperateOutcome
<1>4. ASSUME NEW n \in {0, Takes(ins)}, NEW kind, Fail(n, kind) PROVE Outcome(b)
  <2>1. n \in 0 .. Takes(ins)
    BY <1>1
  <2>2. Throw(n, Message(kind))
    BY <1>4 DEF Fail
  <2> QED BY <1>1, <2>1, <2>2, ThrowOutcome
<1> QED BY <1>3, <1>4
LEMMA OperatorsOutcome ==
  ASSUME Sound, NEW b, NEW off, Base(b, off), Operators
  PROVE  Outcome(b)
<1>1. ASSUME ins[1] \in Combining PROVE Takes(ins) = 2 /\ ins[1] \in Combining \cup Replacing
  BY <1>1, Effects
<1>2. ASSUME ins[1] \in Replacing PROVE Takes(ins) = 1 /\ ins[1] \in Combining \cup Replacing
  BY <1>2, Effects
<1>3. CASE ArithmeticOp
  <2>1. /\ status = "running" /\ ins[1] \in Combining
        /\ \/ \E v : Operate(2, v)
           \/ Fail(0, "numbers only")
    BY <1>3 DEF ArithmeticOp, AtAny, Combining
  <2> QED BY <1>1, <2>1, OperatorOutcome
<1>4. CASE DivisionOp
  <2>1. /\ status = "running" /\ ins[1] \in Combining
        /\ \/ \E v : Operate(2, v)
           \/ Fail(0, "numbers only")
           \/ Fail(2, "zero divisor")
    BY <1>4 DEF DivisionOp, AtAny, Combining
  <2> QED BY <1>1, <2>1, OperatorOutcome
<1>5. CASE ComparisonOp
  <2>1. /\ status = "running" /\ ins[1] \in Combining
        /\ \/ \E v : Operate(2, v)
           \/ Fail(0, "numbers only")
    BY <1>5 DEF ComparisonOp, AtAny, Combining
  <2> QED BY <1>1, <2>1, OperatorOutcome
<1>6. CASE Negate
  <2>1. /\ status = "running" /\ ins[1] \in Replacing
        /\ \/ \E v : Operate(1, v)
           \/ Fail(0, "negate")
    BY <1>6 DEF Negate, At, Replacing
  <2> QED BY <1>2, <2>1, OperatorOutcome
<1>7. CASE Not
  <2>1. status = "running" /\ ins[1] \in Replacing /\ \E v : Operate(1, v)
    BY <1>7 DEF Not, At, Replacing
  <2> QED BY <1>2, <2>1, OperatorOutcome
<1>8. CASE Equal \/ NotEqual \/ Concat
  <2>1. status = "running" /\ ins[1] \in Combining /\ \E v : Operate(2, v)
    BY <1>8 DEF Equal, NotEqual, Concat, At, Combining
  <2> QED BY <1>1, <2>1, OperatorOutcome
<1>9. CASE PrintTop
  <2>1. status = "running" /\ ins[1] \in Dropping /\ Drop
    BY <1>9 DEF PrintTop, At, Dropping
  <2> QED BY <2>1, DropOutcome
<1>10. CASE BuildArray
  <2>1. /\ status = "running" /\ ins[1] = "BUILD_ARRAY"
        /\ \/ ExitProcess
           \/ /\ ~Overflows(ins[2])
              /\ \E v : PopPush(ins[2], v)
              /\ Advance /\ Running /\ UNCHANGED <<depth, handlers>>
    BY <1>10 DEF BuildArray, At
  <2>2. Takes(ins) = ins[2] /\ Leaves(ins) = 1
        /\ frame.ip + 1 \in Targets(ins, frame.ip) /\ ins[1] \notin {"TRY", "TRY_END"}
    BY <2>1, Effects
  <2>3. ins[2] \in Nat /\ top \in Nat /\ StackMax \in Nat
    BY <2>1, Granted DEF Suffices, Collecting
  <2>4. CASE ~ExitProcess
    <3>1. top - ins[2] < StackMax
      BY <2>1, <2>3, <2>4 DEF Overflows
    <3> QED BY <2>1, <2>2, <2>3, <2>4, <3>1, PopPushOutcome
  <2> QED BY <2>4, ExitOutcome
<1>11. CASE GetIndex
  <2>1. /\ status = "running" /\ ins[1] \in Combining
        /\ \/ \E v : Operate(2, v)
           \/ \E kind : Fail(2, kind)
    BY <1>11 DEF GetIndex, At, Combining
  <2> QED BY <1>1, <2>1, OperatorOutcome
<1>12. CASE SetIndexOp
  <2>1. /\ status = "running" /\ ins[1] = "SET_INDEX"
        /\ \/ \E kind : Fail(3, kind)
           \/ /\ top' = top - 3 /\ Advance /\ Running
              /\ UNCHANGED <<stack, depth, handlers>>
    BY <1>12 DEF SetIndexOp, At
  <2>2. Takes(ins) = 3 /\ Leaves(ins) = 0
        /\ frame.ip + 1 \in Targets(ins, frame.ip) /\ ins[1] \notin {"TRY", "TRY_END"}
    BY <2>1, Effects
  <2>3. CASE \E kind : Fail(3, kind)
    <3>1. PICK err : Throw(3, err)
      BY <2>3 DEF Fail
    <3>2. 3 \in 0 .. Takes(ins) /\ Takes(ins) \in Nat /\ Takes(ins) >= 1
      BY <2>2
    <3> QED BY <2>1, <3>1, <3>2, ThrowOutcome
  <2>4. CASE top' = top - 3 /\ Advance /\ Running /\ UNCHANGED <<stack, depth, handlers>>
    <3>1. top \in Nat
      BY Granted
    <3>2. /\ top' = top - Takes(ins) + Leaves(ins)
          /\ Takes(ins) \in Nat /\ Leaves(ins) \in Nat /\ Leaves(ins) <= Takes(ins)
      BY <2>2, <2>4, <3>1
    <3>3. frames' = [frames EXCEPT ![depth].ip = frame.ip + 1]
      BY <2>4, AdvanceTo
    <3> QED BY <2>1, <2>2, <2>4, <3>2, <3>3, TopOutcome
  <2> QED BY <2>1, <2>3, <2>4
<1> QED BY <1>3, <1>4, <1>5, <1>6, <1>7, <1>8, <1>9, <1>10, <1>11, <1>12 DEF Operators

LEMMA TryOutcome ==
  ASSUME Sound, NEW b, NEW off, Base(b, off), TryBlock \/ TryEnd
  PROVE  Outcome(b)
<1>1. /\ Suffices(ins, PlaceNow, depth = b) /\ PlaceNow.height \in Nat
      /\ frame.ip \in Nat /\ depth \in 1 .. FramesMax /\ frames \in [1 .. FramesMax -> FrameSet]
      /\ \A t \in Targets(ins, frame.ip) :
           Placed(frame.fn, t) /\ PlaceOf(frame.fn, t) = NextPlace(ins, PlaceNow)
  BY Granted
<1>2. Stands(stack, top, frames, depth, handlers, b, off)
  BY DEF Base
<1>3. ASSUME ins[1] \in {"TRY", "TRY_END"}
      PROVE  /\ Placed(frame.fn, frame.ip + 1)
             /\ PlaceOf(frame.fn, frame.ip + 1) = NextPlace(ins, PlaceNow)
             /\ NextPlace(ins, PlaceNow).height = PlaceNow.height
  <2>1. Takes(ins) = 0 /\ Leaves(ins) = 0 /\ frame.ip + 1 \in Targets(ins, frame.ip)
    BY <1>3, Effects DEF Moving
  <2>2. NextPlace(ins, PlaceNow).height = PlaceNow.height - 0 + 0
    BY <2>1 DEF NextPlace
  <2> QED BY <1>1, <2>1, <2>2
<1>4. ASSUME Advance PROVE Moved(frames', frames, depth, frame.ip + 1)
  BY <1>1, <1>4, AdvancedFrames DEF Advance
<1>5. ASSUME status = "running", Running, UNCHANGED stack, \E on : Base(b, on)' PROVE Outcome(b)
  <2>1. TypedNow'
    BY <1>5, StandingTyped
  <2> QED BY <1>5, <2>1 DEF Outcome, Running, session, Spared
<1>6. CASE TryBlock
  <2>1. status = "running" /\ ins[1] = "TRY"
    BY <1>6 DEF TryBlock, At
  <2>2. CASE Len(handlers) >= TryMax
    BY <1>6, <2>2, AbortOutcome DEF TryBlock
  <2>3. CASE ~(Len(handlers) >= TryMax)
    <3>1. /\ handlers' = Append(handlers, [catch |-> ins[2], top |-> top, frames |-> depth])
          /\ Advance /\ Running /\ UNCHANGED <<stack, top, depth>>
      BY <1>6, <2>3 DEF TryBlock
    <3>2. ins[2] \in Nat
      BY <1>1, <2>1 DEF Suffices
    <3>3. Len(handlers) < TryMax
      <4>1. Len(handlers) \in Nat /\ TryMax \in Nat
        BY <1>2, VMAssumption DEF Stands, Typed, VMAssumption
      <4> QED BY <2>3, <4>1
    <3>4. /\ PlaceOf(frame.fn, frame.ip + 1).height = PlaceNow.height
          /\ PlaceOf(frame.fn, frame.ip + 1).open =
               Append(PlaceNow.open, [catch |-> ins[2], height |-> PlaceNow.height])
      BY <1>3, <2>1 DEF NextPlace
    <3>5. \E on : Stands(stack, top, frames', depth, handlers', b, on)
      BY <1>2, <1>3, <1>4, <2>1, <3>1, <3>2, <3>3, <3>4, OpenStep DEF PlaceNow, frame
    <3>6. \E on : Base(b, on)'
      BY <3>1, <3>5 DEF Base
    <3> QED BY <1>5, <2>1, <3>1, <3>6
  <2> QED BY <2>2, <2>3
<1>7. CASE TryEnd
  <2>1. /\ status = "running" /\ ins[1] = "TRY_END" /\ Advance /\ Running
        /\ UNCHANGED <<stack, top, depth>>
    BY <1>7 DEF TryEnd, At
  <2>2. PlaceNow.open # <<>>
    BY <1>1, <2>1 DEF Suffices
  <2>3. /\ PlaceOf(frame.fn, frame.ip + 1).height = PlaceNow.height
        /\ PlaceOf(frame.fn, frame.ip + 1).open = SubSeq(PlaceNow.open, 1, Len(PlaceNow.open) - 1)
    BY <1>3, <2>1 DEF NextPlace
  <2>4. /\ handlers # <<>>
        /\ \E on : Stands(stack, top, frames', depth, SubSeq(handlers, 1, Len(handlers) - 1), b, on)
    BY <1>2, <1>3, <1>4, <2>1, <2>2, <2>3, CloseStep DEF PlaceNow, frame
  <2>5. handlers' = SubSeq(handlers, 1, Len(handlers) - 1)
    BY <1>7, <2>4 DEF TryEnd, Front
  <2>6. \E on : Base(b, on)'
    BY <2>1, <2>4, <2>5 DEF Base
  <2> QED BY <1>5, <2>1, <2>6
<1> QED BY <1>6, <1>7

LEMMA JumpOutcome ==
  ASSUME Sound, NEW b, NEW off, Base(b, off), Jump \/ JumpIfFalse
  PROVE  Outcome(b)
<1>1. CASE Jump
  <2>1. /\ status = "running" /\ ins[1] \in {"JUMP", "LOOP"} /\ Running
        /\ frames' = [frames EXCEPT ![depth].ip = ins[2]]
        /\ UNCHANGED <<stack, top, depth, handlers>>
    BY <1>1 DEF Jump, AtAny, JumpTo
  <2>2. Takes(ins) = 0 /\ Leaves(ins) = 0 /\ ins[2] \in Targets(ins, frame.ip)
    BY <2>1, Effects DEF Moving
  <2>3. 0 \in 0 .. 1 /\ ins[1] \notin {"TRY", "TRY_END"}
    BY <2>1
  <2> QED BY <2>1, <2>2, <2>3, StayOutcome
<1>2. CASE JumpIfFalse
  <2>1. /\ status = "running" /\ ins[1] = "JUMP_IF_FALSE" /\ Running
        /\ Advance \/ JumpTo(ins[2])
        /\ UNCHANGED <<stack, top, depth, handlers>>
    BY <1>2 DEF JumpIfFalse, At
  <2>2. /\ Takes(ins) = 1 /\ Leaves(ins) = 1
        /\ ins[2] \in Targets(ins, frame.ip) /\ frame.ip + 1 \in Targets(ins, frame.ip)
    BY <2>1, Effects DEF Peeking
  <2>3. 1 \in 0 .. 1 /\ ins[1] \notin {"TRY", "TRY_END"}
    BY <2>1
  <2>4. PICK ip \in Targets(ins, frame.ip) : frames' = [frames EXCEPT ![depth].ip = ip]
    BY <2>1, <2>2, AdvanceTo DEF JumpTo
  <2> QED BY <2>1, <2>2, <2>3, <2>4, StayOutcome
<1> QED BY <1>1, <1>2
LEMMA CallFunctionOutcome ==
  ASSUME Sound, FunctionsCalled, NEW b, NEW off, Base(b, off), CallFunction
  PROVE  Outcome(b)
<1> DEFINE n == ins[2]
           f == Peek(n)
<1>1. status = "running" /\ ins[1] = "CALL" /\ Is("fn", f)
  BY DEF CallFunction, At
<1>2. CASE n # FunctionOf(f).arity \/ depth >= FramesMax
  BY <1>2, AbortOutcome DEF CallFunction
<1>3. CASE ~(n # FunctionOf(f).arity \/ depth >= FramesMax)
  <2>1. /\ frames' = [Advanced EXCEPT ![depth + 1] = [fn |-> f, ip |-> 1, slots |-> top - n - 1]]
        /\ depth' = depth + 1 /\ Running /\ UNCHANGED <<stack, top, handlers>>
    BY <1>3 DEF CallFunction
  <2>2. f \in Known /\ ~Main(f)
    <3>1. /\ f = Fn(f[2], f[3]) /\ f[2] \in DOMAIN Code /\ Code[f[2]].ok
          /\ f[3] \in 1 .. Len(Code[f[2]].fns) - 1
      <4>1. f \in Callable
        BY <1>1 DEF FunctionsCalled, At
      <4> QED BY <4>1, CallableIsDeclared
    <3>2. Len(Code[f[2]].fns) \in Nat
      BY <3>1 DEF Sound, SoundScript
    <3>3. f[3] \in 1 .. Len(Code[f[2]].fns) /\ f[3] # Len(Code[f[2]].fns)
      BY <3>1, <3>2
    <3>4. f \in {Fn(f[2], k) : k \in 1 .. Len(Code[f[2]].fns)}
      BY <3>1, <3>3
    <3>5. f \in Known
      BY <3>1, <3>4 DEF Known
    <3> QED BY <3>3, <3>5 DEF Main
  <2>3. /\ Suffices(ins, PlaceNow, depth = b) /\ PlaceNow.height \in Nat
        /\ Floor(PlaceNow) \in Nat /\ 1 <= Floor(PlaceNow)
        /\ frame.slots \in Nat /\ frame.ip \in Nat /\ top = frame.slots + PlaceNow.height
        /\ depth \in 1 .. FramesMax /\ FramesMax \in Nat /\ frames \in [1 .. FramesMax -> FrameSet]
        /\ \A t \in Targets(ins, frame.ip) :
             Placed(frame.fn, t) /\ PlaceOf(frame.fn, t) = NextPlace(ins, PlaceNow)
    BY Granted
  <2>4. n \in Nat /\ Takes(ins) = n + 1 /\ Leaves(ins) = 1 /\ frame.ip + 1 \in Targets(ins, frame.ip)
    BY <1>1, <2>3, Effects DEF Suffices, Collecting
  <2>5. n + 1 <= PlaceNow.height - Floor(PlaceNow) /\ depth < FramesMax /\ FunctionOf(f).arity = n
    BY <1>3, <2>3, <2>4 DEF Suffices
  <2>6. /\ Placed(frame.fn, frame.ip + 1)
        /\ PlaceOf(frame.fn, frame.ip + 1) = [height |-> PlaceNow.height - n, open |-> PlaceNow.open]
    <3>1. NextPlace(ins, PlaceNow) = [height |-> PlaceNow.height - (n + 1) + 1, open |-> PlaceNow.open]
      BY <1>1, <2>4 DEF NextPlace
    <3>2. PlaceNow.height - (n + 1) + 1 = PlaceNow.height - n
      <4>1. PICK x \in Nat : x = PlaceNow.height
        BY <2>3
      <4>2. PICK y \in Nat : y = n
        BY <2>4
      <4>3. x - (y + 1) + 1 = x - y
        OBVIOUS
      <4> QED BY <4>1, <4>2, <4>3
    <3> QED BY <2>3, <2>4, <3>1, <3>2
  <2>7. Moved(Advanced, frames, depth, frame.ip + 1)
    BY <2>3, AdvancedFrames
  <2>8. /\ Moved(frames', frames, depth, frame.ip + 1)
        /\ frames'[depth + 1] = [fn |-> f, ip |-> 1, slots |-> top - n - 1]
    <3>1. PICK r : r = [fn |-> f, ip |-> 1, slots |-> top - n - 1]
      OBVIOUS
    <3>2. r \in FrameSet
      <4>1. top - n - 1 \in Nat
        <5>1. PICK x \in Nat : x = PlaceNow.height
          BY <2>3
        <5>2. PICK y \in Nat : y = n
          BY <2>4
        <5>3. PICK z \in Nat : z = Floor(PlaceNow)
          BY <2>3
        <5>4. PICK s \in Nat : s = frame.slots
          BY <2>3
        <5>5. top = s + x /\ y + 1 <= x - z
          BY <2>3, <2>5, <5>1, <5>2, <5>3, <5>4
        <5>6. s + x - y - 1 \in Nat
          BY <5>5
        <5> QED BY <5>2, <5>5, <5>6
      <4> QED BY <2>2, <3>1, <4>1 DEF FrameSet
    <3>3. PICK adv : adv = Advanced
      OBVIOUS
    <3>4. adv \in [1 .. FramesMax -> FrameSet]
      BY <2>7, <3>3 DEF Moved
    <3>5. frames' = [i \in 1 .. FramesMax |-> IF i = depth + 1 THEN r ELSE adv[i]]
      BY <2>1, <3>1, <3>3, <3>4
    <3>6. frames' \in [1 .. FramesMax -> FrameSet] /\ frames'[depth + 1] = r
      BY <2>3, <2>5, <3>2, <3>4, <3>5
    <3>7. \A i \in 1 .. depth : frames'[i] = adv[i]
      BY <2>3, <2>5, <3>5
    <3> QED BY <2>7, <3>1, <3>3, <3>6, <3>7 DEF Moved
  <2>9. Stands(stack, top, frames, depth, handlers, b, off) /\ stack[top - 1 - n] = f
    BY DEF Base, Peek
  <2> HIDE DEF n, f
  <2>10. \E on : Stands(stack, top, frames', depth + 1, handlers, b, on)
    BY <2>2, <2>4, <2>5, <2>6, <2>8, <2>9, CallStep DEF PlaceNow, frame
  <2>11. \E on : Base(b, on)'
    BY <2>1, <2>10 DEF Base
  <2>12. TypedNow'
    BY <2>11, StandingTyped
  <2> QED BY <1>1, <2>1, <2>11, <2>12 DEF Outcome, Running, session, Spared
<1> QED BY <1>2, <1>3

LEMMA CallNativeOutcome ==
  ASSUME Sound, NEW b, NEW off, Base(b, off), CallNative
  PROVE  Outcome(b)
<1>1. /\ status = "running" /\ ins[1] = "CALL"
      /\ \/ Abort
         \/ \E err : Throw(ins[2] + 1, err)
         \/ /\ \E v : PopPush(ins[2] + 1, v)
            /\ Advance /\ Running /\ UNCHANGED <<depth, handlers>>
  BY DEF CallNative, At
<1>2. /\ Suffices(ins, PlaceNow, depth = b) /\ PlaceNow.height \in Nat /\ Floor(PlaceNow) \in Nat
      /\ top \in 0 .. StackMax /\ StackMax \in Nat
  BY Granted
<1>3. /\ ins[2] \in Nat /\ Takes(ins) = ins[2] + 1 /\ Leaves(ins) = 1
      /\ frame.ip + 1 \in Targets(ins, frame.ip) /\ ins[1] \notin {"TRY", "TRY_END"}
  BY <1>1, <1>2, Effects DEF Suffices, Collecting
<1>4. Takes(ins) \in Nat /\ Takes(ins) >= 1 /\ ins[2] + 1 \in 0 .. Takes(ins) /\ ins[2] + 1 \in Nat
  BY <1>3
<1>5. CASE \E err : Throw(ins[2] + 1, err)
  BY <1>1, <1>4, <1>5, ThrowOutcome
<1>6. CASE /\ \E v : PopPush(ins[2] + 1, v)
           /\ Advance /\ Running /\ UNCHANGED <<depth, handlers>>
  <2>1. top - (ins[2] + 1) < StackMax
    BY <1>2, <1>3
  <2> QED BY <1>1, <1>3, <1>4, <1>6, <2>1, PopPushOutcome
<1> QED BY <1>1, <1>5, <1>6, AbortOutcome

LEMMA ReturnOutcome ==
  ASSUME Sound, NEW b, NEW off, Base(b, off), ReturnOp
  PROVE  Outcome(b)
<1>1. /\ status = "running" /\ ins[1] = "RETURN" /\ depth' = depth - 1 /\ Advance
      /\ UNCHANGED handlers
  BY DEF ReturnOp, At
<1>2. /\ Suffices(ins, PlaceNow, depth = b)
      /\ frame.slots \in Nat /\ frame.ip \in Nat
      /\ PlaceNow.height \in Nat /\ Floor(PlaceNow) \in Nat /\ 1 <= Floor(PlaceNow) /\ Floor(PlaceNow) <= PlaceNow.height
      /\ top = frame.slots + PlaceNow.height /\ top \in 0 .. StackMax /\ StackMax \in Nat
      /\ depth \in 1 .. FramesMax /\ b \in 1 .. depth /\ frames \in [1 .. FramesMax -> FrameSet]
  BY Granted
<1>3. depth # b /\ PlaceNow.open = <<>>
  BY <1>1, <1>2 DEF Suffices
<1>4. depth # 1
  BY <1>2, <1>3
<1>5. /\ stack' = [stack EXCEPT ![frame.slots] = Peek(0)] /\ top' = frame.slots + 1 /\ Running
  BY <1>4 DEF ReturnOp
<1>6. IsStack(stack) /\ Stands(stack, top, frames, depth, handlers, b, off)
  BY DEF Base, Stands, Typed
<1>7. frame.slots \in 0 .. StackMax - 1
  BY <1>2
<1>8. IsStack(stack') /\ \A a \in 0 .. frame.slots - 1 : stack'[a] = stack[a]
  BY <1>5, <1>6, <1>7, Writing
<1>9. Moved(frames', frames, depth, frame.ip + 1)
  BY <1>1, <1>2, AdvancedFrames DEF Advance
<1>10. ~Main(frame.fn)
  BY <1>3, <1>6, Innermost DEF frame
<1>11. \E on : Stands(stack', frame.slots + 1, frames', depth - 1, handlers, b, on)
  BY <1>3, <1>6, <1>8, <1>9, <1>10, ReturnStep DEF PlaceNow, frame
<1>12. \E on : Base(b, on)'
  BY <1>1, <1>5, <1>11 DEF Base
<1>13. TypedNow'
  BY <1>12, StandingTyped
<1> QED BY <1>1, <1>5, <1>8, <1>12, <1>13 DEF Outcome, Running, session, Spared

LEMMA HaltOutcome ==
  ASSUME Sound, NEW b, b <= runs, runs \in Nat, NEW off, Base(b, off), Halt
  PROVE  Outcome(b) /\ handlers = <<>> /\ top = frame.slots + 1
<1>1. /\ status = "running" /\ ins[1] = "HALT" /\ Advance /\ Quit("OK")
      /\ UNCHANGED <<stack, top, depth, handlers>>
  BY DEF Halt, At
<1>2. /\ Suffices(ins, PlaceNow, depth = b) /\ frame.ip \in Nat /\ top = frame.slots + PlaceNow.height
      /\ depth \in 1 .. FramesMax /\ FramesMax \in Nat /\ frames \in [1 .. FramesMax -> FrameSet]
  BY Granted
<1>3. depth = b /\ PlaceNow.open = <<>> /\ PlaceNow.height = 1
  BY <1>1, <1>2 DEF Suffices
<1>4. /\ Stands(stack, top, frames, depth, handlers, b, off)
      /\ Typed(stack, top, frames, depth, handlers) /\ Stacked(stack, top, frames, depth)
      /\ handlers \in Seq(HandlerSet)
  BY DEF Base, Stands, Typed
<1>5. handlers = <<>>
  <2>1. Len(handlers) = off[depth] + Len(PlaceNow.open)
    BY <1>4, Innermost DEF PlaceNow
  <2>2. off[b] = 0
    BY <1>4 DEF Stands, Guarded
  <2>3. Len(handlers) = 0
    BY <1>3, <2>1, <2>2
  <2> QED BY <1>4, <2>3
<1>6. Moved(frames', frames, depth, frame.ip + 1)
  BY <1>1, <1>2, AdvancedFrames DEF Advance
<1>7. Stacked(stack', top', frames', depth')
  <2>1. \A i \in 1 .. depth : frames'[i].fn = frames[i].fn /\ frames'[i].slots = frames[i].slots
    BY <1>6 DEF Moved
  <2>2. /\ \A i \in 1 .. depth : frames[i].slots < top /\ stack[frames[i].slots] = frames[i].fn
        /\ \A i, j \in 1 .. depth : i < j => frames[i].slots < frames[j].slots
    BY <1>4 DEF Stacked
  <2> QED BY <1>1, <2>1, <2>2 DEF Stacked
<1>8. TypedNow'
  BY <1>1, <1>4, <1>6 DEF TypedNow, Typed, Moved
<1>9. /\ status' = "returned" /\ UNCHANGED <<runs, host>>
  BY <1>1 DEF Quit
<1>10. Calm'
  <2>1. handlers' = <<>> /\ depth' <= runs'
    BY <1>1, <1>3, <1>5, <1>9
  <2> QED BY <1>7, <2>1 DEF Calm
<1>11. Spared
  BY <1>1 DEF Spared
<1> QED BY <1>2, <1>3, <1>5, <1>8, <1>9, <1>10, <1>11 DEF Outcome

LEMMA ExecuteOutcome ==
  ASSUME Sound, FunctionsCalled, NEW b, b <= runs, runs \in Nat, NEW off, Base(b, off), Execute
  PROVE  Outcome(b)
<1>1. CASE CallOther
  BY <1>1, AbortOutcome DEF CallOther
<1> QED BY <1>1, DataOutcome, OperatorsOutcome, TryOutcome, JumpOutcome, CallFunctionOutcome,
           CallNativeOutcome, ReturnOutcome, HaltOutcome DEF Execute, Control
-----------------------------------------------------------------------------
(***************************************************************************)
(* Between the runs                                                        *)
(***************************************************************************)
\* The hosts the argument is for: none goes on, on the VM as a failed run left it, and
\* there are frames for the scripts that have ended.
HostsReset == "embed" \notin DOMAIN Given /\ RunsMax <= FramesMax

\* Who starts the next run without resetting the VM first finds it calm.
ReadyCalm ==
  \/ status = "returned" /\ result = "OK" /\ host = "repl"
  \/ status = "idle" /\ (host = "repl" \/ runs = 0)

IInv ==
  /\ TypedNow /\ runs \in 0 .. RunsMax /\ host \in DOMAIN Given
  /\ status \in {"idle", "running", "returned", "exited"} /\ (runs = 0 => status = "idle")
  /\ status = "running" => \E b, off : b <= runs /\ Base(b, off)
  /\ ReadyCalm => Calm

LEMMA InitIInv ==
  ASSUME Init
  PROVE  IInv
<1>1. /\ StackMax \in Nat \ {0} /\ FramesMax \in Nat \ {0} /\ TryMax \in Nat /\ RunsMax \in Nat
  BY VMAssumption DEF VMAssumption
<1>2. IsStack(stack)
  BY DEF Init, IsStack
<1>3. frames \in [1 .. FramesMax -> FrameSet]
  BY DEF Init, Unused, FrameSet
<1>4. handlers \in Seq(HandlerSet) /\ Len(handlers) <= TryMax /\ handlers = <<>>
  BY <1>1 DEF Init
<1>5. top = 0 /\ depth = 0 /\ runs = 0 /\ status = "idle" /\ host \in DOMAIN Given
  BY DEF Init
<1>6. Stacked(stack, top, frames, depth)
  BY <1>5 DEF Stacked
<1> QED BY <1>1, <1>2, <1>3, <1>4, <1>5, <1>6 DEF IInv, TypedNow, Typed, Calm, ReadyCalm

\* What a run starts from, the host having reset the VM or found it calm.
LEMMA StartStep ==
  ASSUME Sound,
         NEW s \in DOMAIN Code, Code[s].ok,
         IsStack(stack), frames \in [1 .. FramesMax -> FrameSet],
         NEW t \in 0 .. StackMax - 1, NEW d \in 0 .. FramesMax - 1, Stacked(stack, t, frames, d),
         stack' = [stack EXCEPT ![t] = ScriptFunction(s)],
         frames' = [frames EXCEPT ![d + 1] = [fn |-> ScriptFunction(s), ip |-> 1, slots |-> t]],
         top' = t + 1, depth' = d + 1, handlers' = <<>>
  PROVE  \E off : Base(d + 1, off)'
<1>1. StackMax \in Nat /\ FramesMax \in Nat /\ TryMax \in Nat /\ d + 1 \in 1 .. FramesMax
  BY VMAssumption DEF VMAssumption
<1>2. PICK f : f = ScriptFunction(s)
  OBVIOUS
<1>3. f \in Known /\ Main(f)
  <2>1. Len(Code[s].fns) \in Nat \ {0}
    BY DEF Sound, SoundScript
  <2>2. Len(Code[s].fns) \in 1 .. Len(Code[s].fns)
    BY <2>1
  <2>3. f = Fn(s, Len(Code[s].fns)) /\ f[2] = s /\ f[3] = Len(Code[s].fns)
    BY <1>2 DEF ScriptFunction, Fn
  <2>4. f \in {Fn(s, k) : k \in 1 .. Len(Code[s].fns)}
    BY <2>2, <2>3
  <2>5. f \in Known
    BY <2>4 DEF Known
  <2> QED BY <2>3, <2>5 DEF Main
<1>4. /\ Placed(f, 1) /\ PlaceOf(f, 1).height = 1 /\ PlaceOf(f, 1).open = <<>>
  BY <1>3, Entry
<1>5. PICK r : r = [fn |-> f, ip |-> 1, slots |-> t]
  OBVIOUS
<1>6. r \in FrameSet /\ r.fn = f /\ r.ip = 1 /\ r.slots = t
  BY <1>3, <1>5 DEF FrameSet
<1>7. frames' = [i \in 1 .. FramesMax |-> IF i = d + 1 THEN r ELSE frames[i]]
  BY <1>2, <1>5
<1>8. /\ frames' \in [1 .. FramesMax -> FrameSet] /\ frames'[d + 1] = r
      /\ \A i \in 1 .. d : frames'[i] = frames[i]
  BY <1>1, <1>6, <1>7
<1>9. /\ IsStack(stack') /\ stack'[t] = f /\ \A c \in 0 .. t - 1 : stack'[c] = stack[c]
  <2>1. stack = [c \in 0 .. StackMax - 1 |-> stack[c]]
    BY DEF IsStack
  <2>2. stack' = [c \in 0 .. StackMax - 1 |-> IF c = t THEN f ELSE stack[c]]
    BY <1>2, <2>1
  <2>3. stack'[t] = f
    BY <2>2
  <2> QED BY <2>3, Writing
<1>10. Typed(stack', t + 1, frames', d + 1, <<>>)
  BY <1>1, <1>8, <1>9 DEF Typed
<1>11. Stacked(stack', t + 1, frames', d + 1)
  <2>1. ASSUME NEW i \in 1 .. d
        PROVE  /\ frames'[i].slots \in Nat /\ frames'[i].slots < t
               /\ stack'[frames'[i].slots] = frames'[i].fn
    <3>1. i \in 1 .. FramesMax
      BY <1>1
    <3>2. frames[i].slots \in Nat
      BY <3>1 DEF FrameSet
    <3>3. frames[i].slots < t /\ stack[frames[i].slots] = frames[i].fn
      BY DEF Stacked
    <3> QED BY <1>8, <1>9, <3>2, <3>3
  <2>2. ASSUME NEW i \in 1 .. d + 1
        PROVE  frames'[i].slots < t + 1 /\ stack'[frames'[i].slots] = frames'[i].fn
    <3>1. i = d + 1 \/ i \in 1 .. d
      OBVIOUS
    <3> QED BY <1>6, <1>8, <1>9, <2>1, <3>1
  <2>3. ASSUME NEW i \in 1 .. d + 1, NEW j \in 1 .. d + 1, i < j
        PROVE  frames'[i].slots < frames'[j].slots
    <3>1. i \in 1 .. d /\ (j = d + 1 \/ j \in 1 .. d)
      BY <2>3
    <3>2. \A k, l \in 1 .. d : k < l => frames[k].slots < frames[l].slots
      BY DEF Stacked
    <3> QED BY <1>6, <1>8, <2>1, <2>3, <3>1, <3>2
  <2> QED BY <2>2, <2>3 DEF Stacked
<1>12. PlaceIn(frames', d + 1) = PlaceOf(f, 1)
  BY <1>6, <1>8 DEF PlaceIn
<1>13. Aligned(t + 1, frames', d + 1, d + 1)
  <2>1. d + 1 \in 1 .. d + 1 /\ (d + 1) .. (d + 1) = {d + 1} /\ (d + 1) .. (d + 1) - 1 = {}
    OBVIOUS
  <2>2. frames'[d + 1].fn \in Known /\ Placed(frames'[d + 1].fn, frames'[d + 1].ip)
        /\ Main(frames'[d + 1].fn) /\ t + 1 = frames'[d + 1].slots + PlaceIn(frames', d + 1).height
    BY <1>3, <1>4, <1>6, <1>8, <1>12
  <2> QED BY <2>1, <2>2 DEF Aligned
<1>14. PICK off : off = [i \in d + 1 .. d + 2 |-> 0]
  OBVIOUS
<1>15. Guarded(frames', d + 1, <<>>, d + 1, off)
  <2>1. (d + 1) + 1 = d + 2 /\ d + 1 \in d + 1 .. d + 2 /\ d + 2 \in d + 1 .. d + 2
    OBVIOUS
  <2>2. off \in [d + 1 .. (d + 1) + 1 -> Nat] /\ off[d + 1] = 0 /\ off[d + 2] = 0
    BY <1>14, <2>1
  <2>3. Len(PlaceIn(frames', d + 1).open) = 0
    BY <1>4, <1>12
  <2>4. \A i, j \in d + 1 .. (d + 1) + 1 : off[i] <= off[j]
    BY <1>14, <2>1
  <2>5. \A i \in d + 1 .. d + 1 : i = d + 1
    OBVIOUS
  <2>6. PICK hs : hs = <<>>
    OBVIOUS
  <2>7. Len(hs) = 0
    BY <2>6
  <2>8. ASSUME NEW i \in d + 1 .. d + 1
        PROVE  /\ off[i + 1] = off[i] + Len(PlaceIn(frames', i).open)
               /\ \A m \in 1 .. Len(PlaceIn(frames', i).open) : hs[off[i] + m] = HandlerOf(frames', i, m)
    <3>1. i = d + 1 /\ i + 1 = d + 2
      BY <1>1, <2>5
    <3>2. Len(PlaceIn(frames', i).open) = 0
      BY <2>3, <3>1
    <3>3. off[i + 1] = 0 /\ off[i] = 0
      BY <2>2, <3>1
    <3>4. \A m \in 1 .. Len(PlaceIn(frames', i).open) : FALSE
      BY <3>2
    <3>5. off[i + 1] = off[i] + Len(PlaceIn(frames', i).open)
      BY <3>2, <3>3
    <3> QED BY <3>4, <3>5
  <2>9. \A j \in 1 .. Len(hs) : FALSE
    BY <2>7
  <2>10. off[(d + 1) + 1] = Len(hs)
    BY <2>1, <2>2, <2>7
  <2>11. Guarded(frames', d + 1, hs, d + 1, off)
    BY <2>2, <2>4, <2>8, <2>9, <2>10 DEF Guarded
  <2> QED BY <2>6, <2>11
<1>16. Base(d + 1, off)'
  BY <1>10, <1>11, <1>13, <1>15 DEF Base, Stands
<1> QED BY <1>16

LEMMA StartRunIInv ==
  ASSUME IInv, HostsReset, Ready, NEW s \in Scripts, StartRun(s), Sound
  PROVE  IInv'
<1>a. PICK t : t = IF Fresh THEN 0 ELSE top
  OBVIOUS
<1>b. PICK d : d = IF Fresh THEN 0 ELSE depth
  OBVIOUS
<1>1. /\ StackMax \in Nat \ {0} /\ FramesMax \in Nat \ {0} /\ RunsMax \in Nat
      /\ DOMAIN Given \subseteq {"file", "repl", "test", "embed"}
      /\ Given[host] \subseteq DOMAIN Code
  BY VMAssumption DEF VMAssumption, IInv
<1>2. /\ TypedNow /\ runs \in Nat /\ host \in {"file", "repl", "test"}
      /\ status = "idle" /\ runs < RunsMax /\ (host = "file" => runs = 0)
  BY <1>1 DEF IInv, HostsReset, Ready, RunsLeft
<1>3. /\ IsStack(stack) /\ top \in 0 .. StackMax /\ depth \in 0 .. FramesMax
      /\ frames \in [1 .. FramesMax -> FrameSet]
      /\ handlers \in Seq(HandlerSet) /\ Len(handlers) <= TryMax
  BY <1>2 DEF TypedNow, Typed
<1>4. ~Fresh => Calm
  BY <1>2 DEF Fresh, IInv, ReadyCalm
<1>5. handlers' = <<>> /\ Stacked(stack, t, frames, d) /\ d \in 0 .. runs
  <2>1. handlers' = HandlersAtStart
    BY DEF StartRun
  <2>2. CASE Fresh
    BY <1>a, <1>b, <1>2, <2>1, <2>2 DEF HandlersAtStart, Stacked
  <2>3. CASE ~Fresh
    BY <1>a, <1>b, <1>3, <1>4, <2>1, <2>3 DEF HandlersAtStart, Calm
  <2> QED BY <2>2, <2>3
<1>6. d \in 0 .. FramesMax - 1
  <2>1. RunsMax <= FramesMax /\ runs \in Nat /\ runs < RunsMax
    BY <1>2 DEF HostsReset
  <2>2. RunsMax \in Nat /\ FramesMax \in Nat
    BY <1>1
  <2> QED BY <1>5, <2>1, <2>2
<1>7. /\ runs' = runs + 1 /\ host' = host /\ Code[s].ok /\ s \in DOMAIN Code
  BY <1>1 DEF StartRun, NextRun, Scripts
<1>8. TryMax \in Nat /\ t \in 0 .. StackMax
  BY <1>a, <1>1, <1>3, VMAssumption DEF VMAssumption
<1>9. CASE t >= StackMax
  <2>1. status' = "exited" /\ top' = t /\ depth' = d /\ UNCHANGED <<stack, frames>>
    BY <1>a, <1>b, <1>9 DEF StartRun
  <2>2. TypedNow'
    BY <1>1, <1>3, <1>5, <1>6, <1>8, <2>1 DEF TypedNow, Typed
  <2>3. runs' \in 0 .. RunsMax /\ host' \in DOMAIN Given /\ runs' # 0
    BY <1>1, <1>2, <1>7 DEF IInv
  <2> QED BY <2>1, <2>2, <2>3 DEF IInv, ReadyCalm
<1>10. CASE ~(t >= StackMax)
  <2>1. ~(d >= FramesMax)
    BY <1>1, <1>6
  <2>2. /\ status' = "running" /\ stack' = [stack EXCEPT ![t] = ScriptFunction(s)]
        /\ top' = t + 1 /\ depth' = d + 1
        /\ frames' = [frames EXCEPT ![d + 1] = [fn |-> ScriptFunction(s), ip |-> 1, slots |-> t]]
    BY <1>a, <1>b, <1>10, <2>1 DEF StartRun
  <2>3. t \in 0 .. StackMax - 1
    BY <1>1, <1>8, <1>10
  <2>5. \E off : Base(d + 1, off)'
    BY <1>3, <1>5, <1>6, <1>7, <2>2, <2>3, StartStep
  <2>6. TypedNow'
    BY <2>5, StandingTyped
  <2>7. runs' \in 0 .. RunsMax /\ host' \in DOMAIN Given /\ runs' # 0 /\ d + 1 <= runs'
    BY <1>1, <1>2, <1>5, <1>7 DEF IInv
  <2>8. \E b, off : b <= runs' /\ Base(b, off)'
    BY <2>5, <2>7
  <2> QED BY <2>2, <2>6, <2>7, <2>8 DEF IInv, ReadyCalm
<1> QED BY <1>9, <1>10
\* Instructions are executed in a run.
LEMMA Executing ==
  ASSUME Execute
  PROVE  status = "running"
BY DEF Execute, Data, Operators, Control, At, AtAny,
       Const, PushNil, PushTrue, PushFalse, Pop, GetLocal, SetLocal, DefineGlobal, GetGlobal,
       SetGlobal, ArithmeticOp, DivisionOp, ComparisonOp, Negate, Not, Equal, NotEqual, Concat,
       PrintTop, BuildArray, GetIndex, SetIndexOp, TryBlock, TryEnd, Jump, JumpIfFalse,
       CallFunction, CallNative, CallOther, ReturnOp, Halt

LEMMA NextIInv ==
  ASSUME IInv, Sound, HostsReset, FunctionsCalled, [Next]_vars
  PROVE  IInv'
<1>1. /\ StackMax \in Nat \ {0} /\ FramesMax \in Nat \ {0} /\ TryMax \in Nat /\ RunsMax \in Nat
  BY VMAssumption DEF VMAssumption
<1>2. TypedNow /\ runs \in Nat /\ runs <= RunsMax /\ host \in DOMAIN Given
  BY <1>1 DEF IInv
<1>3. CASE Execute
  <2>1. status = "running"
    BY <1>3, Executing
  <2>2. PICK b, off : b <= runs /\ Base(b, off)
    BY <2>1 DEF IInv
  <2>3. Outcome(b)
    BY <1>2, <1>3, <2>2, ExecuteOutcome
  <2>4. TypedNow' /\ UNCHANGED <<runs, host>> /\ runs # 0
    <3>1. b \in 1 .. depth
      BY <2>2, Granted
    <3> QED BY <1>2, <2>2, <2>3, <3>1 DEF Outcome
  <2>5. CASE status' = "running" /\ \E on : Base(b, on)'
    <3>1. \E c, on : c <= runs' /\ Base(c, on)'
      BY <2>2, <2>4, <2>5
    <3> QED BY <2>4, <2>5, <3>1 DEF IInv, ReadyCalm
  <2>6. CASE status' = "returned" /\ (result' = "OK" => Calm')
    BY <2>4, <2>6 DEF IInv, ReadyCalm
  <2>7. CASE status' = "exited"
    BY <2>4, <2>7 DEF IInv, ReadyCalm
  <2> QED BY <2>3, <2>5, <2>6, <2>7 DEF Outcome
<1>4. ASSUME Reset, UNCHANGED <<stack, frames>> PROVE TypedNow' /\ (runs' \in Nat => Calm')
  <2>1. top' = 0 /\ depth' = 0 /\ handlers' = <<>> /\ UNCHANGED <<stack, frames>>
    BY <1>4 DEF Reset
  <2>2. IsStack(stack') /\ frames' \in [1 .. FramesMax -> FrameSet]
    BY <1>2, <2>1 DEF TypedNow, Typed
  <2>3. handlers' \in Seq(HandlerSet) /\ Len(handlers') = 0
    BY <2>1
  <2>4. TypedNow'
    BY <1>1, <2>1, <2>2, <2>3 DEF TypedNow, Typed
  <2>5. runs' \in Nat => Calm'
    BY <2>1 DEF Calm, Stacked
  <2> QED BY <2>4, <2>5
<1>5. ASSUME UNCHANGED machine PROVE TypedNow' /\ (Calm /\ (runs' = runs \/ runs' = runs + 1) => Calm')
  <2>1. UNCHANGED <<stack, top, frames, depth, handlers>>
    BY <1>5 DEF machine
  <2>2. TypedNow'
    BY <1>2, <2>1 DEF TypedNow
  <2>3. ASSUME Calm, runs' = runs \/ runs' = runs + 1 PROVE Calm'
    <3>1. depth \in Nat
      BY <1>1, <1>2 DEF TypedNow, Typed
    <3>2. depth <= runs'
      BY <1>2, <2>3, <3>1 DEF Calm
    <3> QED BY <2>1, <2>3, <3>2 DEF Calm
  <2> QED BY <2>2, <2>3
<1>6. CASE TakeResult
  <2>1. status = "returned" /\ status' = "idle" /\ UNCHANGED <<stack, frames, result, runs, host>>
    BY <1>6 DEF TakeResult
  <2>2. CASE host = "repl" /\ result # "OK"
    <3>1. Reset
      BY <1>6, <2>2 DEF TakeResult
    <3> QED BY <1>2, <1>4, <2>1, <3>1 DEF IInv
  <2>3. CASE ~(host = "repl" /\ result # "OK")
    <3>1. UNCHANGED machine
      BY <1>6, <2>3 DEF TakeResult, machine
    <3>2. TypedNow'
      BY <1>5, <3>1
    <3>3. ReadyCalm' => Calm'
      <4>1. runs # 0
        BY <2>1 DEF IInv
      <4> QED BY <1>5, <2>1, <2>3, <3>1, <4>1 DEF IInv, ReadyCalm
    <3> QED BY <1>2, <2>1, <3>2, <3>3 DEF IInv
  <2> QED BY <2>2, <2>3
<1>7. ASSUME Ready, NEW s \in Scripts, RejectScript(s) PROVE IInv'
  <2>1. /\ status = "idle" /\ status' = "idle" /\ runs < RunsMax
        /\ runs' = runs + 1 /\ host' = host /\ UNCHANGED <<stack, frames>>
    <3>1. runs < RunsMax
      BY <1>1, <1>2, <1>7 DEF Ready, RunsLeft
    <3> QED BY <1>7, <3>1 DEF RejectScript, Ready, NextRun
  <2>2. runs' \in 0 .. RunsMax /\ runs' # 0
    BY <1>1, <1>2, <2>1
  <2>3. CASE host = "test"
    <3>1. TypedNow'
      BY <1>4, <1>7, <2>1, <2>3 DEF RejectScript
    <3> QED BY <1>2, <2>1, <2>2, <2>3, <3>1 DEF IInv, ReadyCalm
  <2>4. CASE host # "test"
    <3>1. UNCHANGED machine
      BY <1>7, <2>4 DEF RejectScript, machine
    <3>2. TypedNow'
      BY <1>5, <3>1
    <3>3. ReadyCalm' => Calm'
      BY <1>5, <2>1, <2>2, <3>1 DEF IInv, ReadyCalm
    <3> QED BY <1>2, <2>1, <2>2, <3>2, <3>3 DEF IInv
  <2> QED BY <2>3, <2>4
<1>8. CASE UNCHANGED vars
  <2>1. /\ UNCHANGED <<stack, top, frames, depth, handlers>>
        /\ UNCHANGED <<status, result, runs, host>>
    BY <1>8 DEF vars, machine, session
  <2> QED BY <2>1 DEF IInv, TypedNow, ReadyCalm, Calm, Base
<1> QED BY <1>3, <1>6, <1>7, <1>8, StartRunIInv DEF Next, Rest

-----------------------------------------------------------------------------
(***************************************************************************)
(* What the properties say of frames that stand                            *)
(***************************************************************************)
\* What the handlers of the open trys keep, and that they are in order.
LEMMA HandlersInOrder ==
  ASSUME Sound, NEW b, NEW off, Base(b, off), NEW j \in 1 .. Len(handlers)
  PROVE  LET h == handlers[j]
         IN /\ h.frames \in 1 .. depth
            /\ frames[h.frames].slots < h.top
            /\ h.top <= (IF h.frames = depth THEN top ELSE frames[h.frames + 1].slots)
            /\ j > 1 => handlers[j - 1].frames <= h.frames /\ handlers[j - 1].top <= h.top
<1>0. /\ Stands(stack, top, frames, depth, handlers, b, off)
      /\ Stacked(stack, top, frames, depth) /\ Aligned(top, frames, depth, b)
      /\ Guarded(frames, depth, handlers, b, off)
  BY DEF Base, Stands
<1>1. /\ b \in Nat /\ depth \in Nat /\ 1 <= b /\ b <= depth /\ depth <= FramesMax /\ FramesMax \in Nat
      /\ frames \in [1 .. FramesMax -> FrameSet] /\ handlers \in Seq(HandlerSet)
      /\ top = frames[depth].slots + PlaceIn(frames, depth).height
  BY <1>0, Innermost
<1>2. Len(handlers) \in Nat
  BY <1>1
\* A handler is that of an open try of its frame.
<1>3. ASSUME NEW k \in 1 .. Len(handlers)
      PROVE  /\ handlers[k].frames \in b .. depth /\ handlers[k].top \in Nat
             /\ off[handlers[k].frames] \in Nat
             /\ \E m \in 1 .. Len(PlaceIn(frames, handlers[k].frames).open) :
                  /\ k = off[handlers[k].frames] + m
                  /\ handlers[k] = HandlerOf(frames, handlers[k].frames, m)
  <2>1. PICK q : q = handlers[k].frames
    OBVIOUS
  <2>2. q \in b .. depth /\ off[q] < k /\ k <= off[q + 1]
    BY <1>0, <2>1 DEF Guarded
  <2>3. /\ off[q] \in Nat /\ off[q + 1] = off[q] + Len(PlaceIn(frames, q).open)
        /\ \A m \in 1 .. Len(PlaceIn(frames, q).open) : handlers[off[q] + m] = HandlerOf(frames, q, m)
    BY <1>0, <1>1, <2>2 DEF Guarded
  <2>4. PICK m \in Nat : m = k - off[q]
    BY <2>2, <2>3
  <2>5. Len(PlaceIn(frames, q).open) \in Nat
    <3>1. frames[q].fn \in Known /\ Placed(frames[q].fn, frames[q].ip)
      BY <1>0, <2>2 DEF Aligned
    <3>2. PlaceIn(frames, q).open \in Seq(Trys)
      BY <3>1, FloorHeight DEF PlaceIn
    <3> QED BY <3>2
  <2>6. m \in 1 .. Len(PlaceIn(frames, q).open) /\ k = off[q] + m
    BY <2>2, <2>3, <2>4, <2>5, SMTT(30)
  <2>7. handlers[k] = HandlerOf(frames, q, m)
    BY <2>3, <2>6
  <2>8. handlers[k].top \in Nat
    <3>1. handlers[k] \in HandlerSet
      BY <1>1
    <3> QED BY <3>1 DEF HandlerSet
  <2> QED BY <2>1, <2>2, <2>3, <2>6, <2>7, <2>8
\* What it keeps lies in its frame.
<1>4. ASSUME NEW k \in 1 .. Len(handlers)
      PROVE  /\ frames[handlers[k].frames].slots < handlers[k].top
             /\ handlers[k].top <= (IF handlers[k].frames = depth
                                      THEN top ELSE frames[handlers[k].frames + 1].slots)
  <2>1. PICK q \in b .. depth : q = handlers[k].frames
    BY <1>3
  <2>2. PICK m \in 1 .. Len(PlaceIn(frames, q).open) : handlers[k] = HandlerOf(frames, q, m)
    BY <1>3, <2>1
  <2>3. PICK at : at = PlaceIn(frames, q)
    OBVIOUS
  <2>4. frames[q].fn \in Known /\ Placed(frames[q].fn, frames[q].ip) /\ frames[q].slots \in Nat
    BY <1>0, <1>1 DEF Aligned, FrameSet
  <2>5. /\ at.height \in Nat /\ Floor(at) \in Nat /\ Floor(at) <= at.height
        /\ at.open[m] \in Trys /\ 1 <= at.open[m].height /\ at.open[m].height <= Floor(at)
    BY <2>2, <2>3, <2>4, FloorHeight DEF PlaceIn
  <2>6. PICK x \in Nat : x = at.open[m].height
    BY <2>5 DEF Trys
  <2>7. handlers[k].top = frames[q].slots + x /\ 1 <= x /\ x <= Floor(at)
    BY <2>2, <2>3, <2>5, <2>6 DEF HandlerOf
  <2>8. frames[q].slots < handlers[k].top
    BY <2>4, <2>7
  <2>9. CASE q = depth
    <3>1. top = frames[q].slots + at.height
      BY <1>1, <2>3, <2>9
    <3>2. handlers[k].top <= top
      BY <2>4, <2>5, <2>7, <3>1
    <3> QED BY <2>1, <2>8, <2>9, <3>2
  <2>10. CASE q \in b .. depth - 1
    <3>1. frames[q + 1].slots = frames[q].slots + at.height - 1 /\ Floor(at) < at.height
      BY <1>0, <2>3, <2>10 DEF Aligned
    <3>2. handlers[k].top <= frames[q + 1].slots
      BY <2>4, <2>5, <2>7, <3>1
    <3> QED BY <1>1, <2>1, <2>8, <2>10, <3>2
  <2> QED BY <1>1, <2>9, <2>10
<1>5. ASSUME j > 1
      PROVE  handlers[j - 1].frames <= handlers[j].frames /\ handlers[j - 1].top <= handlers[j].top
  <2>1. j - 1 \in 1 .. Len(handlers)
    BY <1>2, <1>5
  <2>2. PICK q \in b .. depth : q = handlers[j].frames
    BY <1>3
  <2>3. PICK p \in b .. depth : p = handlers[j - 1].frames
    BY <1>3, <2>1
  <2>4. PICK m \in 1 .. Len(PlaceIn(frames, q).open) :
          j = off[q] + m /\ handlers[j] = HandlerOf(frames, q, m)
    BY <1>3, <2>2
  <2>5. PICK l \in 1 .. Len(PlaceIn(frames, p).open) :
          j - 1 = off[p] + l /\ handlers[j - 1] = HandlerOf(frames, p, l)
    BY <1>3, <2>1, <2>3
  <2>6. off[p] \in Nat /\ off[q] \in Nat /\ l \in Nat /\ m \in Nat /\ 1 <= l /\ 1 <= m
    BY <1>3, <2>1, <2>2, <2>3
  <2>7. p <= q
    <3>1. SUFFICES ASSUME q < p PROVE FALSE
      BY <1>1
    <3>2. q + 1 <= p /\ q + 1 \in b .. depth + 1 /\ p \in b .. depth + 1
      BY <1>1, <3>1
    <3>3. off[q + 1] <= off[p] /\ off[q + 1] \in Nat
      BY <1>0, <3>2 DEF Guarded
    <3>4. j <= off[q + 1]
      BY <1>0, <2>2 DEF Guarded
    <3> QED BY <2>5, <2>6, <3>3, <3>4
  <2>8. handlers[j].top \in Nat /\ handlers[j - 1].top \in Nat
    BY <1>3, <2>1
  <2>9. CASE p = q
    <3>1. l \in 1 .. m
      BY <2>4, <2>5, <2>6, <2>9
    <3>2. frames[q].fn \in Known /\ Placed(frames[q].fn, frames[q].ip) /\ frames[q].slots \in Nat
      BY <1>0, <1>1, SMTT(30) DEF Aligned, FrameSet
    <3>3. PICK o : o = PlaceIn(frames, q).open
      OBVIOUS
    <3>4. o[l].height <= o[m].height /\ o[m] \in Trys /\ o[l] \in Trys
      BY <2>4, <2>5, <2>9, <3>1, <3>2, <3>3, FloorHeight DEF PlaceIn
    <3>5. PICK x \in Nat : x = o[l].height
      BY <3>4 DEF Trys
    <3>6. PICK y \in Nat : y = o[m].height
      BY <3>4 DEF Trys
    <3>7. handlers[j - 1].top = frames[q].slots + x /\ handlers[j].top = frames[q].slots + y
      BY <2>4, <2>5, <2>9, <3>3, <3>5, <3>6 DEF HandlerOf
    <3>8. x <= y
      BY <3>4, <3>5, <3>6
    <3>9. handlers[j - 1].top <= handlers[j].top
      BY <3>2, <3>7, <3>8
    <3> QED BY <2>2, <2>3, <2>7, <3>9
  <2>10. CASE p < q
    <3>1. p # depth /\ p + 1 \in 1 .. depth /\ q \in 1 .. depth
      BY <1>1, <2>10
    <3>2. handlers[j - 1].top <= frames[p + 1].slots
      BY <1>4, <2>1, <2>3, <3>1
    <3>3. frames[p + 1].slots \in Nat /\ frames[q].slots \in Nat
      BY <1>1, <3>1, SMTT(30) DEF FrameSet
    <3>4. frames[p + 1].slots <= frames[q].slots
      <4>1. CASE p + 1 = q
        BY <3>3, <4>1
      <4>2. CASE p + 1 < q
        BY <1>0, <3>1, <3>3, <4>2 DEF Stacked
      <4> QED BY <2>10, <4>1, <4>2
    <3>5. frames[q].slots < handlers[j].top
      BY <1>4, <2>2
    <3>6. PICK x \in Nat : x = handlers[j - 1].top
      BY <2>8
    <3>7. PICK y \in Nat : y = handlers[j].top
      BY <2>8
    <3>8. x <= frames[q].slots /\ frames[q].slots < y
      BY <3>2, <3>3, <3>4, <3>5, <3>6, <3>7, SMTT(30)
    <3>9. x <= y
      BY <3>3, <3>8
    <3> QED BY <2>2, <2>3, <2>7, <3>6, <3>7, <3>9
  <2> QED BY <2>7, <2>9, <2>10
<1> QED
  <2>1. handlers[j].frames \in 1 .. depth
    BY <1>1, <1>3
  <2> QED BY <1>4, <1>5, <2>1
LEMMA StandingProperties ==
  ASSUME Sound, NEW b, b <= runs, runs \in Nat, NEW off, Base(b, off)
  PROVE  FramesStacked /\ LocalsLive /\ HandlersLive /\ NothingLeft
<1>1. /\ Suffices(ins, PlaceNow, depth = b) /\ PlaceNow.height \in Nat
      /\ frame.slots \in Nat /\ top = frame.slots + PlaceNow.height /\ top \in Nat
      /\ depth \in 1 .. FramesMax /\ FramesMax \in Nat
      /\ frame.ip \in DOMAIN FunctionOf(frame.fn).code
  BY Granted
<1>2. /\ Stacked(stack, top, frames, depth) /\ handlers \in Seq(HandlerSet)
      /\ Stands(stack, top, frames, depth, handlers, b, off)
  BY DEF Base, Stands, Typed
<1>3. FramesStacked
  <2>1. ASSUME NEW i \in 1 .. depth
        PROVE  /\ stack[frames[i].slots] = frames[i].fn
               /\ frames[i].slots < (IF i = depth THEN top ELSE frames[i + 1].slots)
    <3>1. i # depth => i + 1 \in 1 .. depth /\ i < i + 1
      BY <1>1
    <3> QED BY <1>2, <3>1 DEF Stacked
  <2> QED BY <1>1, <2>1 DEF FramesStacked, Current
<1>4. LocalsLive
  <2>1. ASSUME ins[1] \in {"GET_LOCAL", "SET_LOCAL"} PROVE frame.slots + ins[2] < top
    <3>1. ins[2] \in 1 .. PlaceNow.height - 1
      BY <1>1, <2>1 DEF Suffices
    <3> QED BY <1>1, <3>1
  <2> QED BY <1>1, <2>1 DEF LocalsLive
<1>5. HandlersLive
  <2>1. DOMAIN handlers = 1 .. Len(handlers)
    BY <1>2
  <2> QED BY <2>1, HandlersInOrder DEF HandlersLive, Current
<1>6. NothingLeft
  <2>1. ASSUME At("HALT") PROVE top = frame.slots + 1 /\ handlers = <<>>
    <3>1. depth = b /\ PlaceNow.open = <<>> /\ PlaceNow.height = 1
      BY <1>1, <2>1 DEF Suffices, At
    <3>2. Len(handlers) = off[depth] + Len(PlaceNow.open)
      BY <1>2, Innermost DEF PlaceNow
    <3>3. off[b] = 0
      BY <1>2 DEF Stands, Guarded
    <3>4. Len(handlers) = 0
      BY <3>1, <3>2, <3>3
    <3> QED BY <1>1, <1>2, <3>1, <3>4
  <2> QED BY <2>1 DEF NothingLeft
<1> QED BY <1>3, <1>4, <1>5, <1>6

LEMMA InvariantProperties ==
  ASSUME Sound, IInv
  PROVE  /\ FramesStacked /\ LocalsLive /\ HandlersLive /\ NothingLeft
         /\ StackBounded /\ TablesBounded
<1>1. StackBounded
  BY DEF IInv, TypedNow, Typed, StackBounded
<1>2. TablesBounded
  <2>1. depth \in 0 .. FramesMax /\ Len(handlers) <= TryMax /\ handlers \in Seq(HandlerSet)
    BY DEF IInv, TypedNow, Typed
  <2>2. \A i \in DOMAIN handlers : handlers[i] \in HandlerSet
    BY <2>1
  <2> QED BY <2>1, <2>2 DEF TablesBounded, HandlerSet
<1>3. CASE status = "running"
  <2>1. PICK b, off : b <= runs /\ Base(b, off)
    BY <1>3 DEF IInv
  <2>2. runs \in Nat
    BY VMAssumption DEF IInv, VMAssumption
  <2> QED BY <1>1, <1>2, <2>1, <2>2, StandingProperties
<1>4. CASE status # "running"
  BY <1>1, <1>2, <1>4 DEF FramesStacked, LocalsLive, HandlersLive, NothingLeft, At
<1> QED BY <1>3, <1>4

LEMMA StepSpares ==
  ASSUME Sound, FunctionsCalled, IInv, Next, status = "running"
  PROVE  Spared
<1>1. PICK b, off : b <= runs /\ Base(b, off)
  BY DEF IInv
<1>2. runs \in Nat
  BY VMAssumption DEF IInv, VMAssumption
<1>3. CASE Execute
  BY <1>1, <1>2, <1>3, ExecuteOutcome DEF Outcome
<1>4. CASE ~Execute
  BY <1>4 DEF Next, TakeResult, Ready, Rest
<1> QED BY <1>3, <1>4
=============================================================================
