--------------------------------- MODULE VM ---------------------------------
(***************************************************************************)
(* vm.c: runVM, one action for each group of opcodes, and the hosts that   *)
(* call it: the file runner once on a fresh VM, and over and over on one   *)
(* VM the REPL, the test runner and a program that embeds Nolqu.  The      *)
(* stack and the frames are the arrays of the struct: what is above their  *)
(* tops is still there, and an error handler that outlives its frame       *)
(* brings it back.                                                         *)
(***************************************************************************)
EXTENDS Natives
LOCAL INSTANCE SequencesExt

CONSTANTS
  Code,          \* Code[s]: what `Compile` makes of script s
  Given,         \* Given[h]: the scripts host h has, "file", "repl", "test" or "embed"
  RunsMax,       \* bound: the number of runs of a behaviour
  StackMax,      \* NQ_STACK_MAX
  FramesMax,     \* NQ_FRAMES_MAX
  TryMax         \* NQ_TRY_MAX

ASSUME VMAssumption ==
  /\ DOMAIN Given \subseteq {"file", "repl", "test", "embed"}
  /\ \A h \in DOMAIN Given : Given[h] \subseteq DOMAIN Code
  /\ StackMax \in Nat \ {0} /\ FramesMax \in Nat \ {0} /\ TryMax \in Nat
  /\ RunsMax \in Nat


VARIABLES
  stack,     \* the values of vm->stack, above stack_top too
  top,       \* stack_top, as an index
  frames,    \* vm->frames
  depth,     \* frame_count
  handlers,  \* try_stack up to try_depth
  thrown,    \* the pending error, Nil when there is none
  globals,   \* the global table
  heap,      \* the items of each array, by identity
  files,     \* the text of each file
  out,       \* what the current run has printed
  status,    \* "idle", "running", "returned" to the host, "exited": exit(1)
  result,    \* what the last run returned
  script,    \* the script of the last run, <<>> before the first
  runs,      \* how many runs were started
  host       \* who calls runVM

machine == <<stack, top, frames, depth, handlers>>
world == <<globals, heap, files, out>>
session == <<status, result, script, runs, host>>
vars == <<machine, thrown, world, session>>

-----------------------------------------------------------------------------
(***************************************************************************)
(* The current frame and the instruction it is at                          *)
(***************************************************************************)
FunctionOf(f) == Code[f[2]].fns[f[3]]
ScriptFunction(s) == Fn(s, Len(Code[s].fns))
frame == frames[depth]
ins == FunctionOf(frame.fn).code[frame.ip]
\* READ_CONST: what the byte after the opcode stands for.
constant == FunctionOf(frame.fn).pool[ins[2] + 1]

\* peek: the value n below the top.
Peek(n) == stack[top - 1 - n]

At(op) == status = "running" /\ ins[1] = op
AtAny(ops) == status = "running" /\ ins[1] \in ops

\* Every instruction is read before it is executed.
Advanced == [frames EXCEPT ![depth].ip = @ + 1]
Advance == frames' = Advanced
JumpTo(target) == frames' = [frames EXCEPT ![depth].ip = target]

-----------------------------------------------------------------------------
(***************************************************************************)
(* push, and the ways a run ends                                           *)
(***************************************************************************)
Quit(how) == status' = "returned" /\ result' = how /\ UNCHANGED <<script, runs, host>>
Running == UNCHANGED session

\* exit(1) out of push: the process is gone.
ExitProcess ==
  /\ status' = "exited" /\ result' = "STACK_OVERFLOW"
  /\ UNCHANGED <<machine, thrown, world, script, runs, host>>

\* Pop n values and push v; frames and world are the caller's.
PopPush(n, v) ==
  /\ stack' = [stack EXCEPT ![top - n] = v]
  /\ top' = top - n + 1

\* Fault: the limit is tested one value late.
FaultyOverflows(n) == top - n > StackMax
Overflows(n) == top - n >= StackMax

\* An instruction that only pops n values and pushes v.
Operate(n, v) ==
  IF Overflows(n)
    THEN ExitProcess
    ELSE PopPush(n, v) /\ Advance /\ Running /\ UNCHANGED <<depth, handlers, thrown, world>>

\* An error no handler can catch: runVM returns and leaves all as it is.
Abort ==
  Advance /\ Quit("RUNTIME_ERROR") /\ UNCHANGED <<stack, top, depth, handlers, thrown, world>>

\* Fault: the error is stored but not pushed.
FaultyThrow(n, err) ==
  /\ thrown' = err
  /\ IF handlers = <<>>
       THEN /\ top' = top - n
            /\ Advance /\ Quit("RUNTIME_ERROR") /\ UNCHANGED <<stack, depth, handlers>>
       ELSE LET h == Last(handlers)
            IN /\ handlers' = Front(handlers)
               /\ stack' = [stack EXCEPT ![h.top] = err]
               /\ top' = h.top
               /\ depth' = h.frames
               /\ frames' = [Advanced EXCEPT ![h.frames].ip = h.catch]
               /\ Running

(***************************************************************************)
(* throwError, once the instruction has popped n values: the innermost     *)
(* handler puts back its stack and frames and stores the error at its      *)
(* stack top, without push's check; with no handler the run ends.          *)
(***************************************************************************)
Throw(n, err) ==
  /\ thrown' = err
  /\ IF handlers = <<>>
       THEN /\ top' = top - n
            /\ Advance /\ Quit("RUNTIME_ERROR") /\ UNCHANGED <<stack, depth, handlers>>
       ELSE LET h == Last(handlers)
            IN /\ handlers' = Front(handlers)
               /\ stack' = [stack EXCEPT ![h.top] = err]
               /\ top' = h.top + 1
               /\ depth' = h.frames
               /\ frames' = [Advanced EXCEPT ![h.frames].ip = h.catch]
               /\ Running

Fail(n, kind) == Throw(n, Message(kind)) /\ UNCHANGED world

-----------------------------------------------------------------------------
(***************************************************************************)
(* Constants, locals and globals                                           *)
(***************************************************************************)
Const == At("CONST") /\ Operate(0, constant)
PushNil == At("NIL") /\ Operate(0, Nil)
PushTrue == At("TRUE") /\ Operate(0, Bool(TRUE))
PushFalse == At("FALSE") /\ Operate(0, Bool(FALSE))

Drop == /\ top' = top - 1 /\ Advance /\ Running
        /\ UNCHANGED <<stack, depth, handlers, thrown>>
Pop == At("POP") /\ Drop /\ UNCHANGED world

GetLocal == At("GET_LOCAL") /\ Operate(0, stack[frame.slots + ins[2]])
\* Fault: the slot is counted from the bottom of the stack.
FaultySetLocal ==
  /\ At("SET_LOCAL")
  /\ stack' = [stack EXCEPT ![ins[2]] = Peek(0)]
  /\ Advance /\ Running /\ UNCHANGED <<top, depth, handlers, thrown, world>>
SetLocal ==
  /\ At("SET_LOCAL")
  /\ stack' = [stack EXCEPT ![frame.slots + ins[2]] = Peek(0)]
  /\ Advance /\ Running /\ UNCHANGED <<top, depth, handlers, thrown, world>>

Bind(x, v) == [y \in DOMAIN globals \cup {x} |-> IF y = x THEN v ELSE globals[y]]

\* Fault: a name that is bound already is not bound again.
FaultyDefineGlobal ==
  /\ At("DEFINE_GLOBAL")
  /\ globals' = IF constant \in DOMAIN globals THEN globals ELSE Bind(constant, Peek(0))
  /\ Drop /\ UNCHANGED <<heap, files, out>>
DefineGlobal ==
  At("DEFINE_GLOBAL") /\ globals' = Bind(constant, Peek(0)) /\ Drop /\ UNCHANGED <<heap, files, out>>

GetGlobal ==
  /\ At("GET_GLOBAL")
  /\ IF constant \in DOMAIN globals THEN Operate(0, globals[constant]) ELSE Abort

\* Fault: a name that was not bound is declared.
FaultySetGlobal ==
  /\ At("SET_GLOBAL")
  /\ globals' = Bind(constant, Peek(0))
  /\ Advance /\ Running
  /\ UNCHANGED <<stack, top, depth, handlers, thrown, heap, files, out>>
\* Fault: the run is aborted, and the name stays bound.
FaultyUndo ==
  /\ At("SET_GLOBAL")
  /\ globals' = Bind(constant, Peek(0))
  /\ Advance
  /\ IF constant \in DOMAIN globals THEN Running ELSE Quit("RUNTIME_ERROR")
  /\ UNCHANGED <<stack, top, depth, handlers, thrown, heap, files, out>>

\* A name tableSet had to add is deleted again, and the run aborted.
SetGlobal ==
  /\ At("SET_GLOBAL")
  /\ IF constant \in DOMAIN globals
       THEN /\ globals' = Bind(constant, Peek(0))
            /\ Advance /\ Running
            /\ UNCHANGED <<stack, top, depth, handlers, thrown, heap, files, out>>
       ELSE Abort

-----------------------------------------------------------------------------
(***************************************************************************)
(* Operators                                                               *)
(***************************************************************************)
\* BINARY_NUM checks before it pops.
ArithmeticOp ==
  /\ AtAny(Arithmetic)
  /\ IF BothNum(Peek(1), Peek(0))
       THEN Operate(2, Num(Compute(ins[1], Peek(1)[2], Peek(0)[2])))
       ELSE Fail(0, "numbers only")

\* OP_DIV and OP_MOD have popped both operands when the divisor is zero.
DivisionOp ==
  /\ AtAny(Division)
  /\ IF ~BothNum(Peek(1), Peek(0)) THEN Fail(0, "numbers only")
     ELSE IF Peek(0)[2] = 0 THEN Fail(2, "zero divisor")
     ELSE Operate(2, Num(Compute(ins[1], Peek(1)[2], Peek(0)[2])))

ComparisonOp ==
  /\ AtAny(Comparison)
  /\ IF BothNum(Peek(1), Peek(0))
       THEN Operate(2, Bool(Compare(ins[1], Peek(1)[2], Peek(0)[2])))
       ELSE Fail(0, "numbers only")

Negate ==
  /\ At("NEGATE")
  /\ IF Is("num", Peek(0)) THEN Operate(1, Num(-Peek(0)[2])) ELSE Fail(0, "negate")

Not == At("NOT") /\ Operate(1, Bool(~IsTruthy(Peek(0))))

Equal ==
  At("EQ") /\ Operate(2, Bool(Peek(1) = Peek(0)))
NotEqual ==
  At("NEQ") /\ Operate(2, Bool(Peek(1) # Peek(0)))

Concat == At("CONCAT") /\ Operate(2, Joined(Peek(1), Peek(0)))

PrintTop == /\ At("PRINT") /\ out' = Append(out, Shown(Peek(0), heap))
            /\ Drop /\ UNCHANGED <<globals, heap, files>>

-----------------------------------------------------------------------------
(***************************************************************************)
(* Arrays and indexing.  An array is allocated before its items leave the  *)
(* stack; the pushes below cannot overflow but for the empty literal.      *)
(***************************************************************************)
BuildArray ==
  /\ At("BUILD_ARRAY")
  /\ LET n == ins[2]
     IN IF Overflows(n)
          THEN ExitProcess
          ELSE /\ heap' = Append(heap, [i \in 1 .. n |-> Peek(n - i)])
               /\ PopPush(n, Arr(Len(heap) + 1))
               /\ Advance /\ Running /\ UNCHANGED <<depth, handlers, thrown, globals, files, out>>

GetIndex ==
  /\ At("GET_INDEX")
  /\ LET object == Peek(1)
         index == Peek(0)
     IN IF ~(Is("arr", object) \/ Is("str", object)) THEN Fail(2, "not indexable")
        ELSE IF ~Is("num", index) THEN Fail(2, "index type")
        ELSE IF ~InBounds(index[2], Length(object, heap)) THEN Fail(2, "out of bounds")
        ELSE Operate(2, Item(object, index[2], heap))

\* arraySet ignores an index out of bounds; nothing is pushed.
SetIndexOp ==
  /\ At("SET_INDEX")
  /\ LET object == Peek(2)
         index == Peek(1)
     IN IF ~Is("arr", object) THEN Fail(3, "not an array")
        ELSE IF ~Is("num", index) THEN Fail(3, "index type")
        ELSE /\ heap' = Stored(heap, object, index[2], Peek(0))
             /\ top' = top - 3
             /\ Advance /\ Running
             /\ UNCHANGED <<stack, depth, handlers, thrown, globals, files, out>>

-----------------------------------------------------------------------------
(***************************************************************************)
(* try, catch and jumps                                                    *)
(***************************************************************************)
\* Fault: a handler more than the array holds is opened.
UncheckedTryBlock ==
  /\ At("TRY")
  /\ handlers' = Append(handlers, [catch |-> ins[2], top |-> top, frames |-> depth])
  /\ Advance /\ Running /\ UNCHANGED <<stack, top, depth, thrown, world>>
TryBlock ==
  /\ At("TRY")
  /\ IF Len(handlers) >= TryMax
       THEN Abort
       ELSE /\ handlers' = Append(handlers, [catch |-> ins[2], top |-> top, frames |-> depth])
            /\ Advance /\ Running /\ UNCHANGED <<stack, top, depth, thrown, world>>

\* Fault: the handler of a block that ends stays open.
FaultyTryEnd ==
  At("TRY_END") /\ Advance /\ Running /\ UNCHANGED <<stack, top, depth, handlers, thrown, world>>
TryEnd ==
  /\ At("TRY_END")
  /\ handlers' = IF handlers = <<>> THEN <<>> ELSE Front(handlers)
  /\ Advance /\ Running /\ UNCHANGED <<stack, top, depth, thrown, world>>

Jump == /\ AtAny({"JUMP", "LOOP"}) /\ JumpTo(ins[2]) /\ Running
        /\ UNCHANGED <<stack, top, depth, handlers, thrown, world>>

\* The condition stays: both paths pop it.
JumpIfFalse ==
  /\ At("JUMP_IF_FALSE")
  /\ IF IsTruthy(Peek(0)) THEN Advance ELSE JumpTo(ins[2])
  /\ Running /\ UNCHANGED <<stack, top, depth, handlers, thrown, world>>

-----------------------------------------------------------------------------
(***************************************************************************)
(* Calls.  callFunction checks the arity, then the frames; a native runs   *)
(* on its arguments in place, and an error it left in `thrown` is thrown   *)
(* once they are popped.                                                   *)
(***************************************************************************)
\* Fault: the frame starts at the first argument.
FaultyCallFunction ==
  /\ At("CALL")
  /\ LET argc == ins[2]
         callee == Peek(argc)
     IN /\ Is("fn", callee)
        /\ IF argc # FunctionOf(callee).arity \/ depth >= FramesMax
             THEN Abort
             ELSE /\ frames' = [Advanced EXCEPT ![depth + 1] =
                                  [fn |-> callee, ip |-> 1, slots |-> top - argc]]
                  /\ depth' = depth + 1
                  /\ Running /\ UNCHANGED <<stack, top, handlers, thrown, world>>
CallFunction ==
  /\ At("CALL")
  /\ LET argc == ins[2]
         callee == Peek(argc)
     IN /\ Is("fn", callee)
        /\ IF argc # FunctionOf(callee).arity \/ depth >= FramesMax
             THEN Abort
             ELSE /\ frames' = [Advanced EXCEPT ![depth + 1] =
                                  [fn |-> callee, ip |-> 1, slots |-> top - argc - 1]]
                  /\ depth' = depth + 1
                  /\ Running /\ UNCHANGED <<stack, top, handlers, thrown, world>>

CallNative ==
  /\ At("CALL")
  /\ LET argc == ins[2]
         callee == Peek(argc)
         args == [i \in 1 .. argc |-> Peek(argc - i)]
     IN /\ Is("native", callee)
        /\ IF ~Accepts(callee[2], argc)
             THEN Abort
             ELSE LET answer == RunNative(callee[2], args, [heap |-> heap, files |-> files])
                  IN /\ heap' = answer.world.heap /\ files' = answer.world.files
                     /\ UNCHANGED <<globals, out>>
                     /\ IF answer.thrown # Nil
                          THEN Throw(argc + 1, answer.thrown)
                          ELSE /\ thrown' = Nil
                               /\ PopPush(argc + 1, answer.value)
                               /\ Advance /\ Running /\ UNCHANGED <<depth, handlers>>

CallOther == At("CALL") /\ Peek(ins[2])[1] \notin {"fn", "native"} /\ Abort

\* Fault: the result goes to the slot below the function's.
FaultyReturnOp ==
  /\ At("RETURN")
  /\ depth' = depth - 1
  /\ Advance
  /\ IF depth = 1
       THEN top' = top - 2 /\ Quit("OK") /\ UNCHANGED stack
       ELSE /\ stack' = [stack EXCEPT ![frame.slots - 1] = Peek(0)]
            /\ top' = frame.slots
            /\ Running
  /\ UNCHANGED <<handlers, thrown, world>>

\* The last frame's return drops the script and ends the run.
ReturnOp ==
  /\ At("RETURN")
  /\ depth' = depth - 1
  /\ Advance
  /\ IF depth = 1
       THEN top' = top - 2 /\ Quit("OK") /\ UNCHANGED stack
       ELSE /\ stack' = [stack EXCEPT ![frame.slots] = Peek(0)]
            /\ top' = frame.slots + 1
            /\ Running
  /\ UNCHANGED <<handlers, thrown, world>>

\* Fault: the script is dropped, its frame is not.
FaultyHalt == /\ At("HALT") /\ Advance /\ Quit("OK") /\ top' = top - 1
              /\ UNCHANGED <<stack, depth, handlers, thrown, world>>

\* OP_HALT leaves the script's frame, and the script on the stack.
Halt == /\ At("HALT") /\ Advance /\ Quit("OK")
        /\ UNCHANGED <<stack, top, depth, handlers, thrown, world>>

-----------------------------------------------------------------------------
(***************************************************************************)
(* The hosts.  The test runner resets the VM before each file, the REPL    *)
(* after a line that failed, an embedding program never.                   *)
(***************************************************************************)
\* Fault: the open handlers are forgotten.
FaultyReset == top' = 0 /\ depth' = 0 /\ thrown' = Nil /\ UNCHANGED handlers
Reset == top' = 0 /\ depth' = 0 /\ handlers' = <<>> /\ thrown' = Nil

\* Fault: the REPL does not reset the VM.
FaultyTakeResult ==
  /\ status = "returned" /\ status' = "idle"
  /\ UNCHANGED <<top, depth, handlers, thrown>>
  /\ UNCHANGED <<stack, frames, world, result, script, runs, host>>

\* runVM has returned.
TakeResult ==
  /\ status = "returned" /\ status' = "idle"
  /\ IF host = "repl" /\ result # "OK" THEN Reset ELSE UNCHANGED <<top, depth, handlers, thrown>>
  /\ UNCHANGED <<stack, frames, world, result, script, runs, host>>

\* runFile is called once in a process; the other hosts go on.
RunsLeft == runs < (IF host = "file" /\ RunsMax > 1 THEN 1 ELSE RunsMax)
Ready == status = "idle" /\ RunsLeft
Scripts == Given[host]
NextRun(s) == runs' = runs + 1 /\ script' = s /\ out' = <<>> /\ UNCHANGED host

\* What the handlers and the pending error are when the next run starts.
Fresh == host = "test"
\* Fault: the handlers of the file before stay open.
FaultyHandlersAtStart == handlers
HandlersAtStart == IF Fresh THEN <<>> ELSE handlers

\* runVM's entry; what callFunction returns is not looked at.
StartRun(s) ==
  LET t == IF Fresh THEN 0 ELSE top
      d == IF Fresh THEN 0 ELSE depth
  IN /\ Code[s].ok
     /\ NextRun(s)
     /\ handlers' = HandlersAtStart
     /\ thrown' = IF Fresh THEN Nil ELSE thrown
     /\ UNCHANGED <<globals, heap, files>>
     /\ IF t >= StackMax
          THEN /\ status' = "exited" /\ result' = "STACK_OVERFLOW"
               /\ top' = t /\ depth' = d /\ UNCHANGED <<stack, frames>>
          ELSE /\ status' = "running" /\ UNCHANGED result
               /\ stack' = [stack EXCEPT ![t] = ScriptFunction(s)]
               /\ top' = t + 1
               /\ IF d >= FramesMax
                    THEN depth' = d /\ UNCHANGED frames
                    ELSE /\ depth' = d + 1
                         /\ frames' = [frames EXCEPT ![d + 1] =
                                         [fn |-> ScriptFunction(s), ip |-> 1, slots |-> t]]

\* A script that does not compile never reaches the VM.
RejectScript(s) ==
  /\ ~Code[s].ok
  /\ NextRun(s) /\ result' = "COMPILE_ERROR"
  /\ IF host = "test" THEN Reset ELSE UNCHANGED <<top, depth, handlers, thrown>>
  /\ UNCHANGED <<stack, frames, globals, heap, files, status>>

\* The host is done, or the process gone.
Rest == (status = "exited" \/ (status = "idle" /\ ~RunsLeft)) /\ UNCHANGED vars

-----------------------------------------------------------------------------
Unused == [fn |-> Nil, ip |-> 0, slots |-> 0]

Init ==
  /\ stack = [i \in 0 .. StackMax - 1 |-> Nil] /\ top = 0
  /\ frames = [i \in 1 .. FramesMax |-> Unused] /\ depth = 0
  /\ handlers = <<>> /\ thrown = Nil
  /\ globals = Builtins /\ heap = <<>> /\ files = <<>> /\ out = <<>>
  /\ status = "idle" /\ result = "OK" /\ script = <<>> /\ runs = 0
  /\ host \in DOMAIN Given

Data == \/ Const \/ PushNil \/ PushTrue \/ PushFalse \/ Pop
        \/ GetLocal \/ SetLocal \/ DefineGlobal \/ GetGlobal \/ SetGlobal
Operators == \/ ArithmeticOp \/ DivisionOp \/ ComparisonOp \/ Negate \/ Not
             \/ Equal \/ NotEqual \/ Concat \/ PrintTop
             \/ BuildArray \/ GetIndex \/ SetIndexOp
Control == \/ TryBlock \/ TryEnd \/ Jump \/ JumpIfFalse
           \/ CallFunction \/ CallNative \/ CallOther \/ ReturnOp \/ Halt

\* One turn of runVM's loop.
Execute == Data \/ Operators \/ Control

Next == \/ Execute
        \/ TakeResult
        \/ Ready /\ \E s \in Scripts : StartRun(s) \/ RejectScript(s)
        \/ Rest

\* The loop runs on while it can; nothing makes the host start another run.
Spec == Init /\ [][Next]_vars /\ WF_vars(Execute)

-----------------------------------------------------------------------------
(***************************************************************************)
(* Properties                                                              *)
(***************************************************************************)
Current == 1 .. depth

\* The functions that scripts declare and import; a script's own is its last.
Declared(code) ==
  UNION {{Fn(t, k) : k \in 1 .. Len(code[t].fns) - 1} : t \in {u \in DOMAIN code : code[u].ok}}
Callable == Declared(Code)

\* What a script can get hold of when there are n arrays.
Values(n) ==
  {Nil} \cup ({"bool"} \X BOOLEAN) \cup ({"num"} \X Int) \cup ({"str"} \X STRING)
    \cup Callable \cup ({"native"} \X DOMAIN Arity) \cup ({"arr"} \X (1 .. n))

\* The slots whose values scripts get at: the others hold the functions of frames.
Slots == {a \in 0 .. top - 1 : \A i \in Current : frames[i].slots # a}

\* Whatever a script can get at, on the stack, in the globals, in an array or as
\* an error, is a value, and there is the array it stands for.
Holds(values) ==
  /\ heap \in Seq(Seq(values))
  /\ {stack[a] : a \in Slots} \cup {globals[x] : x \in DOMAIN globals} \cup {thrown} \subseteq values
  /\ {files[p] : p \in DOMAIN files} \subseteq STRING
TypeOK == Holds(Values(Len(heap)))

\* The frames lie on the stack one above the other, each on the slot that
\* holds its function; the innermost has all its locals below the top.
FramesStacked ==
  status = "running" =>
    /\ depth >= 1
    /\ \A i \in Current :
         /\ stack[frames[i].slots] = frames[i].fn
         /\ frames[i].slots < (IF i = depth THEN top ELSE frames[i + 1].slots)

\* No instruction reads or writes a local that is not on the stack, and no
\* jump leaves the code.
LocalsLive ==
  status = "running" =>
    /\ frame.ip \in DOMAIN FunctionOf(frame.fn).code
    /\ ins[1] \in {"GET_LOCAL", "SET_LOCAL"} => frame.slots + ins[2] < top

\* Every open handler belongs to a frame that is still there, keeps no more
\* of the stack than that frame has, and is inside those opened before it.
HandlersLive ==
  status = "running" =>
    \A i \in DOMAIN handlers :
      LET h == handlers[i]
      IN /\ h.frames \in Current
         /\ frames[h.frames].slots < h.top
         /\ h.top <= (IF h.frames = depth THEN top ELSE frames[h.frames + 1].slots)
         /\ i > 1 => handlers[i - 1].frames <= h.frames /\ handlers[i - 1].top <= h.top

\* What is called as a function is one the compiler made for a declaration or
\* an import: never a script, nor what only looks like a function.
FunctionsCalled ==
  At("CALL") /\ Is("fn", Peek(ins[2])) => Peek(ins[2]) \in Callable

\* The script ends with nothing on the stack but itself and no handler open:
\* every statement pops what it pushed, and every try is closed.
NothingLeft ==
  At("HALT") => top = frame.slots + 1 /\ handlers = <<>>

\* A call, and all that is executed in it, leaves the caller's part of the
\* stack alone, unless an error unwinds to a handler.
CallersUntouched ==
  [][status = "running" /\ Len(handlers') >= Len(handlers) =>
       \A i \in 0 .. frame.slots - 1 : stack'[i] = stack[i]]_vars

\* The stack stays inside its array, though throwError stores the error at a
\* handler's stack top without push's test.
StackBounded == top \in 0 .. StackMax

\* The frames and the handlers stay inside their arrays, and a handler never
\* brings back more frames than there are.
TablesBounded ==
  /\ depth \in 0 .. FramesMax
  /\ Len(handlers) <= TryMax
  /\ \A i \in DOMAIN handlers : handlers[i].frames \in 1 .. FramesMax
=============================================================================
