------------------------------ MODULE Bytecode ------------------------------
(***************************************************************************)
(* What runVM takes for granted of the code it executes: it tests neither  *)
(* that operands are on the stack, nor that a slot is a local's, nor that  *)
(* a try is closed.  Before each instruction the code fixes how much of    *)
(* the stack the frame has and which of its trys are open; code in which   *)
(* that is so, and suffices for every instruction, is verified.  The       *)
(* compiler has no such pass: it is to emit only code that would pass.     *)
(***************************************************************************)
EXTENDS VM
LOCAL INSTANCE TLC

(***************************************************************************)
(* An instruction i takes values from the top of the stack and leaves      *)
(* others there.                                                           *)
(***************************************************************************)
Pushing == {"CONST", "NIL", "TRUE", "FALSE", "GET_LOCAL", "GET_GLOBAL"}
Dropping == {"POP", "DEFINE_GLOBAL", "PRINT"}
Combining == Arithmetic \cup Division \cup Comparison \cup {"EQ", "NEQ", "CONCAT", "GET_INDEX"}
Replacing == {"NEGATE", "NOT"}
Peeking == {"SET_LOCAL", "SET_GLOBAL", "JUMP_IF_FALSE"}
Collecting == {"BUILD_ARRAY", "CALL"}
Moving == {"TRY", "TRY_END", "JUMP", "LOOP", "HALT"}
Opcodes == Pushing \cup Dropping \cup Combining \cup Replacing \cup Peeking
             \cup Collecting \cup Moving \cup {"SET_INDEX", "RETURN"}

Takes(i) ==
  IF i[1] = "CALL" THEN i[2] + 1
  ELSE IF i[1] = "BUILD_ARRAY" THEN i[2]
  ELSE IF i[1] = "SET_INDEX" THEN 3
  ELSE IF i[1] \in Combining THEN 2
  ELSE IF i[1] \in Pushing \cup Moving THEN 0
  ELSE 1
Leaves(i) ==
  IF i[1] \in Pushing \cup Combining \cup Replacing \cup Peeking \cup Collecting THEN 1 ELSE 0

\* Where the instruction at ip may go on, errors apart.
Targets(i, ip) ==
  IF i[1] \in {"JUMP", "LOOP"} THEN {i[2]}
  ELSE IF i[1] = "JUMP_IF_FALSE" THEN {i[2], ip + 1}
  ELSE IF i[1] \in {"RETURN", "HALT"} THEN {}
  ELSE {ip + 1}

(***************************************************************************)
(* The place of an instruction: the slots of its frame that are in use,    *)
(* and the open trys, each with its catch and the height it puts back.     *)
(***************************************************************************)
Trys == [catch : Nat, height : Nat]
Places == [height : Nat, open : Seq(Trys)]

\* What is below the floor is the locals' that a catch block finds.
Floor(at) == IF at.open = <<>> THEN 1 ELSE at.open[Len(at.open)].height

NextPlace(i, at) ==
  [height |-> at.height - Takes(i) + Leaves(i),
   open |-> IF i[1] = "TRY" THEN Append(at.open, [catch |-> i[2], height |-> at.height])
            ELSE IF i[1] = "TRY_END" THEN SubSeq(at.open, 1, Len(at.open) - 1)
            ELSE at.open]
\* The catch of the m-th open try: that try is closed, the error is pushed.
Caught(at, m) == [height |-> at.open[m].height + 1, open |-> SubSeq(at.open, 1, m - 1)]

\* Where it leads, to its catch as well.
Edges(i, ip) == Targets(i, ip) \cup (IF i[1] = "TRY" THEN {i[2]} ELSE {})

(***************************************************************************)
(* The places of the instructions that can be reached, in the order of the *)
(* code: those that are known when the instruction at ip is looked at, and *)
(* then the ones it leads to.                                              *)
(***************************************************************************)
Onward(f, ip, sh) ==
  IF ip \notin DOMAIN sh THEN sh
  ELSE LET next == NextPlace(f.code[ip], sh[ip])
       IN [t \in DOMAIN sh \cup Edges(f.code[ip], ip) |->
             IF t \in DOMAIN sh THEN sh[t]
             ELSE IF t \in Targets(f.code[ip], ip) THEN next
             ELSE Caught(next, Len(next.open))]

ShapeOf(f) ==
  LET shape[ip \in 0 .. Len(f.code)] ==
        IF ip = 0 THEN [t \in {1} |-> [height |-> f.arity + 1, open |-> <<>>]]
        ELSE Onward(f, ip, shape[ip - 1])
  IN shape[Len(f.code)]

-----------------------------------------------------------------------------
TrysNested(sh, at) ==
  /\ Floor(at) <= at.height
  /\ \A m \in DOMAIN at.open :
       /\ at.open[m].height >= 1
       /\ \A l \in 1 .. m : at.open[l].height <= at.open[m].height
       /\ at.open[m].catch \in DOMAIN sh
       /\ sh[at.open[m].catch] = Caught(at, m)

Suffices(i, at, main) ==
  /\ Takes(i) <= at.height - Floor(at)
  /\ i[1] \in Collecting => i[2] \in Nat
  /\ i[1] \in {"GET_LOCAL", "SET_LOCAL"} => i[2] \in 1 .. at.height - 1
  /\ i[1] = "TRY" => i[2] \in Nat
  /\ i[1] = "TRY_END" => at.open # <<>>
  /\ i[1] = "RETURN" => ~main /\ at.open = <<>>
  /\ i[1] = "HALT" => main /\ at.open = <<>> /\ at.height = 1

\* The places sh are right for f: one leads to the next, and each instruction
\* that has a place has there what it takes.
Fits(f, main, sh) ==
  /\ f.arity \in Nat /\ (main => f.arity = 0)
  /\ 1 \in DOMAIN sh /\ sh[1] = [height |-> f.arity + 1, open |-> <<>>]
  /\ \A ip \in DOMAIN sh :
       /\ ip \in DOMAIN f.code /\ ip \in Nat /\ f.code[ip][1] \in Opcodes
       /\ sh[ip] \in Places
       /\ TrysNested(sh, sh[ip])
       /\ Suffices(f.code[ip], sh[ip], main)
       /\ f.code[ip][1] = "CONST" => f.pool[f.code[ip][2] + 1] \in Values(0)
       /\ \A t \in Targets(f.code[ip], ip) : t \in DOMAIN sh /\ sh[t] = NextPlace(f.code[ip], sh[ip])

VerifiedFunction(f, main) == Fits(f, main, ShapeOf(f))

\* The functions of a script that compiles, the script's own being the last.
VerifiedScript(c) ==
  /\ Len(c.fns) \in Nat \ {0}
  /\ \A k \in 1 .. Len(c.fns) : VerifiedFunction(c.fns[k], k = Len(c.fns))

VerifiedCode(code) == \A t \in DOMAIN code : code[t].ok => VerifiedScript(code[t])
Verified == VerifiedCode(Code)

\* No script is run but what the VM need not test: whatever way leads to an
\* instruction, its operands are on the stack above what open trys keep, its
\* local is there, its constant is a value, trys are closed in the order they
\* were opened, and a function returns with none of them open.
CodeVerified == status = "running" => Verified

\* Less than that is enough for the VM: that there are such places.
SoundScript(c) ==
  /\ Len(c.fns) \in Nat \ {0}
  /\ \A k \in 1 .. Len(c.fns) : \E sh : Fits(c.fns[k], k = Len(c.fns), sh)
Sound == \A t \in DOMAIN Code : Code[t].ok => SoundScript(Code[t])

-----------------------------------------------------------------------------
(***************************************************************************)
(* The texts a script gets hold of: those the natives and the errors are   *)
(* made of, the characters of a text, what is cut from it or joined, and   *)
(* the spelling of a number.                                               *)
(***************************************************************************)
Phrases ==
  { "", "nil", "true", "false", "<object>", Small, Capital,
    "bool", "number", "string", "array", "function",
    "numbers only", "negate", "zero divisor", "not indexable", "not an array", "index type", "out of bounds",
    "assertion", "len", "pop", "empty", "remove",
    "\n", "path", "cannot read", "path and content", "cannot write" }

StringsOn(T, N) ==
  /\ Phrases \subseteq STRING
  /\ \A s \in T : Len(s) \in Nat /\ (Len(s) = 0 => s = "")
  /\ \A s, t \in T : s \o t \in STRING
  /\ \A s \in T : \A i \in 1 .. Len(s) + 1 : \A j \in i - 1 .. Len(s) : SubSeq(s, i, j) \in STRING
  /\ \A i \in N : ToString(i) \in STRING
=============================================================================
