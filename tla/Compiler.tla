------------------------------ MODULE Compiler ------------------------------
(***************************************************************************)
(* compiler.cpp: from syntax trees to code, in one pass.  A context is a   *)
(* CompilerCtx with the chunk being written; `fns` collects the finished   *)
(* functions, a function constant being an index into it.  Instructions    *)
(* are tuples, with constants by their index in the function's pool; a     *)
(* jump names the instruction it lands on, where the bytecode has a        *)
(* distance.  Line tables are left out.                                    *)
(*                                                                         *)
(* What compiles the parts of a tree is a parameter of the rule for the    *)
(* tree.  A configuration puts the rules themselves in its place; proofs   *)
(* are about whatever obeys the rules.                                     *)
(***************************************************************************)
EXTENDS Language

CONSTANTS
  LocalsMax,   \* NQ_LOCALS_MAX
  ByteRange,   \* 256: how many values the byte after an opcode can have
  Expr(_, _), Exprs(_, _),   \* CompileExpr and CompileExprs
  Node(_, _), Nodes(_, _),   \* CompileNode and CompileBlock
  Params(_, _)               \* AddParams

ASSUME LimitsAssumption == LocalsMax \in Nat \ {0} /\ ByteRange \in Nat \ {0}

(***************************************************************************)
(* Emitting                                                                *)
(***************************************************************************)
Emit(c, ins) == [c EXCEPT !.code = Append(@, ins)]
Here(c) == Len(c.code) + 1
EmitJump(c, op) == Emit(c, <<op, 0>>)
Patch(c, at) == [c EXCEPT !.code[at] = <<@[1], Here(c)>>]
\* The jump that c ends with goes over what Rest emits.
JumpOver(c, Rest(_)) == Patch(Rest(c), Len(c.code))

\* initCompilerCtx for a nested function or module; endCompilerCtx appends
\* the implicit return and hands the function to the enclosing context.
Nested(c, level) ==
  [code |-> <<>>, pool |-> <<>>, locals |-> <<>>, depth |-> level, nested |-> TRUE,
   script |-> c.script, fns |-> c.fns, err |-> c.err]
EndFunction(c) == Emit(Emit(c, <<"NIL">>), <<"RETURN">>)
Finish(outer, inner, name, arity) ==
  [outer EXCEPT !.fns = Append(inner.fns, [name |-> name, arity |-> arity,
                                           code |-> inner.code, pool |-> inner.pool]),
                !.err = inner.err]

(***************************************************************************)
(* Constants.  addConstant never looks for one that is there already.      *)
(***************************************************************************)
AddConstant(c, v) == [c EXCEPT !.pool = Append(@, v)]
Checked(c, ok) == IF ok THEN c ELSE [c EXCEPT !.err = TRUE]

\* Fault: the index one past the last is let through, and cut to a byte.
FaultyWithConst(c, op, v) ==
  Checked(Emit(AddConstant(c, v), <<op, Len(c.pool) % ByteRange>>), Len(c.pool) <= ByteRange)
\* emitConst and identConst: an index that no byte holds is an error.
WithConst(c, op, v) ==
  Checked(Emit(AddConstant(c, v), <<op, Len(c.pool) % ByteRange>>), Len(c.pool) < ByteRange)

\* Fault: the function is taken for the one that is compiled next.
FaultyFunctionConst(c) ==
  Emit(AddConstant(c, Fn(c.script, Len(c.fns) + 1)), <<"CONST", Len(c.pool) % ByteRange>>)
\* The index of a function is cut to a byte without that test.
FunctionConst(c) ==
  Emit(AddConstant(c, Fn(c.script, Len(c.fns))), <<"CONST", Len(c.pool) % ByteRange>>)

\* A count of values is tested in the same way.
WithCount(c, op, n) == Checked(Emit(c, <<op, n % ByteRange>>), n < ByteRange)

(***************************************************************************)
(* Scopes                                                                  *)
(***************************************************************************)
AddLocal(c, x) ==
  IF Len(c.locals) >= LocalsMax
    THEN [c EXCEPT !.err = TRUE]
    ELSE [c EXCEPT !.locals = Append(@, [name |-> x, depth |-> c.depth])]

\* The latest local of that name, as a stack slot; -1 when there is none.
ResolveLocal(c, x) ==
  LET named == {i \in DOMAIN c.locals : c.locals[i].name = x}
  IN IF named = {} THEN -1 ELSE (CHOOSE i \in named : \A j \in named : j <= i) - 1

BeginScope(c) == [c EXCEPT !.depth = @ + 1]

\* Fault: the locals of the scope that ends are kept.
FaultyEndScope(c) == [c EXCEPT !.depth = @ - 1]
\* One OP_POP for each local declared in the scope that ends.
EndScope(c) ==
  LET ends == {n \in 0 .. Len(c.locals) : \A i \in n + 1 .. Len(c.locals) : c.locals[i].depth >= c.depth}
      kept == CHOOSE n \in ends : \A m \in ends : n <= m
  IN [c EXCEPT !.depth = @ - 1, !.locals = SubSeq(@, 1, kept),
               !.code = @ \o [i \in 1 .. Len(c.locals) - kept |-> <<"POP">>]]

(***************************************************************************)
(* Expressions                                                             *)
(***************************************************************************)
Literal(c, v) ==
  CASE v = Nil -> Emit(c, <<"NIL">>)
    [] v = Bool(TRUE) -> Emit(c, <<"TRUE">>)
    [] v = Bool(FALSE) -> Emit(c, <<"FALSE">>)
    [] OTHER -> WithConst(c, "CONST", v)

Access(c, x, local, global) ==
  LET slot == ResolveLocal(c, x)
  IN IF slot >= 0 THEN Emit(c, <<local, slot>>) ELSE WithConst(c, global, x)

CompileExprs(c, es) ==
  LET next == Expr(c, Head(es))
  IN IF es = <<>> THEN c ELSE Exprs(next, Tail(es))

CompileExpr(c, e) ==
  LET kind == e[1] IN
  CASE kind = "lit" -> Literal(c, e[2])
    [] kind = "var" -> Access(c, e[2], "GET_LOCAL", "GET_GLOBAL")
    [] kind = "unary" -> Emit(Expr(c, e[3]), <<e[2]>>)
    [] kind = "and" ->
         JumpOver(EmitJump(Expr(c, e[2]), "JUMP_IF_FALSE"), LAMBDA d :
           Expr(Emit(d, <<"POP">>), e[3]))
    [] kind = "or" ->
         JumpOver(JumpOver(EmitJump(Expr(c, e[2]), "JUMP_IF_FALSE"), LAMBDA d :
                    EmitJump(d, "JUMP")), LAMBDA d :
           Expr(Emit(d, <<"POP">>), e[3]))
    [] kind = "binary" -> Emit(Expr(Expr(c, e[3]), e[4]), <<e[2]>>)
    [] kind = "call" ->
         WithCount(Exprs(Expr(c, e[2]), e[3]), "CALL", Len(e[3]))
    [] kind = "array" -> WithCount(Exprs(c, e[2]), "BUILD_ARRAY", Len(e[2]))
    [] kind = "index" -> Emit(Expr(Expr(c, e[2]), e[3]), <<"GET_INDEX">>)

(***************************************************************************)
(* Statements                                                              *)
(***************************************************************************)
\* compileBlock stops at the first statement that has an error.
CompileBlock(c, block) ==
  LET next == Node(c, Head(block))
  IN IF block = <<>> \/ c.err THEN c ELSE Nodes(next, Tail(block))

Scoped(c, block) == EndScope(Nodes(BeginScope(c), block))

\* let: a new local of the innermost scope, or a global outside every scope.
Declare(c, x) == IF c.depth > 0 THEN AddLocal(c, x) ELSE WithConst(c, "DEFINE_GLOBAL", x)

\* The condition is popped on both paths.
Test(c, cond) == EmitJump(Expr(c, cond), "JUMP_IF_FALSE")

CompileIf(c, cond, then, else) ==
  JumpOver(JumpOver(Test(c, cond), LAMBDA d :
             EmitJump(Scoped(Emit(d, <<"POP">>), then), "JUMP")), LAMBDA d :
    Scoped(Emit(d, <<"POP">>), else))

CompileLoop(c, cond, body) ==
  Emit(JumpOver(Test(c, cond), LAMBDA d :
         Emit(Scoped(Emit(d, <<"POP">>), body), <<"LOOP", Here(c)>>)), <<"POP">>)

AddParams(c, params) ==
  LET next == AddLocal(c, Head(params))
  IN IF params = <<>> THEN c ELSE Params(next, Tail(params))

\* Fault: the parameters start at the function's own slot.
FaultyCompileFunction(c, f, params, body) ==
  LET closed == EndFunction(Nodes(Params(Nested(c, 1), params), body))
  IN WithConst(FunctionConst(Finish(c, closed, f, Len(params))), "DEFINE_GLOBAL", f)
\* Slot 0 of a function's frame holds the function itself.
CompileFunction(c, f, params, body) ==
  LET closed == EndFunction(Nodes(Params(AddLocal(Nested(c, 1), NoName), params), body))
  IN WithConst(FunctionConst(Finish(c, closed, f, Len(params))), "DEFINE_GLOBAL", f)

\* A module becomes a function that the import calls at once.
CompileImport(c, module) ==
  LET closed == EndFunction(EndFunction(Nodes(Nested(c, 0), module)))
  IN Emit(Emit(FunctionConst(Finish(c, closed, "module", 0)), <<"CALL", 0>>), <<"POP">>)

\* Fault: the try is left open when its block ends.
FaultyCompileTry(c, body, x, handler) ==
  JumpOver(JumpOver(EmitJump(c, "TRY"), LAMBDA d : EmitJump(Scoped(d, body), "JUMP")), LAMBDA d :
    EndScope(Nodes(AddLocal(BeginScope(d), x), handler)))
CompileTry(c, body, x, handler) ==
  JumpOver(JumpOver(EmitJump(c, "TRY"), LAMBDA d :
             EmitJump(Emit(Scoped(d, body), <<"TRY_END">>), "JUMP")), LAMBDA d :
    EndScope(Nodes(AddLocal(BeginScope(d), x), handler)))

CompileNode(c, s) ==
  LET kind == s[1] IN
  CASE kind = "let" -> Declare(Expr(c, s[3]), s[2])
    [] kind = "assign" ->
         Emit(Access(Expr(c, s[3]), s[2], "SET_LOCAL", "SET_GLOBAL"), <<"POP">>)
    [] kind = "print" -> Emit(Expr(c, s[2]), <<"PRINT">>)
    [] kind = "if" -> CompileIf(c, s[2], s[3], s[4])
    [] kind = "loop" -> CompileLoop(c, s[2], s[3])
    [] kind = "function" -> CompileFunction(c, s[2], s[3], s[4])
    [] kind = "return" ->
         IF c.nested THEN Emit(Expr(c, s[2]), <<"RETURN">>) ELSE [c EXCEPT !.err = TRUE]
    [] kind = "expr" -> Emit(Expr(c, s[2]), <<"POP">>)
    [] kind = "setindex" ->
         Emit(Expr(Expr(Expr(c, s[2]), s[3]), s[4]), <<"SET_INDEX">>)
    [] kind = "try" -> CompileTry(c, s[2], s[3], s[4])
    [] kind = "import" -> CompileImport(c, s[2])

\* compile: the functions of the script, the script itself the last of them.
\* The script, too, keeps slot 0 for its function object.
Compiled(closed) ==
  [ok |-> ~closed.err,
   fns |-> Append(closed.fns, [name |-> "script", arity |-> 0,
                               code |-> closed.code, pool |-> closed.pool])]
Compile(id, program) ==
  LET opened == AddLocal([code |-> <<>>, pool |-> <<>>, locals |-> <<>>, depth |-> 0,
                          nested |-> FALSE, script |-> id, fns |-> <<>>, err |-> FALSE], NoName)
  IN Compiled(EndFunction(Emit(Nodes(opened, program), <<"HALT">>)))
=============================================================================
