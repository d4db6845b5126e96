----------------------------- MODULE Semantics -----------------------------
(***************************************************************************)
(* What a Nolqu program means, as docs/language.md tells it: an evaluator  *)
(* over syntax trees with scopes, functions and exceptions, that knows no  *)
(* bytecode, no stack and no handlers.  Where the document is silent (an   *)
(* unknown name, a wrong number of arguments) the run is aborted, as the   *)
(* VM does.  Built-in functions are those of module Library.               *)
(*                                                                         *)
(* A store is [globals, heap, files, out].  An environment is              *)
(* [locals, local]: the visible locals, the latest last, and whether a     *)
(* `let` makes a local.                                                    *)
(***************************************************************************)
EXTENDS Library

\* How evaluation can end: normally, by return, by an error that a catch
\* takes, or by one that ends the program.
Outcome(how, v, env, st) == [how |-> how, val |-> v, env |-> env, st |-> st]
Normally(v, env, st) == Outcome("ok", v, env, st)
Throws(err, env, st) == Outcome("throw", err, env, st)
Aborts(env, st) == Outcome("fatal", Nil, env, st)
AndThen(x, F(_)) == IF x.how = "ok" THEN F(x) ELSE x

Named(env, x) == {i \in DOMAIN env.locals : env.locals[i].name = x}
Innermost(env, x) == CHOOSE i \in Named(env, x) : \A j \in Named(env, x) : j <= i
Declare(env, x, v) == [env EXCEPT !.locals = Append(@, [name |-> x, val |-> v])]
Bound(table, x, v) ==
  [y \in DOMAIN table \cup {x} |-> IF y = x THEN v ELSE table[y]]

\* The environment after a block: what it declared is gone again.
Leaving(env, inner) ==
  [env EXCEPT !.locals = SubSeq(inner.locals, 1, Len(env.locals))]
Inside(env) == [env EXCEPT !.local = TRUE]

-----------------------------------------------------------------------------
RECURSIVE Evaluate(_, _, _), EvaluateAll(_, _, _, _), Block(_, _, _), Loops(_, _, _, _)

Lookup(x, env, st) ==
  IF Named(env, x) # {} THEN Normally(env.locals[Innermost(env, x)].val, env, st)
  ELSE IF x \in DOMAIN st.globals THEN Normally(st.globals[x], env, st)
  ELSE Aborts(env, st)

\* Operators on two values that were both computed.
Apply(op, a, b, env, st) ==
  CASE op = "CONCAT" -> Normally(Joined(a, b), env, st)
    [] op = "EQ" -> Normally(Bool(a = b), env, st)
    [] op = "NEQ" -> Normally(Bool(a # b), env, st)
    [] OTHER ->
         IF ~BothNum(a, b) THEN Throws(Message("numbers only"), env, st)
         ELSE IF op \in Division /\ b[2] = 0 THEN Throws(Message("zero divisor"), env, st)
         ELSE IF op \in Comparison THEN Normally(Bool(Compare(op, a[2], b[2])), env, st)
         ELSE Normally(Num(Compute(op, a[2], b[2])), env, st)

\* The checks that reading and assigning through an index have in common.
Indexed(xs, types, wrong) ==
  IF xs.val[1][1] \notin types THEN Throws(Message(wrong), xs.env, xs.st)
  ELSE IF ~Is("num", xs.val[2]) THEN Throws(Message("index type"), xs.env, xs.st)
  ELSE IF ~InBounds(xs.val[2][2], Length(xs.val[1], xs.st.heap))
    THEN Throws(Message("out of bounds"), xs.env, xs.st)
  ELSE xs

\* The caller's view of how a function ended, and of a built-in's answer.
Returned(done, env) ==
  CASE done.how = "ok" -> Normally(Nil, env, done.st)
    [] done.how = "return" -> Normally(done.val, env, done.st)
    [] OTHER -> Outcome(done.how, done.val, env, done.st)
Answered(answer, env, st) ==
  LET after == [st EXCEPT !.heap = answer.world.heap, !.files = answer.world.files]
  IN IF answer.thrown # Nil THEN Throws(answer.thrown, env, after) ELSE Normally(answer.value, env, after)

\* A function sees its parameters and the globals, nothing of its caller.
\* "Calling a non-function" throws (language.md, What throws).
Parameters(names, args) ==
  [locals |-> [i \in DOMAIN args |-> [name |-> names[i], val |-> args[i]]], local |-> TRUE]
Invoke(f, args, env, st) ==
  CASE Is("fn", f) ->
         IF Len(args) # Len(f[2]) THEN Aborts(env, st)
                                  ELSE Returned(Block(f[3], Parameters(f[2], args), st), env)
    [] Is("native", f) ->
         IF Accepts(f[2], Len(args)) THEN Answered(Calls(f[2], args, st), env, st)
                                     ELSE Aborts(env, st)
    [] OTHER -> Throws(Message("not a function"), env, st)

\* Left to right, up to the first that does not end normally; val is the
\* sequence of values.
EvaluateAll(es, done, env, st) ==
  IF es = <<>> THEN Normally(done, env, st)
  ELSE AndThen(Evaluate(Head(es), env, st), LAMBDA x :
         EvaluateAll(Tail(es), Append(done, x.val), env, x.st))

ApplyUnary(op, x) ==
  IF op = "NOT" THEN [x EXCEPT !.val = Bool(~IsTruthy(@))]
  ELSE IF Is("num", x.val) THEN [x EXCEPT !.val = Num(-@[2])]
  ELSE Throws(Message("negate"), x.env, x.st)

Evaluate(e, env, st) ==
  CASE e[1] = "lit" -> Normally(e[2], env, st)
    [] e[1] = "var" -> Lookup(e[2], env, st)
    [] e[1] = "unary" -> AndThen(Evaluate(e[3], env, st), LAMBDA x : ApplyUnary(e[2], x))
    [] e[1] \in {"and", "or"} ->
         AndThen(Evaluate(e[2], env, st), LAMBDA x :
           IF IsTruthy(x.val) <=> e[1] = "or" THEN x ELSE Evaluate(e[3], env, x.st))
    [] e[1] = "binary" ->
         AndThen(EvaluateAll(<<e[3], e[4]>>, <<>>, env, st), LAMBDA xs :
           Apply(e[2], xs.val[1], xs.val[2], env, xs.st))
    [] e[1] = "call" ->
         AndThen(EvaluateAll(<<e[2]>> \o e[3], <<>>, env, st), LAMBDA xs :
           Invoke(xs.val[1], Tail(xs.val), env, xs.st))
    [] e[1] = "array" ->
         AndThen(EvaluateAll(e[2], <<>>, env, st), LAMBDA xs :
           Normally(Arr(Len(xs.st.heap) + 1), env, [xs.st EXCEPT !.heap = Append(@, xs.val)]))
    [] e[1] = "index" ->
         AndThen(EvaluateAll(<<e[2], e[3]>>, <<>>, env, st), LAMBDA xs :
           AndThen(Indexed(xs, {"arr", "str"}, "not indexable"), LAMBDA ok :
             Normally(Item(ok.val[1], ok.val[2][2], ok.st.heap), env, ok.st)))

-----------------------------------------------------------------------------
\* A block in a scope of its own, which starts with the locals of `inner`.
Scoped(block, inner, env, st) ==
  LET done == Block(block, inner, st) IN [done EXCEPT !.env = Leaving(env, @)]
InScope(block, env, st) == Scoped(block, Inside(env), env, st)

\* `x = v` changes the innermost x that is declared, and declares nothing.
AssignTo(x, v, env, st) ==
  IF Named(env, x) # {}
    THEN Normally(Nil, [env EXCEPT !.locals[Innermost(env, x)].val = v], st)
  ELSE IF x \in DOMAIN st.globals
    THEN Normally(Nil, env, [st EXCEPT !.globals = Bound(@, x, v)])
  ELSE Aborts(env, st)

\* The catch variable is a local of the catch block.
Caught(tried, x, handler, env) ==
  IF tried.how = "throw"
    THEN Scoped(handler, Declare(Inside(tried.env), x, tried.val), env, tried.st)
    ELSE tried

Loops(cond, body, env, st) ==
  AndThen(Evaluate(cond, env, st), LAMBDA test :
    IF IsTruthy(test.val)
      THEN AndThen(InScope(body, env, test.st), LAMBDA round : Loops(cond, body, round.env, round.st))
      ELSE test)

Closure(s) == <<"fn", s[3], s[4]>>

\* Statements that first compute one value.
Use(s, x) ==
  CASE s[1] = "let" ->
         IF x.env.local THEN Normally(Nil, Declare(x.env, s[2], x.val), x.st)
         ELSE Normally(Nil, x.env, [x.st EXCEPT !.globals = Bound(@, s[2], x.val)])
    [] s[1] = "assign" -> AssignTo(s[2], x.val, x.env, x.st)
    [] s[1] = "print" ->
         Normally(Nil, x.env, [x.st EXCEPT !.out = Append(@, Shown(x.val, x.st.heap))])
    [] s[1] = "return" -> Outcome("return", x.val, x.env, x.st)
    [] s[1] = "expr" -> x

ValueOf(s) == s[Len(s)]

\* A module that returns has been run, and its locals are its own.
Imported(done, env) ==
  IF done.how = "return" THEN Normally(Nil, env, done.st) ELSE [done EXCEPT !.env = env]

Statement(s, env, st) ==
  CASE s[1] \in {"let", "assign", "print", "return", "expr"} ->
         AndThen(Evaluate(ValueOf(s), env, st), LAMBDA x : Use(s, x))
    [] s[1] = "if" ->
         AndThen(Evaluate(s[2], env, st), LAMBDA c :
           InScope(IF IsTruthy(c.val) THEN s[3] ELSE s[4], env, c.st))
    [] s[1] = "loop" -> Loops(s[2], s[3], env, st)
    [] s[1] = "function" ->
         Normally(Nil, env, [st EXCEPT !.globals = Bound(@, s[2], Closure(s))])
    [] s[1] = "setindex" ->
         AndThen(EvaluateAll(<<s[2], s[3], s[4]>>, <<>>, env, st), LAMBDA xs :
           AndThen(Indexed(xs, {"arr"}, "not an array"), LAMBDA ok :
             Normally(Nil, env,
               [ok.st EXCEPT !.heap = Stored(@, ok.val[1], ok.val[2][2], ok.val[3])])))
    [] s[1] = "try" -> Caught(InScope(s[2], env, st), s[3], s[4], env)
    [] s[1] = "import" ->
         Imported(Block(s[2], [locals |-> <<>>, local |-> FALSE], st), env)

Block(block, env, st) ==
  IF block = <<>> THEN Normally(Nil, env, st)
  ELSE AndThen(Statement(Head(block), env, st), LAMBDA x : Block(Tail(block), x.env, x.st))

-----------------------------------------------------------------------------
\* A script run in a store: `let` outside every block makes a global.
Meaning(program, st) == Block(program, [locals |-> <<>>, local |-> FALSE], [st EXCEPT !.out = <<>>])
FreshStore == [globals |-> Builtins, heap |-> <<>>, files |-> <<>>, out |-> <<>>]
=============================================================================
