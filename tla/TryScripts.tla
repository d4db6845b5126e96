----------------------------- MODULE TryScripts -----------------------------
(***************************************************************************)
(* Every script of one shape: a function f, a try block that calls it and  *)
(* a catch block, with the three bodies drawn from a list of fragments     *)
(* that return, throw, abort, nest and declare.                            *)
(***************************************************************************)
EXTENDS Language

n(i) == Lit(Num(i))
s(x) == Lit(Str(x))
error(e) == Eval(Call(Var("error"), <<e>>))
Throwing == error(s("boom"))
less(a, b) == Binary("LT", a, b)
add(a, b) == Binary("ADD", a, b)

\* Bodies of f(p).
FunctionBodies ==
  << <<>>,
     <<Return(Var("p"))>>,
     <<Throwing>>,
     <<Let("a", Var("p")), Try(<<Let("b", Binary("DIV", n(6), Var("a")))>>, "e",
       <<Output(Var("e")), Assign("a", n(7))>>), Return(add(Var("a"), Var("p")))>>,
     <<If(less(Var("p"), n(2)), <<Let("a", n(5)), Return(Call(Var("f"), <<add(Var("p"), n(1))>>))>>, <<>>),
       Throwing>>,
     <<Let("i", n(0)), Loop(less(Var("i"), Var("p")),
         <<Let("k", Var("i")), Try(<<Let("q", n(1)), Throwing>>, "e", <<Assign("g", Var("k"))>>),
           Assign("i", add(Var("i"), n(1)))>>)>>,
     <<Return(Binary("CONCAT", Var("p"), Var("g")))>>,
     <<Function("k", <<>>, <<Let("z", Lit(Bool(TRUE))), Throwing>>),
       Try(<<Let("y", Var("p")), Eval(Call(Var("k"), <<>>))>>, "e", <<Let("w", Var("e")), Return(Var("w"))>>)>> >>

\* Bodies of the try block.
TryBodies ==
  << <<Let("x", Call(Var("f"), <<n(1)>>)), Output(Var("x"))>>,
     <<Output(add(Call(Var("f"), <<n(2)>>), Call(Var("f"), <<n(1)>>)))>>,
     <<Try(<<Let("x", n(3)), Eval(Call(Var("f"), <<Var("x")>>))>>, "e",
           <<Output(Var("e")), Throwing>>)>>,
     <<Let("x", Array(<<n(4), Call(Var("f"), <<n(0)>>)>>)), SetIndex(Var("x"), n(-1), n(1)),
       Output(Index(Var("x"), n(1)))>>,
     <<Eval(Call(Var("pop"), <<Array(<<>>)>>))>>,
     <<Assign("nowhere", n(1))>>,
     <<If(And(Call(Var("f"), <<n(1)>>), Unary("NOT", Lit(Nil))), <<Throwing>>, <<Output(s("no"))>>)>>,
     <<Assign("g", Or(Lit(Bool(FALSE)), Call(Var("f"), <<n(1)>>)))>>,
     <<Let("x", n(2)), Import(<<Let("m", n(3)), Function("h", <<>>, <<Return(Var("m"))>>),
                                Output(Call(Var("f"), <<Var("m")>>)), Return(Lit(Nil)), Throwing>>),
       Output(add(Var("x"), Call(Var("h"), <<>>)))>> >>

\* Bodies of the catch block.
CatchBodies ==
  << <<Output(Var("e"))>>,
     <<Let("y", Var("e")), Assign("g", Var("y"))>>,
     <<Throwing>>,
     <<Try(<<Eval(Call(Var("f"), <<n(1), n(2)>>))>>, "d", <<>>)>> >>

Script(i, j, k) ==
  << Let("g", n(0)),
     Function("f", <<"p">>, FunctionBodies[i]),
     Try(TryBodies[j], "e", CatchBodies[k]),
     Output(Var("g")) >>

\* The i-th choice of three bodies.
Nt == Len(TryBodies)
Nc == Len(CatchBodies)
Choice(i) == Script((i \div (Nt * Nc)) + 1, ((i \div Nc) % Nt) + 1, (i % Nc) + 1)

ScriptPool == [i \in 1 .. Len(FunctionBodies) * Nt * Nc |-> Choice(i - 1)]
=============================================================================
