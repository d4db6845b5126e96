-------------------------- MODULE OperatorScripts --------------------------
(***************************************************************************)
(* Every operator, built-in function and index on operands of every type,  *)
(* each in a function called from a try block with locals around it: the   *)
(* checks, what is popped before an error is raised, and what is left.     *)
(***************************************************************************)
EXTENDS Language
LOCAL S == INSTANCE SequencesExt

n(i) == Lit(Num(i))
Operands ==
  << Lit(Nil), Lit(Bool(TRUE)), n(0), n(3), n(-2), Lit(Str("ab")),
     Array(<<n(5), n(6)>>), Array(<<>>), Var("f") >>
\* f(a, b) has a local below and an array that outlives the error above it.
Around(body) ==
  << Function("f", <<"a", "b">>, <<Let("kept", Var("a"))>> \o body \o <<Return(Var("kept"))>>),
     Let("box", Array(<<n(1), n(2), n(3)>>)) >>
Tried(x, y) ==
  << Try(<<Let("x", n(7)), Output(Call(Var("f"), <<x, y>>)), Output(Var("x"))>>, "e",
         <<Output(Var("e")), Output(Var("box"))>>),
     Output(Var("box")) >>
\* What f does with its arguments.
Binaries == <<"ADD", "SUB", "MUL", "DIV", "MOD", "LT", "GT", "LTE", "GTE", "EQ", "NEQ", "CONCAT">>
Bodies ==
  LET a == Var("a")
      b == Var("b")
  IN [i \in DOMAIN Binaries |-> <<Output(Binary(Binaries[i], a, b))>>]
     \o << <<Output(Unary("NOT", a))>>, <<Output(Unary("NEGATE", a))>>,
           <<Output(And(a, b))>>, <<Output(Or(a, b))>>,
           <<Output(Call(Var("push"), <<a, b>>))>>, <<Output(Call(Var("remove"), <<a, b>>))>>,
           <<Output(Call(Var("assert"), <<a, b>>))>>, <<Output(Call(Var("len"), <<a>>))>>,
           <<Output(Call(Var("pop"), <<a>>))>>, <<Output(Call(Var("error"), <<a>>))>>,
           <<Output(Index(a, b))>>, <<SetIndex(a, b, n(9)), Output(a)>> >>

\* A script is a body, a first operand, and every second operand in turn.
\* Left out: assigning out of bounds, an error in the documents that the code drops
\* in silence, and a quotient that is not whole.
W == Len(Operands)
Stays(body, x, y) ==
  /\ Bodies[body][1][1] = "setindex" /\ y \in {3, 4, 5} =>
       CASE x = 7 -> InBounds(Operands[y][2][2], 2)
         [] x = 8 -> FALSE
         [] OTHER -> TRUE
  /\ body = 4 => <<x, y>> \notin {<<4, 5>>, <<5, 4>>}
Attempts(body, x) ==
  S!FoldLeft(LAMBDA done, y : IF Stays(body, x, y) THEN done \o Tried(Operands[x], Operands[y]) ELSE done,
           <<>>, [y \in 1 .. W |-> y])

OperatorPool ==
  [i \in 1 .. Len(Bodies) * W |->
     LET body == ((i - 1) \div W) + 1
     IN Around(Bodies[body]) \o Attempts(body, ((i - 1) % W) + 1)]
=============================================================================
