----------------------------- MODULE MCEntries -----------------------------
(***************************************************************************)
(* Programs that put every operator beside and inside every other, and     *)
(* every statement inside and after every other, written in three styles;  *)
(* and, for a run of its own, `..` beside an operator that binds tighter.  *)
(***************************************************************************)
EXTENDS Reading
LOCAL INSTANCE SequencesExt

MCLetters == {"a", "b", "c", "d", "e", "f", "g", "h", "i", "j", "k", "l", "m", "n", "o", "p", "q",
              "r", "s", "t", "u", "v", "w", "x", "y", "z", "_"}
MCDigits == {"0", "1", "2", "3", "4", "5", "6", "7", "8", "9"}

a == Var("a")
b == Var("b")
c == Var("c")
n(i) == Lit(Num(i))

(***************************************************************************)
(* Expressions                                                             *)
(***************************************************************************)
Operators == <<"OR", "AND", "EQ", "NEQ", "LT", "GT", "LTE", "GTE", "ADD", "SUB", "CONCAT",
               "MUL", "DIV", "MOD">>
Node(op, x, y) == CASE op = "OR" -> Or(x, y) [] op = "AND" -> And(x, y) [] OTHER -> Binary(op, x, y)

Singles == [i \in DOMAIN Operators |-> <<Output(Node(Operators[i], a, b))>>]

\* Operators of every level, each with each on either side.
Chosen == <<"OR", "AND", "EQ", "LT", "ADD", "SUB", "CONCAT", "MUL", "DIV">>
Count == Len(Chosen)
Left(op1, op2) == <<Output(Node(op1, Node(op2, a, b), c))>>
Right(op1, op2) == <<Output(Node(op1, a, Node(op2, b, c)))>>
First(i) == Chosen[(i \div Count) + 1]
Second(i) == Chosen[(i % Count) + 1]
\* `a .. b + c`: an operand of `..` that binds tighter, to its right.
Mixed == << Right("CONCAT", "ADD"), Right("CONCAT", "SUB") >>
Pairs == [i \in 1 .. Count * Count |-> Left(First(i - 1), Second(i - 1))]
         \o SelectSeq([i \in 1 .. Count * Count |-> Right(First(i - 1), Second(i - 1))],
                      LAMBDA program : program \notin ToSet(Mixed))

Not(x) == Unary("NOT", x)
Minus(x) == Unary("NEGATE", x)
Others ==
  << Not(Minus(a)), Minus(Not(a)), Minus(Minus(n(1))), Not(Binary("EQ", a, b)), Binary("EQ", Not(a), Not(b)),
     Minus(Binary("MUL", a, b)), Binary("SUB", Minus(a), Minus(b)), Minus(Call(Var("f"), <<Minus(a)>>)),
     Call(Index(a, n(0)), <<b>>), Index(Call(Var("f"), <<>>), Binary("ADD", a, n(10))), Call(Call(a, <<>>), <<b, c>>),
     Index(Index(a, n(1)), Index(b, Minus(n(2)))), Call(Not(a), <<>>), Index(Binary("ADD", a, b), n(0)),
     Array(<<>>), Array(<<Array(<<a>>), Or(a, b), Lit(Str("")), Lit(Nil)>>), Index(Array(<<a, b>>), n(1)),
     Lit(Str("a\nb\\n\"c\"\t\\")), Lit(Str("# a")), Binary("CONCAT", Lit(Str("end")), Lit(Str("a(,"))),
     Binary("CONCAT", n(1), Lit(<<"num", 2, "50">>)), Binary("CONCAT", Lit(<<"num", 0, "5">>), n(7)),
     And(Lit(Bool(TRUE)), Lit(Bool(FALSE))), Binary("LT", Var("ended"), Var("words")) >>

(***************************************************************************)
(* Statements                                                              *)
(***************************************************************************)
Simple ==
  << Let("a", n(1)), Assign("catching", b), SetIndex(a, n(0), Array(<<b>>)), Output(a), Return(a), Return(Lit(Nil)),
     Eval(a), Eval(Call(Call(Var("f"), <<a>>), <<>>)), Eval(Index(a, b)), Import("m"), Function("g", <<>>, <<>>) >>
Blocks(body) ==
  << If(a, body, <<>>), If(a, <<>>, body), If(a, body, body), Loop(a, body),
     Function("f", <<"a", "b">>, body), Try(body, "e", <<>>), Try(<<>>, "e", body), Try(body, "e", body) >>
Nested == FlattenSeq([i \in DOMAIN Blocks(<<>>) |-> Blocks(<<Blocks(<<Output(a)>>)[i], Let("b", a)>>)])
Long == Function("f", <<"a">>, <<Loop(a, Simple), If(a, SubSeq(Simple, 1, 4), <<>>), Output(b)>>)

Programs ==
  Pairs \o Singles \o [i \in DOMAIN Others |-> <<Output(Others[i])>>]
  \o << Simple >> \o [i \in DOMAIN Blocks(<<>>) |-> <<Blocks(<<>>)[i], Output(c)>>]
  \o [i \in DOMAIN Nested |-> <<Nested[i]>>]
  \o << <<Long, Output(a)>> >>
MCPrograms == Programs

(***************************************************************************)
(* Ways to write them                                                      *)
(***************************************************************************)
Styles ==
  << Plain,
     [Plain EXCEPT !.wide = TRUE, !.not = "!", !.margin = <<" ", "\t">>],
     [Plain EXCEPT !.full = TRUE, !.remark = <<"#", Quote, "end">>] >>
Ways(program) == [k \in DOMAIN Styles |-> BlockLines(program, Styles[k])] \o <<>>
AllWritten == LET programs == Programs IN [i \in DOMAIN programs |-> Ways(programs[i])] \o <<>>
MCWritten == AllWritten
Files(ways) == [k \in DOMAIN ways |-> TextOf(ways[k])] \o <<>>
AllTexts == LET written == AllWritten IN [i \in DOMAIN written |-> Files(written[i])] \o <<>>
MCTexts == AllTexts
MCPieces == STRING

\* A piece left out, and a piece written twice, in the programs after the pairs.
SlipsIn(text) ==
  [i \in DOMAIN text |-> RemoveAt(text, i)] \o [i \in DOMAIN text |-> InsertAt(text, i, text[i])]
AllSlips ==
  LET written == AllWritten
  IN [i \in DOMAIN written |->
        IF i > Len(Pairs) THEN SlipsIn(TextOf(written[i][1])) ELSE <<>>] \o <<>>
MCSlips == AllSlips

(***************************************************************************)
(* The programs left out, by themselves.                                   *)
(***************************************************************************)
MixedPrograms == Mixed
MixedWritten == [i \in DOMAIN Mixed |-> Ways(Mixed[i])] \o <<>>
MixedTexts == [i \in DOMAIN Mixed |-> Files(MixedWritten[i])] \o <<>>
MixedSlips == [i \in DOMAIN Mixed |-> <<>>] \o <<>>
=============================================================================
