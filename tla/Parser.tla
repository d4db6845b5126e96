------------------------------- MODULE Parser -------------------------------
(***************************************************************************)
(* parser.cpp: from text to the trees of module Language.  A parser p has  *)
(* the current token, the text after it, whether an error                  *)
(* was met, and the tree, or the sequence of them, that was parsed last.   *)
(* A statement is a sequence of one tree, and NULL the empty one.          *)
(***************************************************************************)
EXTENDS Lexer, Language
LOCAL INSTANCE SequencesExt

Parsed(p, val) == [p EXCEPT !.val = val]
Failed(p) == [p EXCEPT !.err = TRUE]

(***************************************************************************)
(* Tokens                                                                  *)
(***************************************************************************)
Current(p) == p.token[1]
Check(p, type) == Current(p) = type
CheckAny(p, types) == Current(p) \in types

\* The parts of the parser call each other through one recursion, by name:
\* what the part that `rule` is headed by makes of p.
RECURSIVE Derive(_, _)
Advance(p) == Derive(<<"advance">>, p)

\* ERROR tokens are reported and passed over.
RECURSIVE PassErrors(_)
WithToken(p, next) == PassErrors([p EXCEPT !.token = next.token, !.text = next.text])
PassErrors(p) ==
  IF Check(p, "ERROR") THEN WithToken(Failed(p), NextToken(p.text)) ELSE p
NextOf(p) == WithToken(p, NextToken(p.text))

Expect(p, type) == IF Check(p, type) THEN Advance(p) ELSE Failed(p)
\* What begins no statement is skipped to the end of its line.
RECURSIVE SkipLine(_)
SkipLine(p) ==
  CASE Check(p, "EOF") -> p [] Check(p, "NEWLINE") -> Advance(p) [] OTHER -> SkipLine(Advance(p))
\* Fault: so is what is left of any line.
FaultyExpectNewline(p) == SkipLine(p)
ExpectNewline(p) == IF Check(p, "EOF") THEN p ELSE Expect(p, "NEWLINE")
RECURSIVE SkipNewlines(_)
SkipNewlines(p) == IF Check(p, "NEWLINE") THEN SkipNewlines(Advance(p)) ELSE p

\* The text of the current token, when it is of the type that is expected.
TextIf(p, type) == IF Check(p, type) THEN p.token[2] ELSE ""
InitParser(text) == Advance([token |-> <<"EOF">>, text |-> text, err |-> FALSE, val |-> <<>>])

(***************************************************************************)
(* Expressions                                                             *)
(***************************************************************************)
\* parseOr to parseMultiply, from the loosest on: the operators of a level
\* and the nodes they make.
Levels ==
  << [op \in {"or"} |-> "OR"], [op \in {"and"} |-> "AND"],
     [op \in {"==", "!="} |-> IF op = "==" THEN "EQ" ELSE "NEQ"],
     [op \in {"<", ">", "<=", ">="} |->
        CASE op = "<" -> "LT" [] op = ">" -> "GT" [] op = "<=" -> "LTE" [] op = ">=" -> "GTE"],
     [op \in {"+", "-", ".."} |->
        CASE op = "+" -> "ADD" [] op = "-" -> "SUB" [] op = ".." -> "CONCAT"],
     [op \in {"*", "/", "%"} |->
        CASE op = "*" -> "MUL" [] op = "/" -> "DIV" [] op = "%" -> "MOD"] >>
BinaryNode(op, a, b) ==
  CASE op = "OR" -> Or(a, b) [] op = "AND" -> And(a, b) [] OTHER -> Binary(op, a, b)

ParseExpr(p) == Derive(<<"level", 1>>, p)

\* The loop of a level: p.val is the left operand so far.
WithRight(left, right, op) == Parsed(right, BinaryNode(op, left, right.val))
\* Fault: an operator takes all that follows at its level as its right operand.
FaultyParseOperators(level, p) ==
  IF CheckAny(p, DOMAIN Levels[level])
    THEN Derive(<<"operators", level>>,
                WithRight(p.val, Derive(<<"level", level>>, Advance(p)), Levels[level][Current(p)]))
    ELSE p
ParseOperators(level, p) ==
  IF CheckAny(p, DOMAIN Levels[level])
    THEN Derive(<<"operators", level>>,
                WithRight(p.val, Derive(<<"level", level + 1>>, Advance(p)), Levels[level][Current(p)]))
    ELSE p
ParseLevel(level, p) ==
  IF level > Len(Levels) THEN Derive(<<"unary">>, p)
                         ELSE ParseOperators(level, Derive(<<"level", level + 1>>, p))

\* Items up to a closing token, a comma after each; the last may have one.
ItemParsed(close, items, q) ==
  IF Check(q, ",") THEN Derive(<<"items", close, items>>, Advance(q)) ELSE Parsed(q, items)
WithItem(close, items, q) == ItemParsed(close, Append(items, q.val), q)
ParseItems(close, items, p) ==
  IF CheckAny(p, {close, "EOF"}) THEN Parsed(p, items) ELSE WithItem(close, items, ParseExpr(p))
ParseList(close, p) == Expect(Derive(<<"items", close, <<>>>>, Advance(p)), close)

\* parsePrimary; an array literal and a parenthesis are the two that nest.
ParsePrimary(p) ==
  CASE Check(p, "NUMBER") -> Parsed(Advance(p), Lit(<<"num">> \o Tail(p.token)))
    [] Check(p, "STRING") -> Parsed(Advance(p), Lit(Str(p.token[2])))
    [] Check(p, "true") -> Parsed(Advance(p), Lit(Bool(TRUE)))
    [] Check(p, "false") -> Parsed(Advance(p), Lit(Bool(FALSE)))
    [] Check(p, "nil") -> Parsed(Advance(p), Lit(Nil))
    [] Check(p, "IDENT") -> Parsed(Advance(p), Var(p.token[2]))
    [] Check(p, "[") -> LET q == ParseList("]", p) IN Parsed(q, Array(q.val))
    [] Check(p, "(") -> Expect(ParseExpr(Advance(p)), ")")
    [] OTHER -> Parsed(Failed(p), Lit(Nil))

ParseUnary(p) ==
  IF CheckAny(p, {"-", "not", "!"})
    THEN LET q == Derive(<<"unary">>, Advance(p))
         IN Parsed(q, Unary(IF Check(p, "-") THEN "NEGATE" ELSE "NOT", q.val))
    ELSE Derive(<<"call">>, ParsePrimary(p))

\* Calls and indexes after an expression, as many as there are.
CallOf(callee, q) == Parsed(q, Call(callee, q.val))
ItemOf(object, q) == Parsed(q, Index(object, q.val))
ParseCall(p) ==
  CASE Check(p, "(") -> Derive(<<"call">>, CallOf(p.val, ParseList(")", p)))
    [] Check(p, "[") -> Derive(<<"call">>, ItemOf(p.val, Expect(ParseExpr(Advance(p)), "]")))
    [] OTHER -> p

(***************************************************************************)
(* Statements                                                              *)
(***************************************************************************)
\* A statement that ends with its line.
Line(p, stmt) == Parsed(ExpectNewline(p), <<stmt>>)

ParseLet(p) ==
  LET q == ParseExpr(Expect(Expect(p, "IDENT"), "="))
  IN Line(q, Let(TextIf(p, "IDENT"), q.val))
ParsePrint(p) == LET q == ParseExpr(p) IN Line(q, Output(q.val))
ParseReturn(p) ==
  IF CheckAny(p, {"NEWLINE", "EOF"}) THEN Line(p, Return(Lit(Nil)))
                                     ELSE LET q == ParseExpr(p) IN Line(q, Return(q.val))
ParseImport(p) == Line(Expect(p, "STRING"), Import(TextIf(p, "STRING")))

\* parseBlock: newlines are passed over before the end is looked for.
BlockFrom(stops, stmts, p) ==
  IF CheckAny(p, stops \cup {"EOF"}) THEN Parsed(p, stmts)
  ELSE LET q == Derive(<<"statement">>, p) IN Derive(<<"block", stops, stmts \o q.val>>, q)
ParseBlock(stops, stmts, p) == BlockFrom(stops, stmts, SkipNewlines(p))
Block(p) == Derive(<<"block", {"end", "else"}, <<>>>>, p)
EndOf(p, stmt) == Line(Expect(p, "end"), stmt)

\* The test of an if or a loop, and the block after it.
IfElse(cond, then) ==
  IF Check(then, "else")
    THEN LET else == Block(ExpectNewline(Advance(then))) IN EndOf(else, If(cond, then.val, else.val))
    ELSE EndOf(then, If(cond, then.val, <<>>))
ParseIf(p) == LET cond == ParseExpr(p) IN IfElse(cond.val, Block(ExpectNewline(cond)))
LoopOver(cond, body) == EndOf(body, Loop(cond, body.val))
ParseLoop(p) == LET cond == ParseExpr(p) IN LoopOver(cond.val, Block(ExpectNewline(cond)))

RECURSIVE ParseParams(_, _)
ParseParams(names, p) ==
  IF CheckAny(p, {")", "EOF"}) THEN Parsed(p, names)
  ELSE LET q == Expect(p, "IDENT")
           more == Append(names, TextIf(p, "IDENT"))
       IN IF Check(q, ",") THEN ParseParams(more, Advance(q)) ELSE Parsed(q, more)
FunctionOf(name, head) ==
  LET body == Block(ExpectNewline(Expect(head, ")")))
  IN EndOf(body, Function(name, head.val, body.val))
ParseFunction(p) ==
  FunctionOf(TextIf(p, "IDENT"), ParseParams(<<>>, Expect(Expect(p, "IDENT"), "(")))

\* The two bodies of a try look for their end before they pass over newlines,
\* and a statement that is looked for passes over them.
ParseTryBody(stop, stmts, p) ==
  IF CheckAny(p, {stop, "EOF"}) THEN Parsed(p, stmts)
  ELSE LET q == Derive(<<"statement">>, p)
       IN Derive(<<"try body", stop, stmts \o q.val>>, SkipNewlines(q))
TryBody(stop, p) == Derive(<<"try body", stop, <<>>>>, ExpectNewline(p))
Handler(body, p) ==
  LET handler == TryBody("end", Expect(p, "IDENT"))
  IN EndOf(handler, Try(body, TextIf(p, "IDENT"), handler.val))
ParseTry(p) == LET body == TryBody("catch", p) IN Handler(body.val, Expect(body, "catch"))

\* A statement that begins with a name: an assignment, an assignment to an
\* item, or an expression that is a name, an item, or a call of a call.
ItemStatement(object, index) ==
  IF Check(index, "=")
    THEN LET q == ParseExpr(Advance(index)) IN Line(q, SetIndex(object, index.val, q.val))
    ELSE Line(index, Eval(Index(object, index.val)))
RECURSIVE ParseCalls(_)
ParseCalls(p) == IF Check(p, "(") THEN ParseCalls(CallOf(p.val, ParseList(")", p))) ELSE p
ExprStatement(p) == Line(p, Eval(p.val))
ParseName(x, p) ==
  CASE Check(p, "=") -> LET q == ParseExpr(Advance(p)) IN Line(q, Assign(x, q.val))
    [] Check(p, "[") -> ItemStatement(Var(x), Expect(ParseExpr(Advance(p)), "]"))
    [] OTHER -> ExprStatement(ParseCalls(Parsed(p, Var(x))))

\* parseStmt, at a token that is no newline; an `end` or `else` that closes
\* nothing is passed over without an error.
Statement(p) ==
  CASE Check(p, "let") -> ParseLet(Advance(p))
    [] Check(p, "print") -> ParsePrint(Advance(p))
    [] Check(p, "if") -> ParseIf(Advance(p))
    [] Check(p, "loop") -> ParseLoop(Advance(p))
    [] Check(p, "function") -> ParseFunction(Advance(p))
    [] Check(p, "return") -> ParseReturn(Advance(p))
    [] Check(p, "import") -> ParseImport(Advance(p))
    [] Check(p, "try") -> ParseTry(Advance(p))
    [] Check(p, "IDENT") -> ParseName(p.token[2], Advance(p))
    [] CheckAny(p, {"end", "else"}) -> Parsed(Advance(p), <<>>)
    [] Check(p, "EOF") -> Parsed(p, <<>>)
    [] OTHER -> Parsed(SkipLine(Failed(Advance(p))), <<>>)
ParseStmt(p) == Statement(SkipNewlines(p))

Derive(rule, p) ==
  CASE rule[1] = "advance" -> NextOf(p)
    [] rule[1] = "level" -> ParseLevel(rule[2], p)
    [] rule[1] = "operators" -> ParseOperators(rule[2], p)
    [] rule[1] = "unary" -> ParseUnary(p)
    [] rule[1] = "call" -> ParseCall(p)
    [] rule[1] = "items" -> ParseItems(rule[2], rule[3], p)
    [] rule[1] = "statement" -> ParseStmt(p)
    [] rule[1] = "block" -> ParseBlock(rule[2], rule[3], p)
    [] rule[1] = "try body" -> ParseTryBody(rule[2], rule[3], p)

\* parse: statements up to the end; the tree is no use when there is an error.
Result(p) == [ok |-> ~p.err, tree |-> p.val]
Parse(text) == Result(Derive(<<"block", {}, <<>>>>, InitParser(text)))
=============================================================================
