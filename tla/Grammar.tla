------------------------------ MODULE Grammar ------------------------------
(***************************************************************************)
(* How a program is written: the reference the parser is held to, from     *)
(* docs/language.md and docs/grammar.md.  A tree is written as lines, a    *)
(* line as the pieces of module Lexer, in one of several styles.           *)
(***************************************************************************)
EXTENDS Lexer, Language
LOCAL INSTANCE SequencesExt
LOCAL INSTANCE TLC

\* A word is a sequence of pieces; no blank may stand inside one.
Words(words) == [i \in DOMAIN words |-> <<words[i]>>]

(***************************************************************************)
(* Expressions: docs/language.md:213                                       *)
(***************************************************************************)
Sign ==
  [ADD |-> <<"+">>, SUB |-> <<"-">>, MUL |-> <<"*">>, DIV |-> <<"/">>, MOD |-> <<"%">>,
   CONCAT |-> <<".", ".">>, LT |-> <<"<">>, GT |-> <<">">>, LTE |-> <<"<", "=">>,
   GTE |-> <<">", "=">>, EQ |-> <<"=", "=">>, NEQ |-> <<"!", "=">>]
OperatorLevel ==
  [ADD |-> 5, SUB |-> 5, MUL |-> 6, DIV |-> 6, MOD |-> 6, CONCAT |-> 4,
   LT |-> 3, GT |-> 3, LTE |-> 3, GTE |-> 3, EQ |-> 2, NEQ |-> 2]
Level(e) ==
  CASE e[1] = "or" -> 0
    [] e[1] = "and" -> 1
    [] e[1] = "binary" -> OperatorLevel[e[2]]
    [] e[1] = "unary" -> 7
    [] e[1] \in {"call", "index"} -> 8
    [] OTHER -> 9

\* Strings: docs/grammar.md:120.
EscapedAs(c) ==
  CASE c = "\n" -> <<"\\", "n">> [] c = "\t" -> <<"\\", "t">> [] c = "\r" -> <<"\\", "r">>
    [] c \in {Quote, "\\"} -> <<"\\", c>> [] OTHER -> <<c>>
Characters(text) == [i \in 1 .. Len(text) |-> SubSeq(text, i, i)]
Quoted(text) ==
  <<Quote>> \o FlattenSeq([i \in 1 .. Len(text) |-> EscapedAs(Characters(text)[i])]) \o <<Quote>>
LiteralWord(v) ==
  CASE v = Nil -> <<"nil">>
    [] Is("bool", v) -> IF v[2] THEN <<"true">> ELSE <<"false">>
    [] Is("str", v) -> Quoted(v[2])
    [] Len(v) = 2 -> Characters(ToString(v[2]))
    [] OTHER -> Characters(ToString(v[2])) \o <<".">> \o Characters(v[3])

InParentheses(words) == Words(<<"(">>) \o words \o Words(<<")">>)
Separated(groups) ==
  FlattenSeq([i \in DOMAIN groups |-> IF i = 1 THEN groups[i] ELSE Words(<<",">>) \o groups[i]])

\* An operand takes parentheses when it binds no tighter than `level`; in the
\* full style every operand does that is not one word.
RECURSIVE ExprWords(_, _)
Operand(e, level, st) ==
  IF Level(e) < level \/ (st.full /\ Level(e) < 9) THEN InParentheses(ExprWords(e, st))
                                                   ELSE ExprWords(e, st)
Operands(e, sign, a, b, st) == Operand(a, Level(e), st) \o <<sign>> \o Operand(b, Level(e) + 1, st)
ExprWords(e, st) ==
  CASE e[1] = "lit" -> <<LiteralWord(e[2])>>
    [] e[1] = "var" -> <<<<e[2]>>>>
    [] e[1] = "unary" -> <<IF e[2] = "NOT" THEN <<st.not>> ELSE <<"-">> >> \o Operand(e[3], 7, st)
    [] e[1] \in {"and", "or"} -> Operands(e, <<e[1]>>, e[2], e[3], st)
    [] e[1] = "binary" -> Operands(e, Sign[e[2]], e[3], e[4], st)
    [] e[1] = "call" -> Operand(e[2], 8, st) \o
                        InParentheses(Separated([i \in DOMAIN e[3] |-> ExprWords(e[3][i], st)]))
    [] e[1] = "index" -> Operand(e[2], 8, st) \o Words(<<"[">>) \o ExprWords(e[3], st) \o Words(<<"]">>)
    [] e[1] = "array" -> Words(<<"[">>) \o Separated([i \in DOMAIN e[2] |-> ExprWords(e[2][i], st)])
                         \o Words(<<"]">>)

(***************************************************************************)
(* Lines: docs/grammar.md:160.  Between two words there may be a blank,    *)
(* and between two that would run together there is one.                   *)
(***************************************************************************)
RunTogether(a, b) == \A piece \in {Last(a), Head(b)} : Begins(piece, Letters \cup Digits)
Spread(words, st) ==
  FlattenSeq([i \in DOMAIN words |->
                IF i > 1 /\ (st.wide \/ RunTogether(words[i-1], words[i]))
                  THEN <<" ">> \o words[i] ELSE words[i]])
LineOf(words, st) == Spread(words, st) \o st.remark
EndLine == <<"end">>
Indented(lines, st) == [i \in DOMAIN lines |-> st.margin \o lines[i]]

\* A statement begins with a name: only what follows it may take parentheses.
Leading(e, st) == ExprWords(e, [st EXCEPT !.full = FALSE])

RECURSIVE StatementLines(_, _)
BlockLines(block, st) == FlattenSeq([i \in DOMAIN block |-> StatementLines(block[i], st)])
Body(block, st) == Indented(BlockLines(block, st), st)
HeadLine(word, e, st) == <<LineOf(Words(<<word>>) \o ExprWords(e, st), st)>>

StatementLines(t, st) ==
  CASE t[1] = "let" -> <<LineOf(Words(<<"let", t[2], "=">>) \o ExprWords(t[3], st), st)>>
    [] t[1] = "assign" -> <<LineOf(Words(<<t[2], "=">>) \o ExprWords(t[3], st), st)>>
    [] t[1] = "setindex" -> <<LineOf(Leading(Index(t[2], t[3]), st) \o Words(<<"=">>)
                                     \o ExprWords(t[4], st), st)>>
    [] t[1] = "expr" -> <<LineOf(Leading(t[2], st), st)>>
    [] t[1] = "print" -> HeadLine("print", t[2], st)
    [] t = Return(Lit(Nil)) -> <<LineOf(Words(<<"return">>), st)>>
    [] t[1] = "return" /\ t # Return(Lit(Nil)) -> HeadLine("return", t[2], st)
    [] t[1] = "import" -> HeadLine("import", Lit(Str(t[2])), st)
    [] t[1] = "if" -> HeadLine("if", t[2], st) \o Body(t[3], st) \o
                      (IF t[4] = <<>> THEN <<>> ELSE <<LineOf(Words(<<"else">>), st)>> \o Body(t[4], st))
                      \o <<EndLine>>
    [] t[1] = "loop" -> HeadLine("loop", t[2], st) \o Body(t[3], st) \o <<EndLine>>
    [] t[1] = "function" ->
         <<LineOf(Words(<<"function", t[2]>>) \o
                  InParentheses(Separated([i \in DOMAIN t[3] |-> Words(<<t[3][i]>>)])), st)>>
         \o Body(t[4], st) \o <<EndLine>>
    [] t[1] = "try" -> <<LineOf(Words(<<"try">>), st)>> \o Body(t[2], st) \o
                       <<LineOf(Words(<<"catch", t[3]>>), st)>> \o Body(t[4], st) \o <<EndLine>>

\* A text is its lines, a newline after each.
TextOf(lines) == FlattenSeq([i \in DOMAIN lines |-> Append(lines[i], "\n")])

(***************************************************************************)
(* What a text says, whatever its layout: its tokens but for those that    *)
(* group, separate and close, and `!` is another way to write `not`.       *)
(***************************************************************************)
Layout == {"(", ")", ",", "NEWLINE", "EOF", "end", "else"}
Says(token) == IF token[1] \in Layout THEN <<>> ELSE IF token = <<"!">> THEN << <<"not">> >> ELSE <<token>>
RECURSIVE BareFrom(_)
BareFrom(next) == IF next.token = <<"EOF">> THEN <<>> ELSE Says(next.token) \o BareFrom(NextToken(next.text))
Bare(text) == BareFrom(NextToken(text))
Plain == [wide |-> FALSE, full |-> FALSE, not |-> "not", margin |-> <<>>, remark |-> <<>>]
=============================================================================
