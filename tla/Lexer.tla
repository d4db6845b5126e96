------------------------------- MODULE Lexer -------------------------------
(***************************************************************************)
(* lexer.cpp: from text to tokens.  A text is a sequence of pieces: letters *)
(* in a row, a digit, or any other character.  A token is a      *)
(* tuple headed by its type: <<"IDENT", name>>, <<"STRING", content>>,     *)
(* <<"NUMBER", whole>> or <<"NUMBER", whole, fraction>>, or a type alone,  *)
(* named as it is written.                                                 *)
(***************************************************************************)
EXTENDS Integers, Sequences
LOCAL INSTANCE SequencesExt
LOCAL INSTANCE FiniteSetsExt
LOCAL INSTANCE TLC

CONSTANTS
  Letters,     \* what isalpha and '_' accept
  Digits       \* what isdigit accepts

Keywords == {"let", "print", "if", "else", "loop", "function", "return", "import", "try",
             "catch", "end", "true", "false", "nil", "and", "or", "not"}
Symbols == {"+", "-", "*", "/", "%", "(", ")", ",", "[", "]", "=", "==", "!=", "!",
            "<", ">", "<=", ">=", ".."}
Blanks == {" ", "\t", "\r"}
Quote == "\""

\* The text of the first n pieces, and what follows them.
Text(pieces) == FoldLeft(LAMBDA a, b : a \o b, "", pieces)
Rest(s, n) == SubSeq(s, n + 1, Len(s))

\* How many pieces from the first on begin with a character of the given kind.
Begins(piece, kind) == SubSeq(piece, 1, 1) \in kind
Span(s, kind) ==
  LET others == {i \in DOMAIN s : ~Begins(s[i], kind)}
  IN IF others = {} THEN Len(s) ELSE Min(others) - 1
UpTo(s, c) == LET at == {i \in DOMAIN s : s[i] = c} IN IF at = {} THEN Len(s) ELSE Min(at) - 1
StartsWith(s, c) == s # <<>> /\ s[1] = c

(***************************************************************************)
(* Strings and numbers                                                     *)
(***************************************************************************)
\* scanString: the position of the closing quote, from i on; a backslash
\* takes what follows with it.  Past the end when there is none.
RECURSIVE ClosingQuote(_, _)
ClosingQuote(s, i) ==
  IF i > Len(s) \/ s[i] = Quote THEN i
  ELSE ClosingQuote(s, IF s[i] = "\\" THEN i + 2 ELSE i + 1)

\* extractString: the content of a literal, its escapes replaced.
Escape(c) == CASE c = "n" -> "\n" [] c = "t" -> "\t" [] c = "r" -> "\r"
               [] c \in {Quote, "\\"} -> c [] OTHER -> "\\" \o c
RECURSIVE ExtractString(_)
ExtractString(s) ==
  IF s = <<>> THEN ""
  ELSE IF s[1] = "\\" /\ Len(s) > 1 THEN Escape(s[2]) \o ExtractString(Rest(s, 2))
  ELSE s[1] \o ExtractString(Tail(s))

\* A point belongs to a number when a digit follows it.
Fraction(s) == IF Len(s) > 1 /\ s[1] = "." /\ Begins(s[2], Digits) THEN 1 + Span(Tail(s), Digits) ELSE 0
NumberLength(s) == Span(s, Digits) + Fraction(Rest(s, Span(s, Digits)))

\* strtod: a whole number by its value, another with its decimals after it.
Digit(d) == CHOOSE n \in 0 .. 9 : ToString(n) = d
Whole(digits) == FoldLeft(LAMBDA n, d : 10 * n + Digit(d), 0, digits)
NumberValue(s) ==
  <<Whole(SubSeq(s, 1, Span(s, Digits)))>> \o
  (IF Span(s, Digits) = Len(s) THEN <<>> ELSE <<Text(Rest(s, Span(s, Digits) + 1))>>)

(***************************************************************************)
(* Tokens                                                                  *)
(***************************************************************************)
\* How many pieces the first token of s takes.
TokenLength(s) ==
  CASE Begins(s[1], Letters) -> Span(s, Letters \cup Digits)
    [] Begins(s[1], Digits) -> NumberLength(s)
    [] s[1] = Quote -> Min({ClosingQuote(s, 2), Len(s)})
    [] s[1] \in {"=", "<", ">", "!"} -> IF StartsWith(Tail(s), "=") THEN 2 ELSE 1
    [] s[1] = "." -> IF StartsWith(Tail(s), ".") THEN 2 ELSE 1
    [] OTHER -> 1

WordToken(word) == IF word \in Keywords THEN <<word>> ELSE <<"IDENT", word>>
StringToken(s) ==
  IF ClosingQuote(s, 2) = Len(s) THEN <<"STRING", ExtractString(SubSeq(s, 2, Len(s) - 1))>>
                                 ELSE <<"ERROR">>
MakeToken(s) ==
  CASE Begins(s[1], Letters) -> WordToken(Text(s))
    [] Begins(s[1], Digits) -> <<"NUMBER">> \o NumberValue(s)
    [] s[1] = Quote -> StringToken(s)
    [] s[1] = "\n" -> <<"NEWLINE">>
    [] OTHER -> IF Text(s) \in Symbols THEN <<Text(s)>> ELSE <<"ERROR">>

\* nextToken: the first token of s, after blanks and comments, and the text
\* that follows it.
RECURSIVE SkipWhitespace(_)
SkipWhitespace(s) ==
  IF s # <<>> /\ s[1] \in Blanks THEN SkipWhitespace(Tail(s))
  ELSE IF StartsWith(s, "#") THEN Rest(s, UpTo(s, "\n"))
  ELSE s
Taken(s, n) == [token |-> MakeToken(SubSeq(s, 1, n)), text |-> Rest(s, n)]
TokenAt(s) == IF s = <<>> THEN [token |-> <<"EOF">>, text |-> s] ELSE Taken(s, TokenLength(s))
NextToken(s) == TokenAt(SkipWhitespace(s))
=============================================================================
