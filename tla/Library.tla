------------------------------ MODULE Library ------------------------------
(***************************************************************************)
(* The built-in functions as docs/language.md, section 11, tells of them,  *)
(* and docs/grammar.md:232 of the failures of files: the reference for     *)
(* module Natives.  Where the guide is silent about an argument, the       *)
(* answer is the one the functions have in common: nil, or false from a    *)
(* test.                                                                   *)
(***************************************************************************)
EXTENDS Language
LOCAL INSTANCE SequencesExt
LOCAL INSTANCE FiniteSetsExt

Answer(v, w) == [value |-> v, world |-> w, thrown |-> Nil]
Error(err, w) == [value |-> Nil, world |-> w, thrown |-> err]

Letters(s) == [i \in 1 .. Len(s) |-> Letter(s, i)]
Spelled(letters) == FoldLeft(LAMBDA text, c : text \o c, "", letters)

(***************************************************************************)
(* Texts                                                                   *)
(***************************************************************************)
\* "First position of `sub` in `s`, or `-1`": what a shortest beginning of
\* s leaves begins with sub.
Continues(s, sub, p) == p + Len(sub) <= Len(s) /\ SubSeq(s, p + 1, p + Len(sub)) = sub
Position(s, sub) ==
  IF \A p \in 0 .. Len(s) : ~Continues(s, sub, p) THEN -1
  ELSE CHOOSE p \in 0 .. Len(s) : Continues(s, sub, p) /\ \A q \in 0 .. p - 1 : ~Continues(s, sub, q)

\* "Substring `[start, end)` - supports negative indices": the letters whose
\* place, counted from the end for a negative index, is in the interval.
Within(s, start, end) ==
  LET place(i) == IF i < 0 THEN Len(s) + i ELSE i
  IN Spelled([i \in 1 .. Len(s) |->
                IF place(start) <= i - 1 /\ i - 1 < place(end) THEN Letter(s, i) ELSE ""])

\* "Remove leading and trailing whitespace": what is left between two blanks,
\* neither begins nor ends with one.
Stripped(s) ==
  LET Blank(part) == \A i \in 1 .. Len(part) : IsSpace(Letter(part, i))
      Solid(part) == part = "" \/ ~(IsSpace(Letter(part, 1)) \/ IsSpace(Letter(part, Len(part))))
      Cut == CHOOSE c \in (0 .. Len(s)) \X (0 .. Len(s)) :
               /\ c[1] <= c[2] /\ Solid(SubSeq(s, c[1] + 1, c[2]))
               /\ Blank(SubSeq(s, 1, c[1])) /\ Blank(SubSeq(s, c[2] + 1, Len(s)))
  IN SubSeq(s, Cut[1] + 1, Cut[2])

\* "Replace first occurrence of `old`": the text before it does not hold old,
\* even with all but the last letter of old behind it.
Replaced(s, old, new) ==
  LET p == Position(s, old)
  IN IF old = "" \/ p = -1 THEN s ELSE Within(s, 0, p) \o new \o SubSeq(s, p + Len(old) + 1, Len(s))

\* "Split `s` on `sep`": at the occurrences of sep that do not overlap one
\* before them that s was split at.
SplitPoints(s, sep) ==
  LET all == {p \in 0 .. Len(s) - 1 : Continues(s, sep, p)}
  IN CHOOSE cuts \in SUBSET all :
       \A p \in all : p \in cuts <=> \A q \in cuts : q < p => q + Len(sep) <= p
Split(s, sep) ==
  IF sep = "" THEN Letters(s)
  ELSE LET cuts == SetToSortSeq(SplitPoints(s, sep), <)
           from(i) == IF i = 1 THEN 1 ELSE cuts[i - 1] + Len(sep) + 1
           to(i) == IF i > Len(cuts) THEN Len(s) ELSE cuts[i]
       IN [i \in 1 .. Len(cuts) + 1 |-> SubSeq(s, from(i), to(i))]

\* Arrays and functions join as nil.
JoinedAs(v) == IF v[1] \in {"str", "num", "bool"} THEN ValueToString(v) ELSE "nil"
Join(items, sep) ==
  IF items = <<>> THEN ""
  ELSE FoldLeft(LAMBDA text, v : text \o sep \o JoinedAs(v), JoinedAs(Head(items)), Tail(items))

Times(s, n) == Spelled([i \in 1 .. n |-> s])
Recased(s, case) == Spelled([i \in 1 .. Len(s) |-> case[Letter(s, i)]])
Alphabet == {Letter(Codes, i) : i \in 1 .. Len(Codes)}
InCase(case, other) ==
  [c \in Alphabet |-> IF \E i \in 1 .. 26 : c = Letter(other, i)
                        THEN Letter(case, CHOOSE i \in 1 .. 26 : c = Letter(other, i)) ELSE c]

Text(f, s, args) ==
  CASE f = "upper" -> Str(Recased(s, InCase(Capital, Small)))
    [] f = "lower" -> Str(Recased(s, InCase(Small, Capital)))
    [] f = "trim" -> Str(Stripped(s))
    [] f = "slice" -> IF Len(args) < 2 \/ ~Is("num", args[2]) THEN Nil
                      ELSE Str(Within(s, args[2][2], IF Len(args) = 3 /\ Is("num", args[3])
                                                       THEN args[3][2] ELSE Len(s)))
    [] f = "replace" -> IF Is("str", args[2]) /\ Is("str", args[3])
                          THEN Str(Replaced(s, args[2][2], args[3][2])) ELSE Nil
    [] f = "repeat" -> IF Is("num", args[2]) THEN Str(Times(s, args[2][2])) ELSE Nil

\* Functions of two texts.
Pair(f, s, t) ==
  CASE f = "startswith" -> Bool(\E i \in 0 .. Len(s) : SubSeq(s, 1, i) = t)
    [] f = "endswith" -> Bool(\E i \in 1 .. Len(s) + 1 : SubSeq(s, i, Len(s)) = t)
    [] f = "index" -> Num(Position(s, t))
NoPair(f) == IF f = "index" THEN Num(-1) ELSE Bool(FALSE)

(***************************************************************************)
(* Arrays                                                                  *)
(***************************************************************************)
\* "Sort in-place (numbers then strings)".
Earlier(a, b) ==
  \E i \in 0 .. Len(a) :
    /\ i < Len(b) /\ SubSeq(a, 1, i) = SubSeq(b, 1, i)
    /\ i < Len(a) => Ascii[Letter(a, i + 1)] < Ascii[Letter(b, i + 1)]
Insert(sorted, x, Less(_, _)) ==
  SelectSeq(sorted, LAMBDA y : ~Less(x, y)) \o <<x>> \o SelectSeq(sorted, LAMBDA y : Less(x, y))
InOrder(items, Less(_, _)) == FoldLeft(LAMBDA sorted, x : Insert(sorted, x, Less), <<>>, items)
Sorted(items) ==
  InOrder(SelectSeq(items, LAMBDA v : Is("num", v)), LAMBDA a, b : a[2] < b[2]) \o
  InOrder(SelectSeq(items, LAMBDA v : Is("str", v)), LAMBDA a, b : Earlier(a[2], b[2]))

OnArray(f, items, args, w) ==
  LET Set(new) == [w EXCEPT !.heap[args[1][2]] = new]
      n == Len(items)
      i == IF args[2][2] < 0 THEN n + args[2][2] ELSE args[2][2]
      wrong == ~Is("num", args[2]) \/ i \notin 0 .. n - 1
      At == i + 1
  IN CASE f = "len" -> Answer(Num(n), w)
       [] f = "push" -> Answer(args[1], Set(items \o <<args[2]>>))
       [] f = "pop" -> IF n = 0 THEN Error(Message("empty"), w)
                                ELSE Answer(items[n], Set(SubSeq(items, 1, n - 1)))
       [] f = "remove" ->
            IF ~Is("num", args[2]) THEN Error(Message("remove"), w)
            ELSE IF wrong THEN Error(Message("out of bounds"), w)
            ELSE Answer(items[At], Set(SubSeq(items, 1, At - 1) \o SubSeq(items, At + 1, n)))
       [] f = "contains" -> Answer(Bool(args[2] \in {items[k] : k \in 1 .. n}), w)
       [] f = "sort" -> Answer(args[1], Set(Sorted(items)))
       [] f = "join" -> Answer(IF Is("str", args[2]) THEN Str(Join(items, args[2][2])) ELSE Nil, w)
\* On anything else.
NoArray(f, args, w) ==
  CASE f = "len" /\ Is("str", args[1]) -> Answer(Num(Len(args[1][2])), w)
    [] f \in {"pop", "remove"} \/ (f = "len" /\ ~Is("str", args[1])) -> Error(Message(f), w)
    [] f = "contains" -> Answer(Bool(FALSE), w)
    [] f \in {"push", "sort", "join"} -> Answer(Nil, w)

(***************************************************************************)
(* Files                                                                   *)
(***************************************************************************)
\* "Newlines stripped": what is between them, however a line is ended.
LinesOf(text) ==
  LET lines == Split(text, "\n")
      Ended(line) == line # "" /\ Letter(line, Len(line)) = "\r"
  IN [i \in DOMAIN lines |->
        IF Ended(lines[i]) THEN SubSeq(lines[i], 1, Len(lines[i]) - 1) ELSE lines[i]]
Strings(texts) == [i \in DOMAIN texts |-> Str(texts[i])]
NewArray(items, w) == Answer(Arr(Len(w.heap) + 1), [w EXCEPT !.heap = @ \o <<items>>])

OnFile(f, path, args, w) ==
  LET there == path \in DOMAIN w.files
      Put(text) == [w EXCEPT !.files =
                      [p \in DOMAIN w.files \cup {path} |-> IF p = path THEN text ELSE w.files[p]]]
  IN CASE f = "file_exists" -> Answer(Bool(there), w)
       [] f = "file_read" -> IF there THEN Answer(Str(w.files[path]), w) ELSE Error(Message("cannot read"), w)
       [] f = "file_lines" -> IF there THEN NewArray(Strings(LinesOf(w.files[path])), w)
                                       ELSE Error(Message("cannot read"), w)
       [] f \in {"file_write", "file_append"} ->
            IF ~Is("str", args[2]) THEN Error(Message("path and content"), w)
            ELSE IF path = "" THEN Error(Message("cannot write"), w)
            ELSE Answer(Bool(TRUE),
                        Put((IF f = "file_append" /\ there THEN w.files[path] ELSE "") \o args[2][2]))
NoPath(f) == IF f \in {"file_read", "file_lines"} THEN "path" ELSE "path and content"

-----------------------------------------------------------------------------
Basic(f, args) ==
  CASE f = "type" ->
         Str(CASE args[1] = Nil -> "nil" [] Is("bool", args[1]) -> "bool" [] Is("num", args[1]) -> "number"
               [] Is("str", args[1]) -> "string" [] Is("arr", args[1]) -> "array" [] OTHER -> "function")
    [] f = "str" -> Str(ValueToString(args[1]))
    [] f = "is_nil" -> Bool(args[1] = Nil)
    [] f = "is_num" -> Bool(Is("num", args[1]))
    [] f = "is_str" -> Bool(Is("str", args[1]))
    [] f = "is_bool" -> Bool(Is("bool", args[1]))
    [] f = "is_array" -> Bool(Is("arr", args[1]))
    [] f = "abs" -> IF ~Is("num", args[1]) THEN Nil
                    ELSE IF args[1][2] < 0 THEN Num(-args[1][2]) ELSE args[1]
    [] f \in {"max", "min"} -> IF ~BothNum(args[1], args[2]) THEN Nil
                               ELSE IF args[1][2] > args[2][2] <=> f = "max" THEN args[1] ELSE args[2]

\* "Throw `msg` if `cond` is falsy", and "Assertion failed." without one.
Checked(args) ==
  IF Len(args) > 1 /\ Is("str", args[2]) THEN args[2] ELSE Message("assertion")
\* "Throw `msg`": as a text, nil for what is neither text, number nor bool.
ErrorText(v) == IF Is("str", v) THEN v ELSE Str(JoinedAs(v))

Calls(f, args, w) ==
  CASE f = "error" -> Error(ErrorText(args[1]), w)
    [] f = "assert" -> IF args = <<>> THEN Answer(Nil, w)
                       ELSE IF IsTruthy(args[1]) THEN Answer(Bool(TRUE), w) ELSE Error(Checked(args), w)
    [] f \in {"len", "push", "pop", "remove", "contains", "sort", "join"} ->
         IF Is("arr", args[1]) THEN OnArray(f, Items(args[1], w.heap), args, w) ELSE NoArray(f, args, w)
    [] f \in {"upper", "lower", "trim", "slice", "replace", "repeat"} ->
         Answer(IF args # <<>> /\ Is("str", args[1]) THEN Text(f, args[1][2], args) ELSE Nil, w)
    [] f \in {"startswith", "endswith", "index"} ->
         Answer(IF Is("str", args[1]) /\ Is("str", args[2]) THEN Pair(f, args[1][2], args[2][2])
                                                            ELSE NoPair(f), w)
    [] f = "split" -> IF Is("str", args[1]) /\ Is("str", args[2])
                        THEN NewArray(Strings(Split(args[1][2], args[2][2])), w) ELSE Answer(Nil, w)
    [] f = "file_exists" /\ ~Is("str", args[1]) -> Answer(Bool(FALSE), w)
    [] f \in {"file_exists", "file_read", "file_lines", "file_write", "file_append"} /\ Is("str", args[1]) ->
         OnFile(f, args[1][2], args, w)
    [] f \in {"file_read", "file_lines", "file_write", "file_append"} /\ ~Is("str", args[1]) ->
         Error(Message(NoPath(f)), w)
    [] OTHER -> Answer(Basic(f, args), w)
=============================================================================
