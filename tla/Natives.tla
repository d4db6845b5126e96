------------------------------ MODULE Natives ------------------------------
(***************************************************************************)
(* The built-in functions of vm.c, on their arguments and the world they   *)
(* act on: w.heap, the items of the arrays, and w.files, the texts of the  *)
(* files.  Each returns its value, the world, and the error it left in     *)
(* vm->thrown.  Positions in a text count from 0, as in C.                 *)
(***************************************************************************)
EXTENDS Language
LOCAL INSTANCE FiniteSets
LOCAL INSTANCE SequencesExt
LOCAL INSTANCE FiniteSetsExt

Gives(v, w) == [value |-> v, world |-> w, thrown |-> Nil]
Raises(err, w) == [value |-> Nil, world |-> w, thrown |-> err]

\* The C functions test how many arguments there are, and their types.
AreOf(types, args) ==
  Len(args) = Len(types) /\ \A i \in DOMAIN types : Is(types[i], args[i])

(***************************************************************************)
(* Arrays and errors                                                       *)
(***************************************************************************)
WithItems(w, array, items) == [w EXCEPT !.heap[array[2]] = items]
WithArray(w, items) == Gives(Arr(Len(w.heap) + 1), [w EXCEPT !.heap = Append(@, items)])

NativeError(args, w) ==
  Raises(IF Is("str", args[1]) THEN args[1]
         ELSE IF args[1][1] \in {"num", "bool"} THEN Str(ValueToString(args[1]))
         ELSE Str("nil"), w)

NativeAssert(args, w) ==
  IF args = <<>> THEN Gives(Nil, w)
  ELSE IF IsTruthy(args[1]) THEN Gives(Bool(TRUE), w)
  ELSE IF Len(args) >= 2 /\ Is("str", args[2]) THEN Raises(args[2], w)
  ELSE Raises(Message("assertion"), w)

NativeLen(args, w) ==
  IF args[1][1] \in {"arr", "str"} THEN Gives(Num(Length(args[1], w.heap)), w)
                                   ELSE Raises(Message("len"), w)

\* push does nothing to what is not an array, and says nothing.
NativePush(args, w) ==
  IF Is("arr", args[1])
    THEN Gives(args[1], WithItems(w, args[1], Append(Items(args[1], w.heap), args[2])))
    ELSE Gives(Nil, w)

NativePop(args, w) ==
  IF ~Is("arr", args[1]) THEN Raises(Message("pop"), w)
  ELSE LET items == Items(args[1], w.heap)
       IN IF items = <<>> THEN Raises(Message("empty"), w)
                          ELSE Gives(Last(items), WithItems(w, args[1], Front(items)))

NativeRemove(args, w) ==
  IF ~AreOf(<<"arr", "num">>, args) THEN Raises(Message("remove"), w)
  ELSE LET items == Items(args[1], w.heap)
           idx == Normalise(args[2][2], Len(items))
       IN IF idx < 0 \/ idx >= Len(items) THEN Raises(Message("out of bounds"), w)
          ELSE Gives(items[idx + 1], WithItems(w, args[1], RemoveAt(items, idx + 1)))

NativeContains(args, w) ==
  Gives(Bool(Is("arr", args[1]) /\ \E i \in 1 .. Length(args[1], w.heap) :
                                     Items(args[1], w.heap)[i] = args[2]), w)

\* strcmp, by the place of the first character that differs.
StrCmp(a, b) ==
  LET differ == {i \in 1 .. Min({Len(a), Len(b)}) : Letter(a, i) # Letter(b, i)}
  IN IF differ = {} THEN Len(a) - Len(b)
                    ELSE Ascii[Letter(a, Min(differ))] - Ascii[Letter(b, Min(differ))]
\* Fault: strings come before numbers.
FaultyCmpValues(a, b) ==
  CASE BothNum(a, b) -> a[2] - b[2]
    [] Is("str", a) /\ Is("str", b) -> StrCmp(a[2], b[2])
    [] OTHER -> IF Is("num", a) THEN 1 ELSE -1
CmpValues(a, b) ==
  CASE BothNum(a, b) -> a[2] - b[2]
    [] Is("str", a) /\ Is("str", b) -> StrCmp(a[2], b[2])
    [] OTHER -> IF Is("num", a) THEN -1 ELSE 1
\* How many of the items are to be before the i-th.
Rank(items, i) ==
  Cardinality({j \in DOMAIN items : LET c == CmpValues(items[j], items[i])
                                    IN c < 0 \/ (c = 0 /\ j < i)})
\* qsort, for items that CmpValues puts in an order, numbers and strings, each
\* where its rank says.  Others are left as they are.
Qsort(items) ==
  LET n == Len(items)
      at(k) == {i \in 1 .. n : Rank(items, i) = k - 1}
  IN IF \E k \in 1 .. n : at(k) = {} THEN items
                                     ELSE [k \in 1 .. n |-> items[CHOOSE i \in at(k) : TRUE]]
NativeSort(args, w) ==
  IF Is("arr", args[1]) THEN Gives(args[1], WithItems(w, args[1], Qsort(Items(args[1], w.heap))))
                        ELSE Gives(Nil, w)

(***************************************************************************)
(* Numbers and types                                                       *)
(***************************************************************************)
NativeAbs(args) == IF Is("num", args[1]) THEN Num(Max({args[1][2], -args[1][2]})) ELSE Nil
NativeMax(args) == IF BothNum(args[1], args[2]) THEN Num(Max({args[1][2], args[2][2]})) ELSE Nil
NativeMin(args) == IF BothNum(args[1], args[2]) THEN Num(Min({args[1][2], args[2][2]})) ELSE Nil

TypeNames ==
  [nil |-> "nil", bool |-> "bool", num |-> "number", str |-> "string", arr |-> "array",
   fn |-> "function", native |-> "function"]
NativeType(args) == Str(TypeNames[args[1][1]])
NativeStr(args) == Str(ValueToString(args[1]))
NativeIs == [is_nil |-> "nil", is_num |-> "num", is_str |-> "str", is_bool |-> "bool", is_array |-> "arr"]

(***************************************************************************)
(* Texts                                                                   *)
(***************************************************************************)
\* What is from `start` up to and without `end`.
Bytes(s, start, end) == SubSeq(s, start + 1, end)

\* What a loop from 0 to n makes that at cur appends piece[cur] and goes on at next[cur].
Chained(n, piece, next) ==
  LET from[cur \in 0 .. n] ==
        IF next[cur] > n THEN piece[cur] ELSE piece[cur] \o from[next[cur]]
  IN from[0]
Spelled(n, text) ==
  Chained(n, [i \in 0 .. n |-> IF i = 0 THEN "" ELSE text[i]], [i \in 0 .. n |-> i + 1])

\* strstr from a position on: where the first occurrence is, -1 for none.
StrStr(s, sub, from) ==
  LET found == {p \in from .. Len(s) - Len(sub) : Bytes(s, p, p + Len(sub)) = sub}
  IN IF found = {} THEN -1 ELSE Min(found)

\* The letters that toupper and tolower exchange.
ASSUME LettersAssumption == Len(Small) = 26 /\ Len(Capital) = 26

\* toupper and tolower of the C locale.
Recased(c, from, to) ==
  IF \E i \in 1 .. 26 : Letter(from, i) = c
    THEN Letter(to, CHOOSE i \in 1 .. 26 : Letter(from, i) = c) ELSE c
Converted(s, from, to) == Spelled(Len(s), [i \in 1 .. Len(s) |-> Recased(Letter(s, i), from, to)])
NativeUpper(args) == IF Is("str", args[1]) THEN Str(Converted(args[1][2], Small, Capital)) ELSE Nil
NativeLower(args) == IF Is("str", args[1]) THEN Str(Converted(args[1][2], Capital, Small)) ELSE Nil

\* Fault: a negative start is not counted from the end.
FaultySliceStart(s, i) == Max({0, i})
SliceStart(s, i) == Max({0, IF i < 0 THEN Len(s) + i ELSE i})
SliceEnd(s, i) == Min({Len(s), IF i < 0 THEN Len(s) + i ELSE i})
NativeSlice(args) ==
  IF ~(Len(args) >= 2 /\ Is("str", args[1]) /\ Is("num", args[2])) THEN Nil
  ELSE LET s == args[1][2]
           start == SliceStart(s, args[2][2])
           end == IF Len(args) = 3 /\ Is("num", args[3]) THEN SliceEnd(s, args[3][2]) ELSE Len(s)
       IN IF start >= end THEN Str("") ELSE Str(Bytes(s, start, end))

NativeTrim(args) ==
  IF ~Is("str", args[1]) THEN Nil
  ELSE LET s == args[1][2]
           kept == {i \in 0 .. Len(s) - 1 : ~IsSpace(Letter(s, i + 1))}
       IN IF kept = {} THEN Str("") ELSE Str(Bytes(s, Min(kept), Max(kept) + 1))

NativeReplace(args) ==
  IF ~AreOf(<<"str", "str", "str">>, args) THEN Nil
  ELSE LET src == args[1][2]
           old == args[2][2]
           found == StrStr(src, old, 0)
       IN IF old = "" \/ found = -1 THEN args[1]
          ELSE Str(Bytes(src, 0, found) \o args[3][2] \o Bytes(src, found + Len(old), Len(src)))

\* Fault: after a separator the search goes on one character later only.
FaultyAfter(found, sep) == found + 1
After(found, sep) == found + Len(sep)
Parts(src, sep) ==
  LET n == Len(src)
      found == [cur \in 0 .. n |-> StrStr(src, sep, cur)]
      end(cur) == IF found[cur] = -1 THEN n ELSE found[cur]
  IN Chained(n, [cur \in 0 .. n |-> <<Str(Bytes(src, cur, end(cur)))>>],
                [cur \in 0 .. n |-> IF found[cur] = -1 THEN n + 1 ELSE After(found[cur], sep)])
NativeSplit(args, w) ==
  IF ~AreOf(<<"str", "str">>, args) THEN Gives(Nil, w)
  ELSE IF args[2][2] = ""
    THEN WithArray(w, [i \in 1 .. Len(args[1][2]) |-> Str(Letter(args[1][2], i))])
    ELSE WithArray(w, Parts(args[1][2], args[2][2]))

\* strncmp and strcmp, once it is known that the text is long enough.
HasAt(s, sub, p) == p >= 0 /\ p + Len(sub) <= Len(s) /\ Bytes(s, p, p + Len(sub)) = sub
NativeStartsWith(args) == Bool(AreOf(<<"str", "str">>, args) /\ HasAt(args[1][2], args[2][2], 0))
NativeEndsWith(args) ==
  Bool(AreOf(<<"str", "str">>, args) /\ HasAt(args[1][2], args[2][2], Len(args[1][2]) - Len(args[2][2])))

NativeIndex(args) == Num(IF AreOf(<<"str", "str">>, args) THEN StrStr(args[1][2], args[2][2], 0) ELSE -1)

NativeRepeat(args) ==
  IF AreOf(<<"str", "num">>, args)
    THEN LET n == Max({0, args[2][2]}) IN Str(Spelled(n, [i \in 1 .. n |-> args[1][2]]))
    ELSE Nil

\* Functions and arrays are joined as nil.
ItemText(v) == IF v[1] \in {"str", "num", "bool"} THEN ValueToString(v) ELSE "nil"
NativeJoin(args, w) ==
  IF ~AreOf(<<"arr", "str">>, args) THEN Nil
  ELSE LET items == Items(args[1], w.heap)
           before(i) == IF i > 1 THEN args[2][2] ELSE ""
       IN Str(Spelled(Len(items), [i \in 1 .. Len(items) |-> before(i) \o ItemText(items[i])]))

(***************************************************************************)
(* Files                                                                   *)
(***************************************************************************)
\* fopen for reading and for writing.
CanRead(path, w) == path \in DOMAIN w.files
CanWrite(path) == path # ""
WithFile(w, path, text) ==
  [w EXCEPT !.files = [p \in DOMAIN w.files \cup {path} |-> IF p = path THEN text ELSE w.files[p]]]

NativeFileRead(args, w) ==
  IF ~Is("str", args[1]) THEN Raises(Message("path"), w)
  ELSE IF ~CanRead(args[1][2], w) THEN Raises(Message("cannot read"), w)
  ELSE Gives(Str(w.files[args[1][2]]), w)

\* file_write and file_append, which keeps what the file has.
NativeFilePut(args, w, append) ==
  IF ~AreOf(<<"str", "str">>, args) THEN Raises(Message("path and content"), w)
  ELSE IF ~CanWrite(args[1][2]) THEN Raises(Message("cannot write"), w)
  ELSE LET kept == IF append /\ CanRead(args[1][2], w) THEN w.files[args[1][2]] ELSE ""
       IN Gives(Bool(TRUE), WithFile(w, args[1][2], kept \o args[2][2]))

NativeFileExists(args, w) == Gives(Bool(Is("str", args[1]) /\ CanRead(args[1][2], w)), w)

\* Fault: the loop ends with the text, and an empty last line is lost.
FaultyLastLine(text, nl) == nl = -1 \/ nl + 1 = Len(text)
LastLine(text, nl) == nl = -1
Lines(text) ==
  LET n == Len(text)
      nl == [cur \in 0 .. n |-> StrStr(text, "\n", cur)]
      stop(cur) == IF nl[cur] = -1 THEN n ELSE nl[cur]
      end(cur) == IF stop(cur) > cur /\ Letter(text, stop(cur)) = "\r" THEN stop(cur) - 1 ELSE stop(cur)
  IN Chained(n, [cur \in 0 .. n |-> <<Str(Bytes(text, cur, end(cur)))>>],
                [cur \in 0 .. n |-> IF LastLine(text, nl[cur]) THEN n + 1 ELSE nl[cur] + 1])
NativeFileLines(args, w) ==
  IF ~Is("str", args[1]) THEN Raises(Message("path"), w)
  ELSE IF ~CanRead(args[1][2], w) THEN Raises(Message("cannot read"), w)
  ELSE WithArray(w, Lines(w.files[args[1][2]]))

-----------------------------------------------------------------------------
\* Those that only compute a value.
Computed(f, args, w) ==
  CASE f = "abs" -> NativeAbs(args)
    [] f = "max" -> NativeMax(args)
    [] f = "min" -> NativeMin(args)
    [] f = "type" -> NativeType(args)
    [] f = "str" -> NativeStr(args)
    [] f \in DOMAIN NativeIs -> Bool(Is(NativeIs[f], args[1]))
    [] f = "upper" -> NativeUpper(args)
    [] f = "lower" -> NativeLower(args)
    [] f = "slice" -> NativeSlice(args)
    [] f = "trim" -> NativeTrim(args)
    [] f = "replace" -> NativeReplace(args)
    [] f = "startswith" -> NativeStartsWith(args)
    [] f = "endswith" -> NativeEndsWith(args)
    [] f = "index" -> NativeIndex(args)
    [] f = "repeat" -> NativeRepeat(args)
    [] f = "join" -> NativeJoin(args, w)

RunNative(f, args, w) ==
  CASE f = "error" -> NativeError(args, w)
    [] f = "assert" -> NativeAssert(args, w)
    [] f = "len" -> NativeLen(args, w)
    [] f = "push" -> NativePush(args, w)
    [] f = "pop" -> NativePop(args, w)
    [] f = "remove" -> NativeRemove(args, w)
    [] f = "contains" -> NativeContains(args, w)
    [] f = "sort" -> NativeSort(args, w)
    [] f = "split" -> NativeSplit(args, w)
    [] f = "file_read" -> NativeFileRead(args, w)
    [] f = "file_write" -> NativeFilePut(args, w, FALSE)
    [] f = "file_append" -> NativeFilePut(args, w, TRUE)
    [] f = "file_exists" -> NativeFileExists(args, w)
    [] f = "file_lines" -> NativeFileLines(args, w)
    [] OTHER -> Gives(Computed(f, args, w), w)
=============================================================================
