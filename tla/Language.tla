------------------------------ MODULE Language ------------------------------
(***************************************************************************)
(* The values of Nolqu and the shape of its syntax trees (value.h, ast.h): *)
(* what the parser hands to the compiler.  A tree is a tuple headed by the *)
(* name of its NODE_ type; a block is a sequence of statements.            *)
(***************************************************************************)
EXTENDS Integers, Sequences
LOCAL INSTANCE SequencesExt
LOCAL INSTANCE TLC

(***************************************************************************)
(* Values: a type tag and a payload.  Strings are interned, so equality of *)
(* payloads is valuesEqual; an array's payload is its identity.            *)
(***************************************************************************)
Nil == <<"nil">>
Bool(b) == <<"bool", b>>
Num(n) == <<"num", n>>
Str(s) == <<"str", s>>
Fn(id, i) == <<"fn", id, i>>
Native(name) == <<"native", name>>
Arr(r) == <<"arr", r>>

Is(type, v) == v[1] = type
IsTruthy(v) == v # Nil /\ v # Bool(FALSE)
BothNum(a, b) == Is("num", a) /\ Is("num", b)

Arithmetic == {"ADD", "SUB", "MUL"}
Division == {"DIV", "MOD"}
Comparison == {"LT", "GT", "LTE", "GTE"}

\* The C++ operators behind BINARY_NUM and OP_DIV, OP_MOD, on whole numbers;
\* fmod takes the sign of the dividend.
Compute(op, a, b) ==
  CASE op = "ADD" -> a + b
    [] op = "SUB" -> a - b
    [] op = "MUL" -> a * b
    [] op = "DIV" -> IF b < 0 THEN (-a) \div (-b) ELSE a \div b
    [] op = "MOD" -> IF a >= 0 THEN a % (IF b < 0 THEN -b ELSE b)
                               ELSE -((-a) % (IF b < 0 THEN -b ELSE b))
Compare(op, a, b) ==
  CASE op = "LT" -> a < b
    [] op = "GT" -> a > b
    [] op = "LTE" -> a <= b
    [] op = "GTE" -> a >= b

\* An error message: which check failed, never how it is worded.
Message(kind) == Str(kind)

\* valueToString: the text a value is concatenated as.
ValueToString(v) ==
  CASE Is("str", v) -> v[2]
    [] v = Nil -> "nil"
    [] Is("bool", v) -> IF v[2] THEN "true" ELSE "false"
    [] Is("num", v) -> ToString(v[2])
    [] OTHER -> "<object>"
Joined(a, b) == Str(ValueToString(a) \o ValueToString(b))

(***************************************************************************)
(* Arrays live in the heap: mem[r] is the items of Arr(r).                *)
(***************************************************************************)
\* An index counts from the end when it is negative.
Normalise(i, n) == IF i < 0 THEN n + i ELSE i
InBounds(i, n) == Normalise(i, n) \in 0 .. n - 1

Items(v, mem) == IF Is("arr", v) THEN mem[v[2]] ELSE v[2]
Length(v, mem) == Len(Items(v, mem))
Item(v, i, mem) ==
  LET at == Normalise(i, Length(v, mem)) + 1
  IN IF Is("arr", v) THEN mem[v[2]][at] ELSE Str(SubSeq(v[2], at, at))

\* arraySet drops what it is given when the index is out of bounds.
Stored(mem, array, i, v) ==
  LET n == Length(array, mem)
  IN IF InBounds(i, n) THEN [mem EXCEPT ![array[2]][Normalise(i, n) + 1] = v] ELSE mem

\* printValue, one level deep: what a printed line tells of a value.
Brief(v) == IF v[1] \in {"fn", "native", "arr"} THEN <<v[1]>> ELSE v
Shown(v, mem) ==
  IF Is("arr", v) THEN <<"arr", [i \in 1 .. Length(v, mem) |-> Brief(mem[v[2]][i])]>>
                  ELSE Brief(v)

(***************************************************************************)
(* Texts: the letters of a string, counted from 1, and their order.        *)
(***************************************************************************)
Letter(s, i) == SubSeq(s, i, i)
Capital == "ABCDEFGHIJKLMNOPQRSTUVWXYZ"
Small == "abcdefghijklmnopqrstuvwxyz"
\* Those that scripts use, in the order of their codes.
Codes == "\t\n\r !,-.0123456789<>" \o Capital \o "_" \o Small
Ascii == [c \in {Letter(Codes, i) : i \in 1 .. Len(Codes)} |->
            CHOOSE i \in 1 .. Len(Codes) : Letter(Codes, i) = c]
IsSpace(c) == c \in {" ", "\t", "\n", "\r"}

(***************************************************************************)
(* The built-in functions, and how many arguments each takes; -1 for any.  *)
(***************************************************************************)
Arity ==
  [error |-> 1, assert |-> -1, type |-> 1, str |-> 1, is_nil |-> 1, is_num |-> 1, is_str |-> 1,
   is_bool |-> 1, is_array |-> 1, abs |-> 1, max |-> 2, min |-> 2,
   len |-> 1, push |-> 2, pop |-> 1, remove |-> 2, contains |-> 2, sort |-> 1,
   upper |-> 1, lower |-> 1, slice |-> -1, trim |-> 1, replace |-> 3, split |-> 2, join |-> 2,
   startswith |-> 2, endswith |-> 2, index |-> 2, repeat |-> 2,
   file_read |-> 1, file_write |-> 2, file_append |-> 2, file_exists |-> 1, file_lines |-> 1]
Builtins == [f \in DOMAIN Arity |-> Native(f)]
Accepts(f, argc) == Arity[f] = -1 \/ Arity[f] = argc

(***************************************************************************)
(* Syntax trees                                                            *)
(***************************************************************************)
\* The name of slot 0 of a frame, which no identifier is.
NoName == ""

Lit(v) == <<"lit", v>>
Var(x) == <<"var", x>>
Unary(op, e) == <<"unary", op, e>>
Binary(op, a, b) == <<"binary", op, a, b>>
And(a, b) == <<"and", a, b>>
Or(a, b) == <<"or", a, b>>
Call(f, args) == <<"call", f, args>>
Array(items) == <<"array", items>>
Index(o, i) == <<"index", o, i>>

Let(x, e) == <<"let", x, e>>
Assign(x, e) == <<"assign", x, e>>
Output(e) == <<"print", e>>
If(c, then, else) == <<"if", c, then, else>>
Loop(c, body) == <<"loop", c, body>>
Function(f, params, body) == <<"function", f, params, body>>
Return(e) == <<"return", e>>
Eval(e) == <<"expr", e>>
SetIndex(o, i, e) == <<"setindex", o, i, e>>
Try(body, x, handler) == <<"try", body, x, handler>>
Import(module) == <<"import", module>>
=============================================================================
