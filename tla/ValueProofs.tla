----------------------------- MODULE ValueProofs -----------------------------
(***************************************************************************)
(* Whatever a script can get at is a value, and what it calls as a         *)
(* function is one the compiler made: so what BytecodeProofs shows of one  *)
(* step holds in every run.  First, that the built-in functions, given     *)
(* values, answer or fail with values and leave arrays of values; then the *)
(* same of every instruction; then the theorems.                           *)
(***************************************************************************)
EXTENDS BytecodeProofs, CompilerProofs
LOCAL INSTANCE SequencesExt
LOCAL INSTANCE FiniteSetsExt

\* The strings of TLA+ are sequences of characters: what Bytecode says of some of them is
\* so of all, but is not part of what the provers know of STRING.
StringsOfTLA == StringsOn(STRING, Int)

-----------------------------------------------------------------------------
(***************************************************************************)
(* Least and greatest                                                      *)
(***************************************************************************)
\* The least and the greatest of a set of integers with bounds.
LEMMA MinOf ==
  ASSUME NEW a \in Int, NEW b \in Int, NEW S \in SUBSET (a .. b), S # {}
  PROVE  Min(S) \in S /\ \A y \in S : Min(S) <= y
<1>1. PICK T : T = {x \in Nat : a + x \in S}
  OBVIOUS
<1>2. T \in SUBSET Nat /\ T # {}
  <2>1. PICK s \in S : TRUE
    OBVIOUS
  <2>2. s - a \in Nat /\ a + (s - a) = s
    BY <2>1
  <2> QED BY <1>1, <2>1, <2>2
<1>3. PICK x \in T : \A y \in T : x <= y
  BY <1>2, LeastNatural
<1>4. a + x \in S /\ \A y \in S : a + x <= y
  <2>1. ASSUME NEW y \in S PROVE a + x <= y
    <3>1. y \in Int /\ a <= y /\ y - a \in Nat /\ a + (y - a) = y
      OBVIOUS
    <3>2. y - a \in T
      BY <1>1, <3>1
    <3> QED BY <1>1, <1>3, <3>1, <3>2
  <2> QED BY <1>1, <1>3, <2>1
<1> QED BY <1>4 DEF Min

LEMMA MaxOf ==
  ASSUME NEW a \in Int, NEW b \in Int, NEW S \in SUBSET (a .. b), S # {}
  PROVE  Max(S) \in S /\ \A y \in S : Max(S) >= y
<1>1. PICK T : T = {x \in Nat : b - x \in S}
  OBVIOUS
<1>2. T \in SUBSET Nat /\ T # {}
  <2>1. PICK s \in S : TRUE
    OBVIOUS
  <2>2. b - s \in Nat /\ b - (b - s) = s
    BY <2>1
  <2> QED BY <1>1, <2>1, <2>2
<1>3. PICK x \in T : \A y \in T : x <= y
  BY <1>2, LeastNatural
<1>4. b - x \in S /\ \A y \in S : b - x >= y
  <2>1. ASSUME NEW y \in S PROVE b - x >= y
    <3>1. y \in Int /\ y <= b /\ b - y \in Nat /\ b - (b - y) = y
      OBVIOUS
    <3>2. b - y \in T
      BY <1>1, <3>1
    <3>3. x \in Nat /\ x <= b - y
      BY <1>2, <1>3, <3>2
    <3> QED BY <3>1, <3>3
  <2> QED BY <1>1, <1>3, <2>1
<1> QED BY <1>4 DEF Max

LEMMA MinOfTwo ==
  ASSUME NEW a \in Int, NEW b \in Int
  PROVE  Min({a, b}) \in {a, b} /\ Min({a, b}) <= a /\ Min({a, b}) <= b
<1>1. CASE a <= b
  <2>1. {a, b} \in SUBSET (a .. b)
    BY <1>1
  <2> QED BY <2>1, MinOf
<1>2. CASE b <= a
  <2>1. {a, b} \in SUBSET (b .. a)
    BY <1>2
  <2> QED BY <2>1, MinOf
<1> QED BY <1>1, <1>2

LEMMA MaxOfTwo ==
  ASSUME NEW a \in Int, NEW b \in Int
  PROVE  Max({a, b}) \in {a, b} /\ Max({a, b}) >= a /\ Max({a, b}) >= b
<1>1. CASE a <= b
  <2>1. {a, b} \in SUBSET (a .. b)
    BY <1>1
  <2> QED BY <2>1, MaxOf
<1>2. CASE b <= a
  <2>1. {a, b} \in SUBSET (b .. a)
    BY <1>2
  <2> QED BY <2>1, MaxOf
<1> QED BY <1>1, <1>2

-----------------------------------------------------------------------------
(***************************************************************************)
(* What is chained of pieces of a kind is of that kind, if that is closed  *)
(* under \o and every step goes forward: the recursion ends.               *)
(***************************************************************************)
LEMMA ChainedIn ==
  ASSUME NEW T, \A s, t \in T : s \o t \in T,
         NEW n \in Nat, NEW piece, NEW next,
         \A cur \in 0 .. n : piece[cur] \in T /\ next[cur] \in Int /\ cur < next[cur]
  PROVE  Chained(n, piece, next) \in T
<1> DEFINE At0(f, cur) == IF next[cur] > n THEN piece[cur] ELSE piece[cur] \o f[next[cur]]
           Makes(f) == f = [cur \in 0 .. n |-> At0(f, cur)]
<1>1. \E f : Makes(f)
  <2> DEFINE Upper(k) == n + 1 - k .. n
             Partial(k, g) == g \in [Upper(k) -> T] /\ \A cur \in Upper(k) : g[cur] = At0(g, cur)
  <2>1. PICK K : K = {k \in Nat : k <= n + 1 => \E g : Partial(k, g)}
    OBVIOUS
  <2>2. 0 \in K
    <3>1. Upper(0) = {}
      OBVIOUS
    <3>2. PICK g : g = [cur \in Upper(0) |-> 0]
      OBVIOUS
    <3>3. Partial(0, g)
      BY <3>1, <3>2
    <3> QED BY <2>1, <3>3
  <2>3. ASSUME NEW k \in K PROVE k + 1 \in K
    <3>1. k \in Nat
      BY <2>1
    <3>2. SUFFICES ASSUME k + 1 <= n + 1 PROVE \E g : Partial(k + 1, g)
      BY <2>1, <3>1
    <3>3. PICK g : Partial(k, g)
      BY <2>1, <3>1, <3>2
    <3>4. PICK c : c = n - k
      OBVIOUS
    <3>5. c \in 0 .. n /\ c \notin Upper(k) /\ Upper(k) \subseteq 0 .. n
          /\ Upper(k + 1) = Upper(k) \cup {c} /\ \A d \in 0 .. n : d > c => d \in Upper(k)
      BY <3>1, <3>2, <3>4
    <3>6. PICK v : v = At0(g, c)
      OBVIOUS
    <3>7. v \in T
      <4>1. next[c] > n \/ next[c] \in Upper(k)
        BY <3>5
      <4> QED BY <3>3, <3>5, <3>6, <4>1
    <3>8. PICK h : h = [cur \in Upper(k + 1) |-> IF cur = c THEN v ELSE g[cur]]
      OBVIOUS
    <3>9. h \in [Upper(k + 1) -> T] /\ h[c] = v /\ \A cur \in Upper(k) : h[cur] = g[cur]
      BY <3>3, <3>5, <3>7, <3>8
    <3>10. ASSUME NEW cur \in Upper(k + 1) PROVE At0(h, cur) = At0(g, cur)
      <4>1. cur \in 0 .. n /\ cur >= c /\ next[cur] \in Int /\ cur < next[cur]
        BY <3>1, <3>2, <3>4
      <4>2. next[cur] > n \/ next[cur] \in Upper(k)
        BY <3>4, <3>5, <4>1
      <4> QED BY <3>9, <4>2
    <3>11. ASSUME NEW cur \in Upper(k + 1) PROVE h[cur] = At0(h, cur)
      BY <3>3, <3>5, <3>6, <3>9, <3>10
    <3>12. Partial(k + 1, h)
      BY <3>9, <3>11
    <3> QED BY <3>12
  <2>4. n + 1 \in K
    <3>1. K \in SUBSET Nat
      BY <2>1
    <3>2. K = Nat
      BY <2>2, <2>3, <3>1, SetInduction
    <3> QED BY <3>2
  <2>5. PICK g : Partial(n + 1, g)
    BY <2>1, <2>4
  <2>6. Upper(n + 1) = 0 .. n
    OBVIOUS
  <2>7. g = [cur \in 0 .. n |-> g[cur]] /\ \A cur \in 0 .. n : g[cur] = At0(g, cur)
    BY <2>5, <2>6
  <2>8. Makes(g)
    BY <2>7
  <2> QED BY <2>8
<1>2. PICK from : from = CHOOSE f : Makes(f)
  OBVIOUS
<1>3. Makes(from)
  BY <1>1, <1>2
<1>4. Chained(n, piece, next) = from[0]
  BY <1>2 DEF Chained
<1>5. PICK K : K = {k \in Nat : \A cur \in 0 .. n : cur > n - k => from[cur] \in T}
  OBVIOUS
<1>6. 0 \in K
  BY <1>5
<1>7. ASSUME NEW k \in K PROVE k + 1 \in K
  <2>1. k \in Nat /\ \A cur \in 0 .. n : cur > n - k => from[cur] \in T
    BY <1>5
  <2>2. ASSUME NEW cur \in 0 .. n, cur > n - (k + 1) PROVE from[cur] \in T
    <3>1. next[cur] > n \/ (next[cur] \in 0 .. n /\ next[cur] > n - k)
      BY <2>1, <2>2
    <3>2. from[cur] = At0(from, cur)
      BY <1>3
    <3>3. At0(from, cur) \in T
      BY <2>1, <3>1
    <3> QED BY <3>2, <3>3
  <2> QED BY <1>5, <2>1, <2>2
<1>8. n + 1 \in K
  <2>1. K \in SUBSET Nat
    BY <1>5
  <2>2. K = Nat
    BY <1>6, <1>7, <2>1, SetInduction
  <2> QED BY <2>2
<1>9. from[0] \in T
  BY <1>5, <1>8
<1> QED BY <1>4, <1>9

-----------------------------------------------------------------------------
(***************************************************************************)
(* Values                                                                  *)
(***************************************************************************)
LEMMA Made ==
  ASSUME NEW n \in Nat
  PROVE  /\ Nil \in Values(n)
         /\ \A b \in BOOLEAN : Bool(b) \in Values(n)
         /\ \A i \in Int : Num(i) \in Values(n)
         /\ \A s \in STRING : Str(s) \in Values(n)
         /\ \A r \in 1 .. n : Arr(r) \in Values(n)
         /\ \A f \in DOMAIN Arity : Native(f) \in Values(n)
BY DEF Values, Nil, Bool, Num, Str, Arr, Native

\* What a value is, by its tag.
LEMMA Taken ==
  ASSUME NEW n \in Nat, NEW v \in Values(n)
  PROVE  /\ Is("bool", v) => v[2] \in BOOLEAN
         /\ Is("num", v) => v[2] \in Int
         /\ Is("str", v) => v[2] \in STRING /\ v = Str(v[2])
         /\ Is("fn", v) => v \in Callable
         /\ Is("native", v) => v[2] \in DOMAIN Arity
         /\ Is("arr", v) => v[2] \in 1 .. n
         /\ v[1] \in {"nil", "bool", "num", "str", "fn", "native", "arr"}
<1>1. CASE v = Nil
  BY <1>1 DEF Nil, Is
<1>2. CASE v \in {"bool"} \X BOOLEAN
  BY <1>2 DEF Is
<1>3. CASE v \in {"num"} \X Int
  BY <1>3 DEF Is
<1>4. CASE v \in {"str"} \X STRING
  BY <1>4 DEF Is, Str
<1>5. CASE v \in Callable
  <2>1. v[1] = "fn"
    <3>1. v = <<"fn", v[2], v[3]>>
      BY <1>5, CallableIsDeclared DEF Fn
    <3> QED BY <3>1
  <2> QED BY <1>5, <2>1 DEF Is
<1>6. CASE v \in {"native"} \X DOMAIN Arity
  <2>1. v[1] = "native" /\ v[2] \in DOMAIN Arity
    BY <1>6
  <2> QED BY <2>1 DEF Is
<1>7. CASE v \in {"arr"} \X (1 .. n)
  BY <1>7 DEF Is
<1> QED BY <1>1, <1>2, <1>3, <1>4, <1>5, <1>6, <1>7 DEF Values

\* More arrays, more values.
LEMMA ValuesGrow ==
  ASSUME NEW m \in Nat, NEW n \in Nat, m <= n
  PROVE  Values(m) \subseteq Values(n)
<1>1. 1 .. m \subseteq 1 .. n
  OBVIOUS
<1>2. {"arr"} \X (1 .. m) \subseteq {"arr"} \X (1 .. n)
  BY <1>1
<1> QED BY <1>2 DEF Values

-----------------------------------------------------------------------------
(***************************************************************************)
(* Texts                                                                   *)
(***************************************************************************)
LEMMA PhraseIsText ==
  ASSUME StringsOfTLA
  PROVE  Phrases \subseteq STRING
BY DEF StringsOfTLA, StringsOn

LEMMA LengthOfText ==
  ASSUME StringsOfTLA, NEW s \in STRING
  PROVE  Len(s) \in Nat /\ (Len(s) = 0 => s = "")
BY DEF StringsOfTLA, StringsOn

LEMMA TextsJoin ==
  ASSUME StringsOfTLA, NEW s \in STRING, NEW t \in STRING
  PROVE  s \o t \in STRING
BY DEF StringsOfTLA, StringsOn

LEMMA BytesAreText ==
  ASSUME StringsOfTLA, NEW s \in STRING, NEW i \in 0 .. Len(s), NEW j \in i .. Len(s)
  PROVE  Bytes(s, i, j) \in STRING
<1>1. PICK n \in Nat : n = Len(s)
  BY LengthOfText
<1>2. i \in 0 .. n /\ j \in i .. n
  BY <1>1
<1>3. i + 1 \in 1 .. n + 1 /\ j \in (i + 1) - 1 .. n
  BY <1>2
<1>4. SubSeq(s, i + 1, j) \in STRING
  BY <1>1, <1>3 DEF StringsOfTLA, StringsOn
<1> QED BY <1>4 DEF Bytes

LEMMA LetterIsText ==
  ASSUME StringsOfTLA, NEW s \in STRING, NEW i \in 1 .. Len(s)
  PROVE  Letter(s, i) \in STRING
<1>1. PICK n \in Nat : n = Len(s)
  BY LengthOfText
<1>2. i \in 1 .. n
  BY <1>1
<1>3. i \in 1 .. n + 1 /\ i \in i - 1 .. n
  BY <1>2
<1>4. SubSeq(s, i, i) \in STRING
  BY <1>1, <1>3 DEF StringsOfTLA, StringsOn
<1> QED BY <1>4 DEF Letter

\* Where a text is found it fits.
LEMMA Found ==
  ASSUME StringsOfTLA, NEW s \in STRING, NEW sub \in STRING, NEW from \in Nat
  PROVE  LET p == StrStr(s, sub, from)
         IN p \in Int /\ (p = -1 \/ (from <= p /\ p + Len(sub) <= Len(s)))
<1>1. PICK n \in Nat : n = Len(s)
  BY LengthOfText
<1>2. PICK m \in Nat : m = Len(sub)
  BY LengthOfText
<1>3. PICK found : found = {p \in from .. n - m : Bytes(s, p, p + m) = sub}
  OBVIOUS
<1>4. StrStr(s, sub, from) = IF found = {} THEN -1 ELSE Min(found)
  BY <1>1, <1>2, <1>3 DEF StrStr
<1>5. found \in SUBSET (from .. n - m)
  BY <1>3
<1>6. found # {} => Min(found) \in from .. n - m
  <2>1. PICK d \in Int : d = n - m
    OBVIOUS
  <2>2. ASSUME found # {} PROVE Min(found) \in found
    <3>1. found \in SUBSET (from .. d) /\ from \in Int
      BY <1>5, <2>1
    <3> QED BY <2>2, <3>1, MinOf
  <2> QED BY <1>5, <2>2
<1>7. PICK p : p = StrStr(s, sub, from)
  OBVIOUS
<1>8. p \in Int /\ (p = -1 \/ (from <= p /\ p + m <= n))
  BY <1>4, <1>6, <1>7
<1> QED BY <1>1, <1>2, <1>7, <1>8

LEMMA ToStringIsText ==
  ASSUME StringsOfTLA, NEW n \in Nat, NEW v \in Values(n)
  PROVE  ValueToString(v) \in STRING
<1>1. {"nil", "true", "false", "<object>"} \subseteq STRING
  BY PhraseIsText DEF Phrases
<1>2. Is("num", v) => ToString(v[2]) \in STRING
  BY Taken DEF StringsOfTLA, StringsOn
<1>3. Is("str", v) => v[2] \in STRING
  BY Taken
<1> QED BY <1>1, <1>2, <1>3 DEF ValueToString

LEMMA SpelledIsText ==
  ASSUME StringsOfTLA, NEW n \in Nat, NEW text, \A i \in 1 .. n : text[i] \in STRING
  PROVE  Spelled(n, text) \in STRING
<1>1. PICK piece : piece = [i \in 0 .. n |-> IF i = 0 THEN "" ELSE text[i]]
  OBVIOUS
<1>2. PICK next : next = [i \in 0 .. n |-> i + 1]
  OBVIOUS
<1>3. ASSUME NEW cur \in 0 .. n PROVE piece[cur] \in STRING /\ next[cur] \in Int /\ cur < next[cur]
  <2>1. "" \in STRING
    BY PhraseIsText DEF Phrases
  <2>2. cur = 0 \/ cur \in 1 .. n
    OBVIOUS
  <2>3. piece[cur] = IF cur = 0 THEN "" ELSE text[cur]
    BY <1>1
  <2>4. piece[cur] \in STRING
    BY <2>1, <2>2, <2>3, Zenon
  <2>5. next[cur] = cur + 1 /\ cur \in Nat
    BY <1>2
  <2> QED BY <2>4, <2>5
<1>4. Chained(n, piece, next) \in STRING
  BY <1>3, TextsJoin, ChainedIn
<1> QED BY <1>1, <1>2, <1>4 DEF Spelled

-----------------------------------------------------------------------------
(***************************************************************************)
(* The built-in functions                                                  *)
(***************************************************************************)
\* How many arguments the natives take whose number is fixed.
Single == { "error", "type", "str", "is_nil", "is_num", "is_str", "is_bool", "is_array", "abs",
            "len", "pop", "sort", "upper", "lower", "trim",
            "file_read", "file_exists", "file_lines" }
Double == { "max", "min", "push", "remove", "contains", "split", "join",
            "startswith", "endswith", "index", "repeat", "file_write", "file_append" }

LEMMA ArgumentCount ==
  ASSUME NEW f, NEW k, Accepts(f, k)
  PROVE  /\ f \in Single => k = 1
         /\ f \in Double => k = 2
         /\ f = "replace" => k = 3
<1>1. f \in Single => Arity[f] = 1
  BY DEF Arity, Single
<1>2. f \in Double => Arity[f] = 2
  BY DEF Arity, Double
<1>3. f = "replace" => Arity[f] = 3
  BY DEF Arity
<1>4. Arity[f] = -1 \/ Arity[f] = k
  BY DEF Accepts
<1>5. 1 # -1 /\ 2 # -1 /\ 3 # -1
  OBVIOUS
<1> QED BY <1>1, <1>2, <1>3, <1>4, <1>5, Zenon

\* What a native acts on, when there are n arrays, and what it may answer.
World(w, n) ==
  /\ w = [heap |-> w.heap, files |-> w.files]
  /\ w.heap \in Seq(Seq(Values(n))) /\ Len(w.heap) = n
  /\ \A p \in DOMAIN w.files : w.files[p] \in STRING

Answered(a, n) ==
  \E m \in Nat : n <= m /\ World(a.world, m) /\ a.value \in Values(m) /\ a.thrown \in Values(m)

LEMMA PlainAnswers ==
  ASSUME NEW n \in Nat, NEW w, World(w, n), NEW v \in Values(n)
  PROVE  Answered(Gives(v, w), n) /\ Answered(Raises(v, w), n)
<1>1. Nil \in Values(n)
  BY Made
<1>2. /\ Gives(v, w).value = v /\ Gives(v, w).world = w /\ Gives(v, w).thrown = Nil
      /\ Raises(v, w).value = Nil /\ Raises(v, w).world = w /\ Raises(v, w).thrown = v
  BY DEF Gives, Raises
<1> QED BY <1>1, <1>2 DEF Answered

\* The items of an array, and what becomes of the world when they are others.
LEMMA ItemsOf ==
  ASSUME NEW n \in Nat, NEW w, World(w, n), NEW v \in Values(n), Is("arr", v)
  PROVE  Items(v, w.heap) \in Seq(Values(n)) /\ v[2] \in DOMAIN w.heap
<1>1. v[2] \in 1 .. n
  BY Taken
<1> QED BY <1>1 DEF World, Items

LEMMA SetItems ==
  ASSUME NEW n \in Nat, NEW w, World(w, n), NEW v \in Values(n), Is("arr", v), NEW items \in Seq(Values(n))
  PROVE  World(WithItems(w, v, items), n)
<1>1. v[2] \in 1 .. n
  BY Taken
<1>2. PICK mem : mem = [w.heap EXCEPT ![v[2]] = items]
  OBVIOUS
<1>3. mem \in Seq(Seq(Values(n))) /\ Len(mem) = n
  BY <1>1, <1>2 DEF World
<1>4. WithItems(w, v, items) = [heap |-> mem, files |-> w.files]
  <2>1. w = [heap |-> w.heap, files |-> w.files]
    BY DEF World
  <2>2. WithItems(w, v, items) = [w EXCEPT !.heap = mem]
    BY <1>2, Zenon DEF WithItems
  <2>3. [w EXCEPT !.heap = mem] = [heap |-> mem, files |-> w.files]
    BY <2>1
  <2> QED BY <2>2, <2>3
<1> QED BY <1>3, <1>4 DEF World

\* A new array.
LEMMA NewItems ==
  ASSUME NEW n \in Nat, NEW w, World(w, n), NEW items \in Seq(Values(n))
  PROVE  Answered(WithArray(w, items), n)
<1>1. n + 1 \in Nat /\ n <= n + 1 /\ Values(n) \subseteq Values(n + 1)
  BY ValuesGrow
<1>2. Arr(n + 1) \in Values(n + 1)
  <2>1. n + 1 \in 1 .. n + 1
    OBVIOUS
  <2> QED BY <1>1, <2>1, Made
<1>3. PICK mem : mem = Append(w.heap, items)
  OBVIOUS
<1>4. mem \in Seq(Seq(Values(n + 1))) /\ Len(mem) = n + 1
  <2>1. w.heap \in Seq(Seq(Values(n))) /\ Len(w.heap) = n
    BY DEF World
  <2>2. Seq(Values(n)) \subseteq Seq(Values(n + 1))
    BY <1>1
  <2>3. w.heap \in Seq(Seq(Values(n + 1))) /\ items \in Seq(Values(n + 1))
    BY <2>1, <2>2
  <2> QED BY <1>3, <2>1, <2>3
<1>5. PICK x : x = [heap |-> mem, files |-> w.files]
  OBVIOUS
<1>6. WithArray(w, items) = Gives(Arr(n + 1), x)
  <2>1. w = [heap |-> w.heap, files |-> w.files] /\ Len(w.heap) = n
    BY DEF World
  <2>2. WithArray(w, items) = Gives(Arr(Len(w.heap) + 1), [w EXCEPT !.heap = mem])
    BY <1>3, Zenon DEF WithArray
  <2>3. [w EXCEPT !.heap = mem] = x
    BY <1>5, <2>1
  <2> QED BY <2>1, <2>2, <2>3
<1>7. World(x, n + 1)
  BY <1>4, <1>5 DEF World
<1>8. Answered(Gives(Arr(n + 1), x), n + 1)
  BY <1>1, <1>2, <1>7, PlainAnswers
<1> QED BY <1>1, <1>6, <1>8 DEF Answered

\* What natives are given, and the errors they raise.
LEMMA MessageIsValue ==
  ASSUME StringsOfTLA, NEW n \in Nat, NEW kind \in Phrases
  PROVE  Message(kind) \in Values(n)
BY PhraseIsText, Made DEF Message

LEMMA ArgumentIs ==
  ASSUME NEW n \in Nat, NEW args \in Seq(Values(n)), NEW k \in 1 .. Len(args)
  PROVE  args[k] \in Values(n)
OBVIOUS

LEMMA TwoArguments ==
  ASSUME NEW n \in Nat, NEW args \in Seq(Values(n)), Len(args) = 2
  PROVE  args[1] \in Values(n) /\ args[2] \in Values(n)
OBVIOUS

LEMMA RaisesMessage ==
  ASSUME StringsOfTLA, NEW n \in Nat, NEW w, World(w, n), NEW kind \in Phrases
  PROVE  Answered(Raises(Message(kind), w), n)
BY MessageIsValue, PlainAnswers

\* The natives that act on arrays, or raise errors.
LEMMA ErrorAnswers ==
  ASSUME StringsOfTLA, NEW n \in Nat, NEW w, World(w, n), NEW args \in Seq(Values(n)), Len(args) = 1
  PROVE  Answered(NativeError(args, w), n)
<1>1. args[1] \in Values(n)
  BY ArgumentIs
<1>2. Str(ValueToString(args[1])) \in Values(n) /\ Str("nil") \in Values(n)
  <2>1. "nil" \in STRING
    BY PhraseIsText DEF Phrases
  <2> QED BY <1>1, <2>1, ToStringIsText, Made
<1> QED BY <1>1, <1>2, PlainAnswers DEF NativeError

LEMMA AssertAnswers ==
  ASSUME StringsOfTLA, NEW n \in Nat, NEW w, World(w, n), NEW args \in Seq(Values(n))
  PROVE  Answered(NativeAssert(args, w), n)
<1>1. Answered(Gives(Nil, w), n) /\ Answered(Gives(Bool(TRUE), w), n)
  BY Made, PlainAnswers
<1>2. Answered(Raises(Message("assertion"), w), n)
  BY RaisesMessage DEF Phrases
<1>3. ASSUME Len(args) >= 2 PROVE Answered(Raises(args[2], w), n)
  BY <1>3, ArgumentIs, PlainAnswers
<1> QED BY <1>1, <1>2, <1>3, Zenon DEF NativeAssert

LEMMA LenAnswers ==
  ASSUME StringsOfTLA, NEW n \in Nat, NEW w, World(w, n), NEW args \in Seq(Values(n)), Len(args) = 1
  PROVE  Answered(NativeLen(args, w), n)
<1>1. args[1] \in Values(n)
  BY ArgumentIs
<1>2. Answered(Raises(Message("len"), w), n)
  BY RaisesMessage DEF Phrases
<1>3. ASSUME args[1][1] \in {"arr", "str"} PROVE Answered(Gives(Num(Length(args[1], w.heap)), w), n)
  <2>1. CASE Is("arr", args[1])
    <3>1. Length(args[1], w.heap) \in Int
      BY <1>1, <2>1, ItemsOf DEF Length
    <3> QED BY <3>1, Made, PlainAnswers
  <2>2. CASE ~Is("arr", args[1])
    <3>1. args[1][2] \in STRING
      BY <1>1, <1>3, <2>2, Taken DEF Is
    <3>2. Length(args[1], w.heap) \in Nat
      BY <2>2, <3>1, LengthOfText DEF Length, Items
    <3> QED BY <3>2, Made, PlainAnswers
  <2> QED BY <2>1, <2>2
<1> QED BY <1>2, <1>3 DEF NativeLen

LEMMA PushAnswers ==
  ASSUME NEW n \in Nat, NEW w, World(w, n), NEW args \in Seq(Values(n)), Len(args) = 2
  PROVE  Answered(NativePush(args, w), n)
<1>1. args[1] \in Values(n) /\ args[2] \in Values(n)
  BY TwoArguments
<1>2. ASSUME Is("arr", args[1])
      PROVE  Answered(Gives(args[1], WithItems(w, args[1], Append(Items(args[1], w.heap), args[2]))), n)
  <2>1. PICK items : items = Append(Items(args[1], w.heap), args[2])
    OBVIOUS
  <2>2. items \in Seq(Values(n))
    BY <1>1, <1>2, <2>1, ItemsOf
  <2> QED BY <1>1, <1>2, <2>1, <2>2, SetItems, PlainAnswers
<1> QED BY <1>2, Made, PlainAnswers DEF NativePush

LEMMA PopAnswers ==
  ASSUME StringsOfTLA, NEW n \in Nat, NEW w, World(w, n), NEW args \in Seq(Values(n)), Len(args) = 1
  PROVE  Answered(NativePop(args, w), n)
<1>1. args[1] \in Values(n)
  BY ArgumentIs
<1>2. Answered(Raises(Message("pop"), w), n) /\ Answered(Raises(Message("empty"), w), n)
  BY RaisesMessage DEF Phrases
<1>3. PICK items : items = Items(args[1], w.heap)
  OBVIOUS
<1>4. ASSUME Is("arr", args[1]), items # <<>>
      PROVE  Answered(Gives(Last(items), WithItems(w, args[1], Front(items))), n)
  <2>1. items \in Seq(Values(n))
    BY <1>1, <1>3, <1>4, ItemsOf
  <2>2. Len(items) \in Nat /\ 1 <= Len(items)
    BY <1>4, <2>1
  <2>3. Last(items) \in Values(n)
    BY <2>1, <2>2 DEF Last
  <2>4. Front(items) \in Seq(Values(n))
    BY <1>4, <2>1, FrontOf DEF Front
  <2> QED BY <1>1, <1>4, <2>3, <2>4, SetItems, PlainAnswers
<1> QED BY <1>2, <1>3, <1>4 DEF NativePop

LEMMA RemoveAnswers ==
  ASSUME StringsOfTLA, NEW n \in Nat, NEW w, World(w, n), NEW args \in Seq(Values(n)), Len(args) = 2
  PROVE  Answered(NativeRemove(args, w), n)
<1>1. args[1] \in Values(n) /\ args[2] \in Values(n)
  BY TwoArguments
<1>2. /\ Answered(Raises(Message("remove"), w), n)
      /\ Answered(Raises(Message("out of bounds"), w), n)
  BY RaisesMessage DEF Phrases
<1>3. PICK items : items = Items(args[1], w.heap)
  OBVIOUS
<1>4. PICK idx : idx = Normalise(args[2][2], Len(items))
  OBVIOUS
<1>5. ASSUME AreOf(<<"arr", "num">>, args), ~(idx < 0 \/ idx >= Len(items))
      PROVE  Answered(Gives(items[idx + 1], WithItems(w, args[1], RemoveAt(items, idx + 1))), n)
  <2>1. Is("arr", args[1]) /\ Is("num", args[2])
    BY <1>5 DEF AreOf
  <2>2. items \in Seq(Values(n)) /\ args[2][2] \in Int
    BY <1>1, <1>3, <2>1, ItemsOf, Taken
  <2>3. idx \in 0 .. Len(items) - 1
    BY <1>4, <1>5, <2>2 DEF Normalise
  <2>4. items[idx + 1] \in Values(n)
    BY <2>2, <2>3
  <2>5. RemoveAt(items, idx + 1) \in Seq(Values(n))
    BY <2>2, <2>3 DEF RemoveAt
  <2> QED BY <1>1, <2>1, <2>4, <2>5, SetItems, PlainAnswers
<1> QED BY <1>2, <1>3, <1>4, <1>5 DEF NativeRemove

LEMMA ContainsAnswers ==
  ASSUME NEW n \in Nat, NEW w, World(w, n), NEW args
  PROVE  Answered(NativeContains(args, w), n)
<1>1. (Is("arr", args[1]) /\ \E i \in 1 .. Length(args[1], w.heap) :
                                     Items(args[1], w.heap)[i] = args[2]) \in BOOLEAN
  OBVIOUS
<1> QED BY <1>1, Made, PlainAnswers, Zenon DEF NativeContains

\* What is sorted is what there was.
LEMMA QsortItems ==
  ASSUME NEW S, NEW items \in Seq(S)
  PROVE  Qsort(items) \in Seq(S)
<1> DEFINE n == Len(items)
           at(k) == {i \in 1 .. n : Rank(items, i) = k - 1}
<1>1. Qsort(items) = IF \E k \in 1 .. n : at(k) = {} THEN items
                     ELSE [k \in 1 .. n |-> items[CHOOSE i \in at(k) : TRUE]]
  BY Zenon DEF Qsort
<1>2. \A k : at(k) \subseteq 1 .. n
  OBVIOUS
<1> HIDE DEF at
<1>3. ASSUME NEW k \in 1 .. n, at(k) # {} PROVE items[CHOOSE i \in at(k) : TRUE] \in S
  <2>1. (CHOOSE i \in at(k) : TRUE) \in at(k)
    BY <1>3
  <2> QED BY <1>2, <2>1
<1> QED BY <1>1, <1>3

LEMMA SortAnswers ==
  ASSUME NEW n \in Nat, NEW w, World(w, n), NEW args \in Seq(Values(n)), Len(args) = 1
  PROVE  Answered(NativeSort(args, w), n)
<1>1. args[1] \in Values(n)
  BY ArgumentIs
<1>2. ASSUME Is("arr", args[1])
      PROVE  Answered(Gives(args[1], WithItems(w, args[1], Qsort(Items(args[1], w.heap)))), n)
  BY <1>1, <1>2, ItemsOf, QsortItems, SetItems, PlainAnswers
<1> QED BY <1>2, Made, PlainAnswers DEF NativeSort

\* The natives that compute numbers, types and texts.
LEMMA NumbersComputed ==
  ASSUME NEW n \in Nat, NEW args \in Seq(Values(n))
  PROVE  /\ Len(args) = 1 => NativeAbs(args) \in Values(n)
         /\ Len(args) = 2 => NativeMax(args) \in Values(n) /\ NativeMin(args) \in Values(n)
<1>1. ASSUME NEW a \in Int, NEW b \in Int
      PROVE  Num(Max({a, b})) \in Values(n) /\ Num(Min({a, b})) \in Values(n)
  <2>1. Max({a, b}) \in Int /\ Min({a, b}) \in Int
    BY MaxOfTwo, MinOfTwo
  <2> QED BY <2>1, Made
<1>2. Nil \in Values(n)
  BY Made
<1>3. ASSUME Len(args) = 1 PROVE NativeAbs(args) \in Values(n)
  <2>0. 1 \in 1 .. Len(args)
    BY <1>3
  <2>1. args[1] \in Values(n)
    BY <2>0, ArgumentIs
  <2>2. ASSUME Is("num", args[1]) PROVE args[1][2] \in Int /\ -args[1][2] \in Int
    <3>1. args[1][2] \in Int
      BY <2>1, <2>2, Taken
    <3> QED BY <3>1
  <2> QED BY <1>1, <1>2, <2>2 DEF NativeAbs
<1>4. ASSUME Len(args) = 2 PROVE NativeMax(args) \in Values(n) /\ NativeMin(args) \in Values(n)
  <2>1. args[1] \in Values(n) /\ args[2] \in Values(n)
    BY <1>4, TwoArguments
  <2>2. BothNum(args[1], args[2]) => args[1][2] \in Int /\ args[2][2] \in Int
    BY <2>1, Taken DEF BothNum
  <2> QED BY <1>1, <1>2, <2>2 DEF NativeMax, NativeMin
<1> QED BY <1>3, <1>4

LEMMA TypesComputed ==
  ASSUME StringsOfTLA, NEW n \in Nat, NEW args \in Seq(Values(n)), Len(args) = 1
  PROVE  NativeType(args) \in Values(n) /\ NativeStr(args) \in Values(n)
<1>1. args[1] \in Values(n)
  BY ArgumentIs
<1>2. PICK tag \in {"nil", "bool", "num", "str", "fn", "native", "arr"} : tag = args[1][1]
  BY <1>1, Taken
<1>3. TypeNames[tag] \in STRING
  <2>1. {"nil", "bool", "number", "string", "array", "function"} \subseteq STRING
    BY PhraseIsText DEF Phrases
  <2>2. TypeNames[tag] \in {"nil", "bool", "number", "string", "array", "function"}
    BY <1>2 DEF TypeNames
  <2> QED BY <2>1, <2>2
<1> QED BY <1>1, <1>2, <1>3, ToStringIsText, Made DEF NativeType, NativeStr

LEMMA CasesComputed ==
  ASSUME StringsOfTLA, NEW n \in Nat, NEW args \in Seq(Values(n)), Len(args) = 1
  PROVE  NativeUpper(args) \in Values(n) /\ NativeLower(args) \in Values(n)
<1>1. args[1] \in Values(n)
  BY ArgumentIs
<1>2. {Small, Capital} \subseteq STRING
  BY PhraseIsText DEF Phrases
<1>3. ASSUME NEW c \in STRING, NEW from, NEW to \in {Small, Capital}
      PROVE  Recased(c, from, to) \in STRING
  <2>1. \A i \in 1 .. 26 : Letter(to, i) \in STRING
    BY <1>2, LetterIsText, LettersAssumption DEF LettersAssumption
  <2> QED BY <2>1 DEF Recased
<1>4. ASSUME NEW s \in STRING, NEW from, NEW to \in {Small, Capital}
      PROVE  Str(Converted(s, from, to)) \in Values(n)
  <2>1. PICK m \in Nat : m = Len(s)
    BY LengthOfText
  <2>2. PICK text : text = [i \in 1 .. m |-> Recased(Letter(s, i), from, to)]
    OBVIOUS
  <2>3. ASSUME NEW i \in 1 .. m PROVE text[i] \in STRING
    BY <1>3, <2>1, <2>2, LetterIsText
  <2>4. Spelled(m, text) \in STRING
    BY <2>3, SpelledIsText
  <2> QED BY <2>1, <2>2, <2>4, Made DEF Converted
<1>5. Is("str", args[1]) => args[1][2] \in STRING
  BY <1>1, Taken
<1> QED BY <1>4, <1>5, Made DEF NativeUpper, NativeLower

LEMMA SliceComputed ==
  ASSUME StringsOfTLA, NEW n \in Nat, NEW args \in Seq(Values(n))
  PROVE  NativeSlice(args) \in Values(n)
<1>1. CASE ~(Len(args) >= 2 /\ Is("str", args[1]) /\ Is("num", args[2]))
  BY <1>1, Made DEF NativeSlice
<1>2. CASE Len(args) >= 2 /\ Is("str", args[1]) /\ Is("num", args[2])
  <2>1. args[1] \in Values(n) /\ args[2] \in Values(n)
    BY <1>2, ArgumentIs
  <2>2. PICK s \in STRING : s = args[1][2]
    BY <1>2, <2>1, Taken
  <2>3. PICK l \in Nat : l = Len(s)
    BY LengthOfText
  <2>4. PICK i \in Int : i = args[2][2]
    BY <1>2, <2>1, Taken
  <2>5. PICK start : start = SliceStart(s, i)
    OBVIOUS
  <2>6. PICK end : end = IF Len(args) = 3 /\ Is("num", args[3]) THEN SliceEnd(s, args[3][2]) ELSE Len(s)
    OBVIOUS
  <2>7. start \in Nat
    <3>1. PICK from \in Int : from = IF i < 0 THEN l + i ELSE i
      OBVIOUS
    <3>2. start = Max({0, from})
      BY <2>3, <2>5, <3>1 DEF SliceStart
    <3>3. Max({0, from}) \in {0, from} /\ Max({0, from}) >= 0
      <4>1. 0 \in Int
        OBVIOUS
      <4> QED BY <4>1, MaxOfTwo
    <3> QED BY <3>2, <3>3
  <2>8. end \in Int /\ end <= l
    <3>1. CASE Len(args) = 3 /\ Is("num", args[3])
      <4>1. args[3] \in Values(n)
        BY <3>1, ArgumentIs
      <4>2. PICK j \in Int : j = args[3][2]
        BY <3>1, <4>1, Taken
      <4>3. PICK to \in Int : to = IF j < 0 THEN l + j ELSE j
        OBVIOUS
      <4>4. end = Min({l, to})
        BY <2>3, <2>6, <3>1, <4>2, <4>3 DEF SliceEnd
      <4>5. Min({l, to}) \in {l, to} /\ Min({l, to}) <= l
        <5>1. l \in Int
          OBVIOUS
        <5> QED BY <5>1, MinOfTwo
      <4> QED BY <4>4, <4>5
    <3>2. CASE ~(Len(args) = 3 /\ Is("num", args[3]))
      BY <2>3, <2>6, <3>2
    <3> QED BY <3>1, <3>2
  <2>9. NativeSlice(args) = IF start >= end THEN Str("") ELSE Str(Bytes(s, start, end))
    BY <1>2, <2>2, <2>4, <2>5, <2>6 DEF NativeSlice
  <2>10. ~(start >= end) => start \in 0 .. l /\ end \in start .. l
    BY <2>7, <2>8
  <2>11. ~(start >= end) => Bytes(s, start, end) \in STRING
    BY <2>3, <2>10, BytesAreText
  <2>12. "" \in STRING
    BY PhraseIsText DEF Phrases
  <2> QED BY <2>9, <2>11, <2>12, Made
<1> QED BY <1>1, <1>2

LEMMA TrimComputed ==
  ASSUME StringsOfTLA, NEW n \in Nat, NEW args \in Seq(Values(n)), Len(args) = 1
  PROVE  NativeTrim(args) \in Values(n)
<1>1. args[1] \in Values(n)
  BY ArgumentIs
<1>2. CASE ~Is("str", args[1])
  BY <1>2, Made DEF NativeTrim
<1>3. CASE Is("str", args[1])
  <2>1. PICK s \in STRING : s = args[1][2]
    BY <1>1, <1>3, Taken
  <2>2. PICK l \in Nat : l = Len(s)
    BY LengthOfText
  <2>3. PICK kept : kept = {i \in 0 .. l - 1 : ~IsSpace(Letter(s, i + 1))}
    OBVIOUS
  <2>4. NativeTrim(args) = IF kept = {} THEN Str("") ELSE Str(Bytes(s, Min(kept), Max(kept) + 1))
    BY <1>3, <2>1, <2>2, <2>3 DEF NativeTrim
  <2>5. ASSUME kept # {} PROVE Bytes(s, Min(kept), Max(kept) + 1) \in STRING
    <3>1. PICK e \in Int : e = l - 1
      OBVIOUS
    <3>2. kept \in SUBSET (0 .. e) /\ 0 \in Int
      <4>1. kept \in SUBSET (0 .. l - 1)
        BY <2>3
      <4>2. 0 \in Int
        OBVIOUS
      <4> QED BY <3>1, <4>1, <4>2
    <3>3. PICK a : a = Min(kept)
      OBVIOUS
    <3>4. PICK z : z = Max(kept)
      OBVIOUS
    <3>5. a \in kept /\ z \in kept /\ a <= z
      <4>1. Min(kept) \in kept /\ \A y \in kept : Min(kept) <= y
        BY <2>5, <3>2, MinOf
      <4>2. Max(kept) \in kept
        BY <2>5, <3>2, MaxOf
      <4> QED BY <3>3, <3>4, <4>1, <4>2
    <3>6. a \in 0 .. l /\ z + 1 \in a .. l
      BY <3>1, <3>2, <3>5
    <3> QED BY <2>2, <3>3, <3>4, <3>6, BytesAreText
  <2>6. "" \in STRING
    BY PhraseIsText DEF Phrases
  <2> QED BY <2>4, <2>5, <2>6, Made
<1> QED BY <1>2, <1>3

LEMMA ReplaceComputed ==
  ASSUME StringsOfTLA, NEW n \in Nat, NEW args \in Seq(Values(n)), Len(args) = 3
  PROVE  NativeReplace(args) \in Values(n)
<1>1. args[1] \in Values(n) /\ args[2] \in Values(n) /\ args[3] \in Values(n)
  OBVIOUS
<1>2. CASE ~AreOf(<<"str", "str", "str">>, args)
  BY <1>2, Made DEF NativeReplace
<1>3. CASE AreOf(<<"str", "str", "str">>, args)
  <2>1. Is("str", args[1]) /\ Is("str", args[2]) /\ Is("str", args[3])
    BY <1>3 DEF AreOf
  <2>2. PICK src \in STRING : src = args[1][2]
    BY <1>1, <2>1, Taken
  <2>3. PICK old \in STRING : old = args[2][2]
    BY <1>1, <2>1, Taken
  <2>4. PICK new \in STRING : new = args[3][2]
    BY <1>1, <2>1, Taken
  <2>5. PICK found : found = StrStr(src, old, 0)
    OBVIOUS
  <2>6. NativeReplace(args) = IF old = "" \/ found = -1 THEN args[1]
          ELSE Str(Bytes(src, 0, found) \o new \o Bytes(src, found + Len(old), Len(src)))
    BY <1>3, <2>2, <2>3, <2>4, <2>5 DEF NativeReplace
  <2>7. ASSUME found # -1
        PROVE  Bytes(src, 0, found) \o new \o Bytes(src, found + Len(old), Len(src)) \in STRING
    <3>1. PICK l \in Nat : l = Len(src)
      BY LengthOfText
    <3>2. PICK m \in Nat : m = Len(old)
      BY LengthOfText
    <3>3. found \in Int /\ 0 <= found /\ found + m <= l
      <4>1. 0 \in Nat
        OBVIOUS
      <4> QED BY <2>5, <2>7, <3>1, <3>2, <4>1, Found
    <3>4. 0 \in 0 .. l /\ found \in 0 .. l /\ found + m \in 0 .. l /\ l \in found + m .. l
      BY <3>3
    <3>5. Bytes(src, 0, found) \in STRING
      BY <3>1, <3>4, BytesAreText
    <3>6. Bytes(src, found + Len(old), Len(src)) \in STRING
      BY <3>1, <3>2, <3>4, BytesAreText
    <3> QED BY <3>5, <3>6, TextsJoin
  <2> QED BY <1>1, <2>6, <2>7, Made
<1> QED BY <1>2, <1>3

\* Texts that are joined one after the other are a sequence of values.
LEMMA ChainedValues ==
  ASSUME NEW n \in Nat, NEW k \in Nat, NEW piece, NEW next,
         \A cur \in 0 .. k : piece[cur] \in Seq(Values(n)) /\ next[cur] \in Int /\ cur < next[cur]
  PROVE  Chained(k, piece, next) \in Seq(Values(n))
<1>1. \A s, t \in Seq(Values(n)) : s \o t \in Seq(Values(n))
  OBVIOUS
<1> QED BY <1>1, ChainedIn

LEMMA PartsAreValues ==
  ASSUME StringsOfTLA, NEW n \in Nat, NEW src \in STRING, NEW sep \in STRING
  PROVE  sep # "" => Parts(src, sep) \in Seq(Values(n))
<1>0. SUFFICES ASSUME sep # "" PROVE Parts(src, sep) \in Seq(Values(n))
  OBVIOUS
<1>1. PICK l \in Nat : l = Len(src)
  BY LengthOfText
<1>2. PICK m \in Nat : m = Len(sep)
  BY LengthOfText
<1>a. m # 0
  BY <1>0, <1>2, LengthOfText
<1>3. PICK found : found = [cur \in 0 .. l |-> StrStr(src, sep, cur)]
  OBVIOUS
<1>4. PICK piece : piece = [cur \in 0 .. l |->
                              <<Str(Bytes(src, cur, IF found[cur] = -1 THEN l ELSE found[cur]))>>]
  OBVIOUS
<1>5. PICK next : next = [cur \in 0 .. l |-> IF found[cur] = -1 THEN l + 1 ELSE After(found[cur], sep)]
  OBVIOUS
<1>6. Parts(src, sep) = Chained(l, piece, next)
  BY <1>1, <1>3, <1>4, <1>5 DEF Parts
<1>7. ASSUME NEW cur \in 0 .. l
      PROVE  piece[cur] \in Seq(Values(n)) /\ next[cur] \in Int /\ cur < next[cur]
  <2>0. PICK c \in Nat : c = cur /\ c <= l
    OBVIOUS
  <2>1. PICK f : f = found[cur]
    OBVIOUS
  <2>2. f \in Int /\ (f = -1 \/ (c <= f /\ f + m <= l))
    <3>1. f = StrStr(src, sep, c)
      BY <1>3, <2>0, <2>1
    <3> QED BY <1>1, <1>2, <3>1, Found
  <2>3. PICK end : end = IF f = -1 THEN l ELSE f
    OBVIOUS
  <2>4. c \in 0 .. l /\ end \in c .. l
    BY <2>0, <2>2, <2>3
  <2>5. Bytes(src, c, end) \in STRING
    BY <1>1, <2>4, BytesAreText
  <2>6. PICK v : v = Str(Bytes(src, c, end))
    OBVIOUS
  <2>7. piece[cur] = <<v>> /\ v \in Values(n)
    BY <1>4, <2>0, <2>1, <2>3, <2>5, <2>6, Made
  <2>8. piece[cur] \in Seq(Values(n))
    BY <2>7
  <2>9. next[cur] = IF f = -1 THEN l + 1 ELSE f + m
    BY <1>2, <1>5, <2>1 DEF After
  <2>10. next[cur] \in Int /\ cur < next[cur]
    BY <1>a, <2>0, <2>2, <2>9
  <2> QED BY <2>8, <2>10
<1> QED BY <1>6, <1>7, ChainedValues

\* A function on 1 .. l is a sequence.
LEMMA IsSequence ==
  ASSUME NEW S, NEW l \in Nat, NEW f, f = [i \in 1 .. l |-> f[i]], \A i \in 1 .. l : f[i] \in S
  PROVE  f \in Seq(S) /\ Len(f) = l
OBVIOUS

LEMMA SplitAnswers ==
  ASSUME StringsOfTLA, NEW n \in Nat, NEW w, World(w, n), NEW args \in Seq(Values(n)), Len(args) = 2
  PROVE  Answered(NativeSplit(args, w), n)
<1>1. args[1] \in Values(n) /\ args[2] \in Values(n)
  BY TwoArguments
<1>2. CASE ~AreOf(<<"str", "str">>, args)
  BY <1>2, Made, PlainAnswers DEF NativeSplit
<1>3. CASE AreOf(<<"str", "str">>, args)
  <2>1. Is("str", args[1]) /\ Is("str", args[2])
    BY <1>3 DEF AreOf
  <2>2. PICK src \in STRING : src = args[1][2]
    BY <1>1, <2>1, Taken
  <2>3. PICK sep \in STRING : sep = args[2][2]
    BY <1>1, <2>1, Taken
  <2>4. PICK l \in Nat : l = Len(src)
    BY LengthOfText
  <2>5. PICK letters : letters = [i \in 1 .. l |-> Str(Letter(src, i))]
    OBVIOUS
  <2>6. NativeSplit(args, w) = IF sep = "" THEN WithArray(w, letters) ELSE WithArray(w, Parts(src, sep))
    BY <1>3, <2>2, <2>3, <2>4, <2>5 DEF NativeSplit
  <2>7. letters \in Seq(Values(n))
    <3>1. ASSUME NEW i \in 1 .. l PROVE letters[i] \in Values(n)
      BY <2>4, <2>5, LetterIsText, Made
    <3>2. letters = [i \in 1 .. l |-> letters[i]]
      BY <2>5
    <3> QED BY <3>1, <3>2, IsSequence
  <2> QED BY <2>6, <2>7, PartsAreValues, NewItems
<1> QED BY <1>2, <1>3

LEMMA SearchesComputed ==
  ASSUME StringsOfTLA, NEW n \in Nat, NEW args \in Seq(Values(n)), Len(args) = 2
  PROVE  /\ NativeStartsWith(args) \in Values(n) /\ NativeEndsWith(args) \in Values(n)
         /\ NativeIndex(args) \in Values(n)
<1>1. args[1] \in Values(n) /\ args[2] \in Values(n)
  BY TwoArguments
<1>2. NativeStartsWith(args) \in Values(n) /\ NativeEndsWith(args) \in Values(n)
  BY Made, Zenon DEF NativeStartsWith, NativeEndsWith
<1>3. AreOf(<<"str", "str">>, args) => StrStr(args[1][2], args[2][2], 0) \in Int
  <2>1. SUFFICES ASSUME AreOf(<<"str", "str">>, args) PROVE StrStr(args[1][2], args[2][2], 0) \in Int
    OBVIOUS
  <2>2. Is("str", args[1]) /\ Is("str", args[2])
    BY <2>1 DEF AreOf
  <2>3. args[1][2] \in STRING /\ args[2][2] \in STRING /\ 0 \in Nat
    BY <1>1, <2>2, Taken
  <2> QED BY <2>3, Found
<1>4. -1 \in Int
  OBVIOUS
<1>5. NativeIndex(args) \in Values(n)
  BY <1>3, <1>4, Made DEF NativeIndex
<1> QED BY <1>2, <1>5

LEMMA RepeatComputed ==
  ASSUME StringsOfTLA, NEW n \in Nat, NEW args \in Seq(Values(n)), Len(args) = 2
  PROVE  NativeRepeat(args) \in Values(n)
<1>1. args[1] \in Values(n) /\ args[2] \in Values(n)
  BY TwoArguments
<1>2. CASE ~AreOf(<<"str", "num">>, args)
  BY <1>2, Made DEF NativeRepeat
<1>3. CASE AreOf(<<"str", "num">>, args)
  <2>1. Is("str", args[1]) /\ Is("num", args[2])
    BY <1>3 DEF AreOf
  <2>2. PICK s \in STRING : s = args[1][2]
    BY <1>1, <2>1, Taken
  <2>3. PICK i \in Int : i = args[2][2]
    BY <1>1, <2>1, Taken
  <2>4. PICK m \in Nat : m = Max({0, i})
    <3>1. 0 \in Int
      OBVIOUS
    <3>2. Max({0, i}) \in {0, i} /\ Max({0, i}) >= 0
      BY <3>1, MaxOfTwo
    <3> QED BY <3>2
  <2>5. PICK text : text = [j \in 1 .. m |-> s]
    OBVIOUS
  <2>6. NativeRepeat(args) = Str(Spelled(m, text))
    BY <1>3, <2>2, <2>3, <2>4, <2>5 DEF NativeRepeat
  <2>7. Spelled(m, text) \in STRING
    BY <2>5, SpelledIsText
  <2> QED BY <2>6, <2>7, Made
<1> QED BY <1>2, <1>3

LEMMA JoinComputed ==
  ASSUME StringsOfTLA, NEW n \in Nat, NEW w, World(w, n), NEW args \in Seq(Values(n)), Len(args) = 2
  PROVE  NativeJoin(args, w) \in Values(n)
<1>1. args[1] \in Values(n) /\ args[2] \in Values(n)
  BY TwoArguments
<1>2. CASE ~AreOf(<<"arr", "str">>, args)
  BY <1>2, Made DEF NativeJoin
<1>3. CASE AreOf(<<"arr", "str">>, args)
  <2>1. Is("arr", args[1]) /\ Is("str", args[2])
    BY <1>3 DEF AreOf
  <2>2. PICK items \in Seq(Values(n)) : items = Items(args[1], w.heap)
    BY <1>1, <2>1, ItemsOf
  <2>3. PICK sep \in STRING : sep = args[2][2]
    BY <1>1, <2>1, Taken
  <2>4. PICK l \in Nat : l = Len(items)
    OBVIOUS
  <2>5. PICK text : text = [i \in 1 .. l |-> (IF i > 1 THEN sep ELSE "") \o ItemText(items[i])]
    OBVIOUS
  <2>6. NativeJoin(args, w) = Str(Spelled(l, text))
    BY <1>3, <2>2, <2>3, <2>4, <2>5 DEF NativeJoin
  <2>7. "" \in STRING /\ "nil" \in STRING
    BY PhraseIsText DEF Phrases
  <2>8. ASSUME NEW i \in 1 .. l PROVE text[i] \in STRING
    <3>1. items[i] \in Values(n)
      BY <2>4
    <3>2. ItemText(items[i]) \in STRING
      BY <2>7, <3>1, ToStringIsText DEF ItemText
    <3>3. PICK before \in STRING : before = IF i > 1 THEN sep ELSE ""
      BY <2>7
    <3> QED BY <2>5, <3>2, <3>3, TextsJoin
  <2>9. Spelled(l, text) \in STRING
    BY <2>8, SpelledIsText
  <2> QED BY <2>6, <2>9, Made
<1> QED BY <1>2, <1>3

\* The natives that act on files.
LEMMA FileReadAnswers ==
  ASSUME StringsOfTLA, NEW n \in Nat, NEW w, World(w, n), NEW args
  PROVE  Answered(NativeFileRead(args, w), n)
<1>1. /\ Answered(Raises(Message("path"), w), n)
      /\ Answered(Raises(Message("cannot read"), w), n)
  BY RaisesMessage DEF Phrases
<1>2. CanRead(args[1][2], w) => Answered(Gives(Str(w.files[args[1][2]]), w), n)
  <2>1. CanRead(args[1][2], w) => w.files[args[1][2]] \in STRING
    BY DEF World, CanRead
  <2> QED BY <2>1, Made, PlainAnswers
<1> QED BY <1>1, <1>2 DEF NativeFileRead

LEMMA FilePutAnswers ==
  ASSUME StringsOfTLA, NEW n \in Nat, NEW w, World(w, n), NEW append,
         NEW args \in Seq(Values(n)), Len(args) = 2
  PROVE  Answered(NativeFilePut(args, w, append), n)
<1>1. args[1] \in Values(n) /\ args[2] \in Values(n)
  BY TwoArguments
<1>2. /\ Answered(Raises(Message("path and content"), w), n)
      /\ Answered(Raises(Message("cannot write"), w), n)
  BY RaisesMessage DEF Phrases
<1>3. PICK path : path = args[1][2]
  OBVIOUS
<1>4. PICK kept : kept = IF append /\ CanRead(path, w) THEN w.files[path] ELSE ""
  OBVIOUS
<1>5. ASSUME AreOf(<<"str", "str">>, args)
      PROVE  Answered(Gives(Bool(TRUE), WithFile(w, path, kept \o args[2][2])), n)
  <2>1. Is("str", args[2])
    BY <1>5 DEF AreOf
  <2>2. PICK text \in STRING : text = kept \o args[2][2]
    <3>1. args[2][2] \in STRING
      BY <1>1, <2>1, Taken
    <3>2. "" \in STRING
      BY PhraseIsText DEF Phrases
    <3>3. kept \in STRING
      BY <1>4, <3>2 DEF World, CanRead
    <3> QED BY <3>1, <3>3, TextsJoin
  <2>3. PICK fs : fs = [p \in DOMAIN w.files \cup {path} |-> IF p = path THEN text ELSE w.files[p]]
    OBVIOUS
  <2>4. WithFile(w, path, text) = [heap |-> w.heap, files |-> fs]
    <3>1. w = [heap |-> w.heap, files |-> w.files]
      BY DEF World
    <3>2. WithFile(w, path, text) = [w EXCEPT !.files = fs]
      BY <2>3, Zenon DEF WithFile
    <3>3. [w EXCEPT !.files = fs] = [heap |-> w.heap, files |-> fs]
      BY <3>1
    <3> QED BY <3>2, <3>3
  <2>5. \A p \in DOMAIN fs : fs[p] \in STRING
    BY <2>3 DEF World
  <2>6. World(WithFile(w, path, text), n)
    BY <2>4, <2>5 DEF World
  <2> QED BY <2>2, <2>6, Made, PlainAnswers
<1> QED BY <1>2, <1>3, <1>4, <1>5 DEF NativeFilePut

LEMMA LinesAreValues ==
  ASSUME StringsOfTLA, NEW n \in Nat, NEW text \in STRING
  PROVE  Lines(text) \in Seq(Values(n))
<1>1. PICK l \in Nat : l = Len(text)
  BY LengthOfText
<1>2. PICK nl : nl = [cur \in 0 .. l |-> StrStr(text, "\n", cur)]
  OBVIOUS
<1>3. PICK end : end = [cur \in 0 .. l |->
        LET stop == IF nl[cur] = -1 THEN l ELSE nl[cur]
        IN IF stop > cur /\ Letter(text, stop) = "\r" THEN stop - 1 ELSE stop]
  OBVIOUS
<1>4. PICK piece : piece = [cur \in 0 .. l |-> <<Str(Bytes(text, cur, end[cur]))>>]
  OBVIOUS
<1>5. PICK next : next = [cur \in 0 .. l |-> IF nl[cur] = -1 THEN l + 1 ELSE nl[cur] + 1]
  OBVIOUS
<1>6. Lines(text) = Chained(l, piece, next)
  BY <1>1, <1>2, <1>3, <1>4, <1>5 DEF Lines, LastLine
<1>7. ASSUME NEW cur \in 0 .. l
      PROVE  piece[cur] \in Seq(Values(n)) /\ next[cur] \in Int /\ cur < next[cur]
  <2>0. PICK c \in Nat : c = cur /\ c <= l
    OBVIOUS
  <2>1. PICK f : f = nl[cur]
    OBVIOUS
  <2>2. f \in Int /\ (f = -1 \/ (c <= f /\ f <= l))
    <3>1. f = StrStr(text, "\n", c)
      BY <1>2, <2>0, <2>1
    <3>2. PICK newline \in STRING : newline = "\n"
      BY PhraseIsText DEF Phrases
    <3>3. PICK m \in Nat : m = Len(newline)
      BY LengthOfText
    <3>4. f \in Int /\ (f = -1 \/ (c <= f /\ f + m <= l))
      BY <1>1, <3>1, <3>2, <3>3, Found
    <3> QED BY <3>4
  <2>3. PICK e : e = end[cur]
    OBVIOUS
  <2>4. c \in 0 .. l /\ e \in c .. l
    <3>1. PICK stop \in Nat : stop = IF nl[cur] = -1 THEN l ELSE nl[cur]
      BY <2>1, <2>2
    <3>2. c <= stop /\ stop <= l
      BY <2>0, <2>1, <2>2, <3>1
    <3>3. e = IF stop > c /\ Letter(text, stop) = "\r" THEN stop - 1 ELSE stop
      BY <1>3, <2>0, <2>3, <3>1
    <3>4. e = stop \/ (e = stop - 1 /\ stop > c)
      BY <3>3
    <3> QED BY <2>0, <3>2, <3>4
  <2>5. Bytes(text, c, e) \in STRING
    BY <1>1, <2>4, BytesAreText
  <2>6. PICK v : v = Str(Bytes(text, c, e))
    OBVIOUS
  <2>7. piece[cur] = <<v>> /\ v \in Values(n)
    BY <1>4, <2>0, <2>3, <2>5, <2>6, Made
  <2>8. piece[cur] \in Seq(Values(n))
    BY <2>7
  <2>9. next[cur] = IF f = -1 THEN l + 1 ELSE f + 1
    BY <1>5, <2>1
  <2>10. next[cur] \in Int /\ cur < next[cur]
    BY <2>0, <2>2, <2>9
  <2> QED BY <2>8, <2>10
<1> QED BY <1>6, <1>7, ChainedValues

LEMMA FileLinesAnswers ==
  ASSUME StringsOfTLA, NEW n \in Nat, NEW w, World(w, n), NEW args
  PROVE  Answered(NativeFileLines(args, w), n)
<1>1. /\ Answered(Raises(Message("path"), w), n)
      /\ Answered(Raises(Message("cannot read"), w), n)
  BY RaisesMessage DEF Phrases
<1>2. ASSUME CanRead(args[1][2], w) PROVE Answered(WithArray(w, Lines(w.files[args[1][2]])), n)
  <2>1. PICK text \in STRING : text = w.files[args[1][2]]
    BY <1>2 DEF World, CanRead
  <2> QED BY <2>1, LinesAreValues, NewItems
<1> QED BY <1>1, <1>2 DEF NativeFileLines

\* Those that compute a value, of as many arguments as each takes.
LEMMA ComputedIsValue ==
  ASSUME StringsOfTLA, NEW n \in Nat, NEW w, World(w, n), NEW args \in Seq(Values(n)),
         NEW f \in DOMAIN Arity, Accepts(f, Len(args)),
         f \notin {"error", "assert", "len", "push", "pop", "remove", "contains", "sort", "split",
                  "file_read", "file_write", "file_append", "file_exists", "file_lines"}
  PROVE  Computed(f, args, w) \in Values(n)
<1>1. f \in {"abs", "max", "min", "type", "str", "is_nil", "is_num", "is_str", "is_bool", "is_array",
           "upper", "lower", "slice", "trim", "replace", "startswith", "endswith", "index",
           "repeat", "join"}
  BY DEF Arity
<1>2. /\ f \in Single => Len(args) = 1
      /\ f \in Double => Len(args) = 2
      /\ f = "replace" => Len(args) = 3
  BY ArgumentCount
<1>5. DOMAIN NativeIs = {"is_nil", "is_num", "is_str", "is_bool", "is_array"}
  BY DEF NativeIs
<1>6. CASE f \in {"abs", "max", "min"}
  BY <1>2, <1>5, <1>6, NumbersComputed DEF Computed, Single, Double
<1>7. CASE f \in {"type", "str"}
  BY <1>2, <1>5, <1>7, TypesComputed DEF Computed, Single
<1>8. CASE f \in DOMAIN NativeIs
  <2>1. Computed(f, args, w) = Bool(Is(NativeIs[f], args[1]))
    BY <1>5, <1>8 DEF Computed
  <2>2. Is(NativeIs[f], args[1]) \in BOOLEAN
    BY DEF Is
  <2> QED BY <2>1, <2>2, Made
<1>9. CASE f \in {"upper", "lower"}
  BY <1>2, <1>5, <1>9, CasesComputed DEF Computed, Single
<1>10. CASE f \in {"slice", "trim", "replace"}
  BY <1>2, <1>5, <1>10, SliceComputed, TrimComputed, ReplaceComputed DEF Computed, Single
<1>11. CASE f \in {"startswith", "endswith", "index"}
  BY <1>2, <1>5, <1>11, SearchesComputed DEF Computed, Double
<1>12. CASE f \in {"repeat", "join"}
  BY <1>2, <1>5, <1>12, RepeatComputed, JoinComputed DEF Computed, Double
<1> QED BY <1>1, <1>5, <1>6, <1>7, <1>8, <1>9, <1>10, <1>11, <1>12

\* A native that accepts its arguments answers with values, and leaves values in the
\* arrays and texts in the files.
LEMMA NativeAnswers ==
  ASSUME StringsOfTLA, NEW n \in Nat, NEW w, World(w, n), NEW args \in Seq(Values(n)),
         NEW f \in DOMAIN Arity, Accepts(f, Len(args))
  PROVE  Answered(RunNative(f, args, w), n)
<1>1. /\ f \in Single => Len(args) = 1
      /\ f \in Double => Len(args) = 2
  BY ArgumentCount
<1>2. CASE f \in {"error", "assert"}
  BY <1>1, <1>2, ErrorAnswers, AssertAnswers DEF RunNative, Single, Double
<1>3. CASE f \in {"len", "push", "pop"}
  BY <1>1, <1>3, LenAnswers, PushAnswers, PopAnswers DEF RunNative, Single, Double
<1>4. CASE f \in {"remove", "contains", "sort", "split"}
  BY <1>1, <1>4, RemoveAnswers, ContainsAnswers, SortAnswers, SplitAnswers DEF RunNative, Single, Double
<1>5. CASE f \in {"file_read", "file_write", "file_append", "file_lines"}
  BY <1>1, <1>5, FileReadAnswers, FilePutAnswers, FileLinesAnswers DEF RunNative, Single, Double
<1>6. CASE f = "file_exists"
  <2>1. RunNative(f, args, w) = Gives(Bool(Is("str", args[1]) /\ CanRead(args[1][2], w)), w)
    BY <1>6 DEF RunNative, NativeFileExists
  <2>2. (Is("str", args[1]) /\ CanRead(args[1][2], w)) \in BOOLEAN
    OBVIOUS
  <2> QED BY <2>1, <2>2, Made, PlainAnswers
<1>7. CASE f \notin {"error", "assert", "len", "push", "pop", "remove", "contains", "sort", "split",
                    "file_read", "file_write", "file_append", "file_exists", "file_lines"}
  <2>1. RunNative(f, args, w) = Gives(Computed(f, args, w), w)
    BY <1>7 DEF RunNative
  <2>2. Computed(f, args, w) \in Values(n)
    BY <1>7, ComputedIsValue
  <2> QED BY <2>1, <2>2, PlainAnswers
<1> QED BY <1>2, <1>3, <1>4, <1>5, <1>6, <1>7

-----------------------------------------------------------------------------
(***************************************************************************)
(* What the slots hold                                                     *)
(***************************************************************************)
\* What TypeOK says, part by part.
LEMMA HeldNow ==
  ASSUME TypeOK, NEW n, n = Len(heap)
  PROVE  /\ n \in Nat /\ heap \in Seq(Seq(Values(n)))
         /\ \A a \in Slots : stack[a] \in Values(n)
         /\ \A x \in DOMAIN globals : globals[x] \in Values(n)
         /\ thrown \in Values(n)
         /\ \A p \in DOMAIN files : files[p] \in STRING
<1>1. heap \in Seq(Seq(Values(n)))
  BY DEF TypeOK, Holds
<1>2. n \in Nat
  BY <1>1
<1>3. {stack[a] : a \in Slots} \cup {globals[x] : x \in DOMAIN globals} \cup {thrown} \subseteq Values(n)
  BY DEF TypeOK, Holds
<1>4. {files[p] : p \in DOMAIN files} \subseteq STRING
  BY DEF TypeOK, Holds
<1> QED BY <1>1, <1>2, <1>3, <1>4

LEMMA HeldNext ==
  ASSUME NEW m, Len(heap') = m, heap' \in Seq(Seq(Values(m))),
         \A a \in Slots' : stack'[a] \in Values(m),
         \A x \in DOMAIN globals' : globals'[x] \in Values(m),
         thrown' \in Values(m),
         \A p \in DOMAIN files' : files'[p] \in STRING
  PROVE  TypeOK'
<1>1. {stack'[a] : a \in Slots'} \cup {globals'[x] : x \in DOMAIN globals'} \cup {thrown'} \subseteq Values(m)
  OBVIOUS
<1>2. {files'[p] : p \in DOMAIN files'} \subseteq STRING
  OBVIOUS
<1> QED BY <1>1, <1>2 DEF TypeOK, Holds

\* What the slots hold after a step that only writes values, of m arrays.
Kind(m) == \A a \in Slots' : (a \in Slots /\ stack'[a] = stack[a]) \/ stack'[a] \in Values(m)

LEMMA KindSlots ==
  ASSUME TypeOK, NEW n \in Nat, n = Len(heap), NEW m \in Nat, n <= m, Kind(m)
  PROVE  \A a \in Slots' : stack'[a] \in Values(m)
<1>1. \A a \in Slots : stack[a] \in Values(m)
  BY HeldNow, ValuesGrow
<1> QED BY <1>1 DEF Kind

\* A step that leaves the globals, the arrays and the files alone.
LEMMA SameWorld ==
  ASSUME TypeOK, UNCHANGED <<globals, heap, files>>, thrown' \in Values(Len(heap)), Kind(Len(heap))
  PROVE  TypeOK'
<1>1. PICK n : n = Len(heap)
  OBVIOUS
<1>2. /\ n \in Nat /\ heap \in Seq(Seq(Values(n)))
      /\ \A x \in DOMAIN globals : globals[x] \in Values(n)
      /\ \A p \in DOMAIN files : files[p] \in STRING
  BY <1>1, HeldNow
<1>3. \A a \in Slots' : stack'[a] \in Values(n)
  <2>1. Kind(n) /\ n <= n
    BY <1>1, <1>2
  <2> QED BY <1>1, <1>2, <2>1, KindSlots
<1> QED BY <1>1, <1>2, <1>3, HeldNext

-----------------------------------------------------------------------------
\* The slots above the function of the innermost frame are no other frame's.
LEMMA AboveFrame ==
  ASSUME Sound, NEW b, NEW off, Base(b, off), NEW a \in frame.slots + 1 .. top - 1
  PROVE  a \in Slots
<1>1. /\ frame.slots \in Nat /\ top \in Nat /\ depth \in Nat /\ depth >= 1
      /\ frames \in [1 .. FramesMax -> FrameSet] /\ depth <= FramesMax /\ FramesMax \in Nat
  BY Granted
<1>2. \A i \in 1 .. depth : i < depth => frames[i].slots < frame.slots
  <2>1. Stacked(stack, top, frames, depth)
    BY DEF Base, Stands
  <2>2. depth \in 1 .. depth
    BY <1>1
  <2> QED BY <2>1, <2>2 DEF Stacked, frame
<1>3. ASSUME NEW i \in 1 .. depth PROVE frames[i].slots # a
  <2>1. frames[i].slots \in Nat
    <3>1. i \in 1 .. FramesMax
      BY <1>1
    <3>2. frames[i] \in FrameSet
      BY <1>1, <3>1
    <3> QED BY <3>2 DEF FrameSet
  <2>2. i = depth \/ i < depth
    BY <1>1
  <2>3. frames[i].slots <= frame.slots
    <3>1. CASE i = depth
      BY <1>1, <3>1 DEF frame
    <3>2. CASE i < depth
      BY <1>1, <1>2, <2>1, <3>2
    <3> QED BY <2>2, <3>1, <3>2
  <2>4. PICK s \in Nat : s = frame.slots
    BY <1>1
  <2> QED BY <1>1, <2>1, <2>3, <2>4
<1>4. a \in 0 .. top - 1
  BY <1>1
<1> QED BY <1>3, <1>4 DEF Slots, Current

\* The operands of an instruction are values.
LEMMA Operand ==
  ASSUME Sound, TypeOK, NEW b, NEW off, Base(b, off),
         NEW t \in Nat, t = Takes(ins), NEW k \in Nat, k < t
  PROVE  Peek(k) \in Values(Len(heap)) /\ top - 1 - k \in Slots
<1>1. /\ Suffices(ins, PlaceNow, depth = b) /\ PlaceNow.height \in Nat
      /\ Floor(PlaceNow) \in Nat /\ 1 <= Floor(PlaceNow)
      /\ frame.slots \in Nat /\ top = frame.slots + PlaceNow.height /\ top \in Nat
  BY Granted
<1>2. t <= PlaceNow.height - Floor(PlaceNow)
  BY <1>1 DEF Suffices
<1>3. PICK h \in Nat : h = PlaceNow.height
  BY <1>1
<1>4. PICK f \in Nat : f = Floor(PlaceNow)
  BY <1>1
<1>5. PICK s \in Nat : s = frame.slots
  BY <1>1
<1>6. PICK u \in Nat : u = top
  BY <1>1
<1>7. u - 1 - k \in s + 1 .. u - 1
  <2>1. t <= h - f /\ 1 <= f /\ u = s + h
    BY <1>1, <1>2, <1>3, <1>4, <1>5, <1>6
  <2> QED BY <2>1
<1>8. top - 1 - k \in Slots
  BY <1>5, <1>6, <1>7, AboveFrame
<1> QED BY <1>8, HeldNow DEF Peek

\* A local is a value.
LEMMA Local ==
  ASSUME Sound, TypeOK, NEW b, NEW off, Base(b, off), ins[1] \in {"GET_LOCAL", "SET_LOCAL"}
  PROVE  frame.slots + ins[2] \in Slots /\ stack[frame.slots + ins[2]] \in Values(Len(heap))
<1>1. /\ Suffices(ins, PlaceNow, depth = b) /\ PlaceNow.height \in Nat
      /\ frame.slots \in Nat /\ top = frame.slots + PlaceNow.height /\ top \in Nat
  BY Granted
<1>2. ins[2] \in 1 .. PlaceNow.height - 1
  BY <1>1 DEF Suffices
<1>3. PICK s \in Nat : s = frame.slots
  BY <1>1
<1>4. PICK h \in Nat : h = PlaceNow.height
  BY <1>1
<1>5. PICK j : j = ins[2]
  OBVIOUS
<1>6. s + j \in s + 1 .. top - 1
  <2>1. j \in 1 .. h - 1 /\ top = s + h
    BY <1>1, <1>2, <1>3, <1>4, <1>5
  <2> QED BY <2>1
<1>7. frame.slots + ins[2] \in Slots
  BY <1>3, <1>5, <1>6, AboveFrame
<1> QED BY <1>7, HeldNow

\* A constant that is read is a value.
LEMMA ConstantIsValue ==
  ASSUME Sound, NEW b, NEW off, Base(b, off), ins[1] = "CONST", NEW n \in Nat
  PROVE  constant \in Values(n)
<1>1. frame.fn \in Known /\ Placed(frame.fn, frame.ip)
  BY Innermost DEF Base, frame
<1>2. Fits(FunctionOf(frame.fn), Main(frame.fn), Shape(frame.fn))
  BY <1>1, KnownSound
<1>3. constant \in Values(0)
  BY <1>1, <1>2 DEF Fits, Placed, constant, ins
<1>4. 0 \in Nat /\ 0 <= n
  OBVIOUS
<1> QED BY <1>3, <1>4, ValuesGrow

\* The frames up to frame dq, with the same slots as before.
SameSlots(dq) == \A i \in 1 .. dq : frames'[i].slots = frames[i].slots

LEMMA MovedSlots ==
  ASSUME NEW dq, NEW ip, Moved(frames', frames, dq, ip)
  PROVE  SameSlots(dq)
BY DEF Moved, SameSlots

LEMMA AdvanceSlots ==
  ASSUME Sound, NEW b, NEW off, Base(b, off), Advance
  PROVE  SameSlots(depth)
<1>1. frames \in [1 .. FramesMax -> FrameSet] /\ depth \in 1 .. FramesMax /\ frame.ip \in Nat
  BY Granted
<1> QED BY <1>1, AdvancedFrames, MovedSlots DEF Advance

LEMMA JumpSlots ==
  ASSUME Sound, NEW b, NEW off, Base(b, off), NEW ip \in Nat, JumpTo(ip)
  PROVE  SameSlots(depth)
<1>1. frames \in [1 .. FramesMax -> FrameSet] /\ depth \in 1 .. FramesMax /\ frame.ip \in Nat
  BY Granted
<1> QED BY <1>1, MovedFrames, MovedSlots DEF JumpTo

\* What is in a slot now was in a slot if it is below the top there was.
LEMMA LowerSlots ==
  ASSUME depth' = depth, SameSlots(depth), NEW a \in Slots', top \in Nat, top' \in Int, a < top
  PROVE  a \in Slots
BY DEF Slots, Current, SameSlots

LEMMA StayKind ==
  ASSUME depth' = depth, SameSlots(depth), top \in Nat, top' \in Int, top' <= top, stack' = stack, NEW m
  PROVE  Kind(m)
<1>1. ASSUME NEW a \in Slots' PROVE a \in Slots
  <2>1. PICK u \in Int : u = top'
    OBVIOUS
  <2>2. PICK w \in Nat : w = top
    OBVIOUS
  <2>3. a \in 0 .. u - 1 /\ u <= w
    BY <2>1, <2>2 DEF Slots
  <2>4. a < w
    BY <2>3
  <2> QED BY <2>2, <2>4, LowerSlots
<1> QED BY <1>1 DEF Kind

LEMMA PopPushKind ==
  ASSUME depth' = depth, SameSlots(depth), IsStack(stack), StackMax \in Nat, top \in Nat, NEW n \in Nat, top - n < StackMax,
         NEW m, NEW v \in Values(m), PopPush(n, v)
  PROVE  Kind(m)
<1>1. PICK u \in Int : u = top - n
  OBVIOUS
<1>2. stack' = [stack EXCEPT ![u] = v] /\ top' = u + 1
  BY <1>1 DEF PopPush
<1>3. ASSUME NEW a \in Slots'
      PROVE  (a \in Slots /\ stack'[a] = stack[a]) \/ stack'[a] \in Values(m)
  <2>1. a \in 0 .. u
    BY <1>2 DEF Slots
  <2>2. a \in 0 .. StackMax - 1 /\ u < StackMax
    BY <1>1, <2>1
  <2>3. stack = [c \in 0 .. StackMax - 1 |-> stack[c]]
    BY DEF IsStack
  <2>4. CASE a = u
    <3>1. stack'[a] = v
      BY <1>2, <2>2, <2>3, <2>4
    <3> QED BY <3>1
  <2>5. CASE a # u
    <3>1. a < top /\ top' \in Int
      BY <1>1, <1>2, <2>1, <2>5
    <3>2. a \in Slots
      BY <3>1, LowerSlots
    <3>3. stack'[a] = stack[a]
      BY <1>2, <2>2, <2>3, <2>5
    <3> QED BY <3>2, <3>3
  <2> QED BY <2>4, <2>5
<1> QED BY <1>3 DEF Kind

\* What is written over a local.
LEMMA WriteKind ==
  ASSUME depth' = depth, SameSlots(depth), IsStack(stack), StackMax \in Nat, top \in 0 .. StackMax, top' = top,
         NEW c \in Slots, NEW m, NEW v \in Values(m), stack' = [stack EXCEPT ![c] = v]
  PROVE  Kind(m)
<1>1. ASSUME NEW a \in Slots'
      PROVE  (a \in Slots /\ stack'[a] = stack[a]) \/ stack'[a] \in Values(m)
  <2>1. a \in 0 .. top - 1 /\ a \in Slots
    <3>1. a \in 0 .. top - 1
      BY DEF Slots
    <3>2. a < top /\ top \in Nat /\ top' \in Int
      BY <3>1
    <3> QED BY <3>1, <3>2, LowerSlots
  <2>2. a \in 0 .. StackMax - 1
    BY <2>1
  <2>3. stack = [e \in 0 .. StackMax - 1 |-> stack[e]]
    BY DEF IsStack
  <2>4. CASE a = c
    BY <2>2, <2>3, <2>4
  <2>5. CASE a # c
    BY <2>1, <2>2, <2>3, <2>5
  <2> QED BY <2>4, <2>5
<1> QED BY <1>1 DEF Kind

\* An error at the top of the stack that a handler puts back: the frames above that top
\* are gone, those that stay are below it.
LEMMA CatchKind ==
  ASSUME IsStack(stack), StackMax \in Nat, top \in 0 .. StackMax, depth \in Nat,
         NEW h, h.frames \in 1 .. depth, h.top \in Nat, h.top < top,
         \A i \in 1 .. depth : i > h.frames => h.top <= frames[i].slots,
         NEW m, NEW err \in Values(m),
         stack' = [stack EXCEPT ![h.top] = err], top' = h.top + 1, depth' = h.frames, SameSlots(h.frames)
  PROVE  Kind(m)
<1>1. PICK c \in Nat : c = h.top /\ c < top /\ c < StackMax
  OBVIOUS
<1>2. PICK q \in Nat : q = h.frames /\ q \in 1 .. depth
  OBVIOUS
<1>3. ASSUME NEW a \in Slots'
      PROVE  (a \in Slots /\ stack'[a] = stack[a]) \/ stack'[a] \in Values(m)
  <2>1. a \in 0 .. c /\ \A i \in 1 .. q : frames'[i].slots # a
    BY <1>1, <1>2 DEF Slots, Current
  <2>2. a \in 0 .. StackMax - 1 /\ a \in 0 .. top - 1
    BY <1>1, <2>1
  <2>3. stack = [e \in 0 .. StackMax - 1 |-> stack[e]]
    BY DEF IsStack
  <2>4. CASE a = c
    <3>1. stack'[a] = err
      BY <1>1, <2>2, <2>3, <2>4
    <3> QED BY <3>1
  <2>5. CASE a # c
    <3>1. stack'[a] = stack[a]
      BY <1>1, <2>2, <2>3, <2>5
    <3>2. ASSUME NEW i \in 1 .. depth PROVE frames[i].slots # a
      <4>1. CASE i > q
        <5>1. c <= frames[i].slots /\ a < c
          BY <1>1, <1>2, <2>1, <2>5, <4>1
        <5> QED BY <1>1, <2>1, <5>1
      <4>2. CASE ~(i > q)
        <5>1. i \in 1 .. q
          BY <1>2, <4>2
        <5> QED BY <1>2, <2>1, <5>1 DEF SameSlots
      <4> QED BY <4>1, <4>2
    <3> QED BY <2>2, <3>1, <3>2 DEF Slots, Current
  <2> QED BY <2>4, <2>5
<1> QED BY <1>3 DEF Kind

\* An error that an instruction throws, once it has popped n of its operands.
LEMMA ThrowKind ==
  ASSUME Sound, NEW b, NEW off, Base(b, off),
         Takes(ins) \in Nat, Takes(ins) >= 1, NEW n \in Nat,
         NEW m, NEW err \in Values(m), Throw(n, err)
  PROVE  Kind(m) /\ thrown' = err
<1>1. /\ Suffices(ins, PlaceNow, depth = b) /\ PlaceNow.height \in Nat
      /\ Floor(PlaceNow) \in Nat /\ depth \in 1 .. FramesMax /\ FramesMax \in Nat /\ b \in 1 .. depth
      /\ frames \in [1 .. FramesMax -> FrameSet] /\ StackMax \in Nat /\ top \in 0 .. StackMax
      /\ frame.ip \in Nat
  BY Granted
<1>2. Stands(stack, top, frames, depth, handlers, b, off)
  BY DEF Base
<1>3. thrown' = err
  BY DEF Throw
<1>4. CASE handlers = <<>>
  <2>1. top' = top - n /\ Advance /\ stack' = stack /\ depth' = depth
    BY <1>4 DEF Throw
  <2>2. SameSlots(depth)
    BY <2>1, AdvanceSlots
  <2>3. top \in Nat /\ top' \in Int /\ top' <= top
    BY <1>1, <2>1
  <2> QED BY <1>3, <2>1, <2>2, <2>3, StayKind
<1>5. CASE handlers # <<>>
  <2>1. PICK h : h = handlers[Len(handlers)]
    OBVIOUS
  <2>2. /\ stack' = [stack EXCEPT ![h.top] = err] /\ top' = h.top + 1 /\ depth' = h.frames
        /\ frames' = [Advanced EXCEPT ![h.frames].ip = h.catch]
    BY <1>5, <2>1 DEF Throw, Last
  <2>3. Floor(PlaceNow) < PlaceNow.height
    <3>1. Takes(ins) <= PlaceNow.height - Floor(PlaceNow)
      BY <1>1 DEF Suffices
    <3> QED BY <1>1, <3>1
  <2>4. h.frames \in b .. depth /\ h.catch \in Nat /\ h.top \in Nat /\ h.top < top
    <3>1. /\ handlers # <<>> /\ Stands(stack, top, frames, depth, handlers, b, off)
          /\ Floor(PlaceIn(frames, depth)) < PlaceIn(frames, depth).height
      BY <1>2, <1>5, <2>3 DEF PlaceNow, PlaceIn
    <3>2. Closing(top, frames, depth, handlers, b, off)
      BY <3>1, LastHandler
    <3> QED BY <2>1, <3>2, Zenon DEF Closing
  <2>5. h.frames \in 1 .. depth /\ h.frames \in 1 .. FramesMax
    <3>1. PICK q : q = h.frames
      OBVIOUS
    <3>2. q \in b .. depth
      BY <2>4, <3>1
    <3> QED BY <1>1, <3>1, <3>2
  <2>6. SameSlots(h.frames)
    <3>1. Moved(Advanced, frames, depth, frame.ip + 1)
      BY <1>1, AdvancedFrames
    <3>2. Advanced \in [1 .. FramesMax -> FrameSet]
      BY <3>1 DEF Moved
    <3>3. Moved(frames', Advanced, h.frames, h.catch)
      BY <2>2, <2>4, <2>5, <3>2, MovedFrames
    <3>4. ASSUME NEW i \in 1 .. h.frames PROVE frames'[i].slots = frames[i].slots
      <4>1. i \in 1 .. depth
        BY <1>1, <2>5
      <4>2. Advanced[i].slots = frames[i].slots
        BY <3>1, <4>1 DEF Moved
      <4>3. frames'[i].slots = Advanced[i].slots
        BY <3>3 DEF Moved
      <4> QED BY <4>2, <4>3
    <3> QED BY <3>4 DEF SameSlots
  <2>7. \A i \in 1 .. depth : i > h.frames => h.top <= frames[i].slots
    <3>1. PICK k \in Nat : k = Len(handlers) /\ k \in 1 .. Len(handlers)
      <4>1. handlers \in Seq(HandlerSet)
        BY <1>2, Innermost
      <4> QED BY <1>5, <4>1
    <3>2. h.top <= (IF h.frames = depth THEN top ELSE frames[h.frames + 1].slots)
      BY <2>1, <3>1, HandlersInOrder
    <3>3. Stacked(stack, top, frames, depth)
      BY <1>2 DEF Stands
    <3>4. PICK q \in Nat : q = h.frames /\ q \in 1 .. depth
      BY <2>5
    <3>5. PICK c \in Nat : c = h.top
      BY <2>4
    <3>6. PICK d \in Nat : d = depth
      BY <1>1
    <3>7. ASSUME NEW i \in 1 .. d, i > q PROVE c <= frames[i].slots
      <4>1. q + 1 \in 1 .. d /\ q # d /\ (i = q + 1 \/ q + 1 < i)
        BY <3>4, <3>6, <3>7
      <4>2. c <= frames[q + 1].slots
        BY <3>2, <3>4, <3>5, <3>6, <4>1
      <4>3. frames[q + 1].slots \in Nat /\ frames[i].slots \in Nat
        <5>1. q + 1 \in 1 .. FramesMax /\ i \in 1 .. FramesMax
          BY <1>1, <3>6, <4>1
        <5> QED BY <1>1, <5>1 DEF FrameSet
      <4>4. q + 1 < i => frames[q + 1].slots < frames[i].slots
        BY <3>3, <3>6, <4>1 DEF Stacked
      <4> QED BY <4>1, <4>2, <4>3, <4>4
    <3> QED BY <3>4, <3>5, <3>6, <3>7
  <2>8. IsStack(stack)
    BY <1>2 DEF Stands, Typed
  <2>9. Kind(m)
    <3>1. depth \in Nat
      BY <1>1
    <3> QED BY <1>1, <2>2, <2>4, <2>5, <2>6, <2>7, <2>8, <3>1, CatchKind
  <2> QED BY <1>3, <2>9
<1> QED BY <1>4, <1>5

\* A call: what was an operand is now the function of a frame.
LEMMA CallKind ==
  ASSUME Sound, NEW b, NEW off, Base(b, off), NEW f, NEW c,
         depth < FramesMax, depth' = depth + 1, stack' = stack, top' = top,
         frames' = [Advanced EXCEPT ![depth + 1] = [fn |-> f, ip |-> 1, slots |-> c]], NEW m
  PROVE  Kind(m)
<1>1. /\ depth \in 1 .. FramesMax /\ FramesMax \in Nat /\ frames \in [1 .. FramesMax -> FrameSet]
      /\ frame.ip \in Nat
  BY Granted
<1>2. PICK fs : fs = Advanced
  OBVIOUS
<1>3. Moved(fs, frames, depth, frame.ip + 1)
  BY <1>1, <1>2, AdvancedFrames
<1>4. frames' = [fs EXCEPT ![depth + 1] = [fn |-> f, ip |-> 1, slots |-> c]]
  BY <1>2
<1>5. SameSlots(depth)
  <2>1. fs \in [1 .. FramesMax -> FrameSet]
    BY <1>3 DEF Moved
  <2>2. ASSUME NEW i \in 1 .. depth PROVE frames'[i].slots = frames[i].slots
    <3>1. i \in 1 .. FramesMax /\ i # depth + 1
      BY <1>1
    <3>2. frames'[i] = fs[i]
      BY <1>4, <2>1, <3>1
    <3>3. fs[i].slots = frames[i].slots
      BY <1>3 DEF Moved
    <3> QED BY <3>2, <3>3
  <2> QED BY <2>2 DEF SameSlots
<1>6. ASSUME NEW a \in Slots' PROVE a \in Slots /\ stack'[a] = stack[a]
  <2>1. a \in 0 .. top - 1 /\ \A i \in 1 .. depth + 1 : frames'[i].slots # a
    BY DEF Slots, Current
  <2>2. ASSUME NEW i \in 1 .. depth PROVE frames[i].slots # a
    <3>1. i \in 1 .. depth + 1
      BY <1>1
    <3> QED BY <1>5, <2>1, <3>1 DEF SameSlots
  <2> QED BY <2>1, <2>2 DEF Slots, Current
<1> QED BY <1>6 DEF Kind

\* A return: the result is written over the function of the frame that ends.
LEMMA ReturnKind ==
  ASSUME Sound, NEW b, NEW off, Base(b, off), depth # 1,
         NEW m, NEW v \in Values(m), depth' = depth - 1, Advance,
         stack' = [stack EXCEPT ![frame.slots] = v], top' = frame.slots + 1
  PROVE  Kind(m)
<1>1. /\ depth \in 1 .. FramesMax /\ FramesMax \in Nat /\ frames \in [1 .. FramesMax -> FrameSet]
      /\ frame.slots \in Nat /\ top \in 0 .. StackMax /\ StackMax \in Nat
  BY Granted
<1>2. Stacked(stack, top, frames, depth) /\ IsStack(stack)
  BY DEF Base, Stands, Typed
<1>3. PICK h : h = [frames |-> depth - 1, top |-> frame.slots]
  OBVIOUS
<1>4. h.frames = depth - 1 /\ h.top = frame.slots
  BY <1>3
<1>5. h.frames \in 1 .. depth /\ h.top \in Nat /\ h.top < top
  <2>1. depth \in 1 .. depth
    BY <1>1
  <2>2. frames[depth].slots < top
    BY <1>2, <2>1 DEF Stacked
  <2> QED BY <1>1, <1>4, <2>2 DEF frame
<1>6. \A i \in 1 .. depth : i > h.frames => h.top <= frames[i].slots
  <2>1. ASSUME NEW i \in 1 .. depth, i > h.frames PROVE h.top <= frames[i].slots
    <3>1. i = depth
      BY <1>1, <1>4, <2>1
    <3> QED BY <1>1, <1>4, <3>1 DEF frame
  <2> QED BY <2>1
<1>7. SameSlots(h.frames)
  <2>1. SameSlots(depth)
    BY AdvanceSlots
  <2> QED BY <1>1, <1>4, <2>1 DEF SameSlots
<1>8. depth \in Nat /\ depth' = h.frames /\ top' = h.top + 1 /\ stack' = [stack EXCEPT ![h.top] = v]
  BY <1>1, <1>4
<1> QED BY <1>1, <1>2, <1>5, <1>6, <1>7, <1>8, CatchKind

-----------------------------------------------------------------------------
\* An instruction that ends the run, or goes on with the stack as it was or lower.
LEMMA StayTyped ==
  ASSUME Sound, TypeOK, NEW b, NEW off, Base(b, off), UNCHANGED <<stack, depth, thrown, globals, heap, files>>,
         SameSlots(depth), top' \in Int, top' <= top
  PROVE  TypeOK'
<1>1. top \in Nat
  BY Granted
<1>2. thrown' \in Values(Len(heap))
  BY HeldNow
<1>3. Kind(Len(heap))
  BY <1>1, StayKind
<1> QED BY <1>2, <1>3, SameWorld

LEMMA ExitTyped ==
  ASSUME TypeOK, ExitProcess
  PROVE  TypeOK'
<1>1. UNCHANGED <<stack, top, frames, depth, thrown, globals, heap, files>>
  BY DEF ExitProcess, machine, world
<1>2. Slots' = Slots
  BY <1>1 DEF Slots, Current
<1>3. Kind(Len(heap))
  BY <1>1, <1>2 DEF Kind
<1>4. thrown' \in Values(Len(heap))
  BY <1>1, HeldNow
<1> QED BY <1>1, <1>3, <1>4, SameWorld

LEMMA AbortTyped ==
  ASSUME Sound, TypeOK, NEW b, NEW off, Base(b, off), Abort
  PROVE  TypeOK'
<1>1. UNCHANGED <<stack, top, depth, thrown, globals, heap, files>> /\ Advance
  BY DEF Abort, world
<1>2. SameSlots(depth)
  BY <1>1, AdvanceSlots
<1>3. top \in Nat /\ top' \in Int /\ top' <= top
  <2>1. top \in 0 .. StackMax /\ StackMax \in Nat
    BY Granted
  <2> QED BY <1>1, <2>1
<1> QED BY <1>1, <1>2, <1>3, StayTyped

LEMMA OperateTyped ==
  ASSUME Sound, TypeOK, NEW b, NEW off, Base(b, off), NEW n \in Nat,
         NEW v \in Values(Len(heap)), Operate(n, v)
  PROVE  TypeOK'
<1>1. CASE Overflows(n)
  BY <1>1, ExitTyped DEF Operate
<1>2. CASE ~Overflows(n)
  <2>1. PopPush(n, v) /\ Advance /\ UNCHANGED <<depth, thrown, globals, heap, files>>
    BY <1>2 DEF Operate, world
  <2>2. SameSlots(depth) /\ IsStack(stack)
    BY <2>1, AdvanceSlots DEF Base, Stands, Typed
  <2>3. StackMax \in Nat /\ top \in Nat
    BY Granted
  <2>4. top - n < StackMax
    BY <1>2, <2>3 DEF Overflows
  <2>5. Kind(Len(heap))
    BY <2>1, <2>2, <2>3, <2>4, PopPushKind
  <2>6. thrown' \in Values(Len(heap))
    BY <2>1, HeldNow
  <2> QED BY <2>1, <2>5, <2>6, SameWorld
<1> QED BY <1>1, <1>2

\* A message is a value.
LEMMA FailTyped ==
  ASSUME StringsOfTLA, Sound, TypeOK, NEW b, NEW off, Base(b, off),
         Takes(ins) \in Nat, Takes(ins) >= 1, NEW n \in Nat, NEW kind \in Phrases, Fail(n, kind)
  PROVE  TypeOK'
<1>1. Throw(n, Message(kind)) /\ UNCHANGED <<globals, heap, files>>
  BY DEF Fail, world
<1>2. PICK m \in Nat : m = Len(heap)
  BY HeldNow
<1>3. Message(kind) \in Values(m)
  BY MessageIsValue
<1>4. Kind(m) /\ thrown' = Message(kind)
  BY <1>1, <1>3, ThrowKind
<1> QED BY <1>1, <1>2, <1>3, <1>4, SameWorld

LEMMA DropTyped ==
  ASSUME Sound, TypeOK, NEW b, NEW off, Base(b, off), Drop, UNCHANGED <<globals, heap, files>>
  PROVE  TypeOK'
<1>1. top' = top - 1 /\ Advance /\ UNCHANGED <<stack, depth, thrown>>
  BY DEF Drop
<1>2. SameSlots(depth)
  BY <1>1, AdvanceSlots
<1>3. top' \in Int /\ top' <= top
  <2>1. PICK u \in Nat : u = top
    BY Granted
  <2> QED BY <1>1, <2>1
<1> QED BY <1>1, <1>2, <1>3, StayTyped

-----------------------------------------------------------------------------
\* A name bound to a value.
LEMMA BindTyped ==
  ASSUME NEW n, \A x \in DOMAIN globals : globals[x] \in Values(n), NEW name, NEW v \in Values(n),
         globals' = Bind(name, v)
  PROVE  \A x \in DOMAIN globals' : globals'[x] \in Values(n)
BY DEF Bind

LEMMA DataTyped ==
  ASSUME StringsOfTLA, Sound, TypeOK, NEW b, NEW off, Base(b, off), Data
  PROVE  TypeOK'
<1>1. PICK n \in Nat : n = Len(heap)
  BY HeldNow
<1>2. top \in 0 .. StackMax /\ StackMax \in Nat
  BY Granted
<1>3. /\ Nil \in Values(n) /\ Bool(TRUE) \in Values(n) /\ Bool(FALSE) \in Values(n) /\ 0 \in Nat
      /\ \A a \in Slots : stack[a] \in Values(n)
      /\ \A x \in DOMAIN globals : globals[x] \in Values(n)
  BY <1>1, Made, HeldNow
<1>4. ins[1] \in {"SET_LOCAL", "DEFINE_GLOBAL", "SET_GLOBAL"} => Peek(0) \in Values(n)
  <2>1. ins[1] \in {"SET_LOCAL", "DEFINE_GLOBAL", "SET_GLOBAL"} => Takes(ins) = 1
    BY Effects DEF Dropping, Peeking
  <2>2. 0 \in Nat /\ 1 \in Nat /\ 0 < 1
    OBVIOUS
  <2> QED BY <1>1, <2>1, <2>2, Operand
<1>5. CASE Const
  <2>1. ins[1] = "CONST" /\ Operate(0, constant)
    BY <1>5 DEF Const, At
  <2>2. constant \in Values(n)
    BY <2>1, ConstantIsValue
  <2> QED BY <1>1, <1>3, <2>1, <2>2, OperateTyped
<1>6. CASE PushNil \/ PushTrue \/ PushFalse
  <2>1. Operate(0, Nil) \/ Operate(0, Bool(TRUE)) \/ Operate(0, Bool(FALSE))
    BY <1>6 DEF PushNil, PushTrue, PushFalse
  <2> QED BY <1>1, <1>3, <2>1, OperateTyped
<1>7. CASE Pop
  <2>1. Drop /\ UNCHANGED <<globals, heap, files>>
    BY <1>7 DEF Pop, world
  <2> QED BY <2>1, DropTyped
<1>8. CASE GetLocal
  <2>1. ins[1] = "GET_LOCAL" /\ Operate(0, stack[frame.slots + ins[2]])
    BY <1>8 DEF GetLocal, At
  <2>2. stack[frame.slots + ins[2]] \in Values(n)
    BY <1>1, <2>1, Local
  <2> QED BY <1>1, <1>3, <2>1, <2>2, OperateTyped
<1>9. CASE SetLocal
  <2>1. /\ ins[1] = "SET_LOCAL" /\ stack' = [stack EXCEPT ![frame.slots + ins[2]] = Peek(0)]
        /\ Advance /\ UNCHANGED <<top, depth, thrown, globals, heap, files>>
    BY <1>9 DEF SetLocal, At, world
  <2>2. frame.slots + ins[2] \in Slots
    BY <2>1, Local
  <2>3. SameSlots(depth) /\ IsStack(stack)
    BY <2>1, AdvanceSlots DEF Base, Stands, Typed
  <2>4. Peek(0) \in Values(n)
    BY <1>4, <2>1
  <2>5. Kind(n)
    BY <1>2, <2>1, <2>2, <2>3, <2>4, WriteKind
  <2>6. thrown' \in Values(n)
    BY <1>1, <2>1, HeldNow
  <2> QED BY <1>1, <2>1, <2>5, <2>6, SameWorld
<1>10. CASE DefineGlobal
  <2>1. /\ ins[1] = "DEFINE_GLOBAL" /\ globals' = Bind(constant, Peek(0))
        /\ Drop /\ UNCHANGED <<heap, files>>
    BY <1>10 DEF DefineGlobal, At
  <2>2. top' = top - 1 /\ Advance /\ UNCHANGED <<stack, depth, thrown>>
    BY <2>1 DEF Drop
  <2>3. SameSlots(depth)
    BY <2>2, AdvanceSlots
  <2>4. top \in Nat /\ top' \in Int /\ top' <= top
    BY <1>2, <2>2
  <2>5. Kind(n)
    BY <2>2, <2>3, <2>4, StayKind
  <2>6. \A a \in Slots' : stack'[a] \in Values(n)
    <3>1. n <= n
      OBVIOUS
    <3> QED BY <1>1, <2>5, <3>1, KindSlots
  <2>7. \A x \in DOMAIN globals' : globals'[x] \in Values(n)
    BY <1>3, <1>4, <2>1, BindTyped
  <2> QED BY <1>1, <2>1, <2>2, <2>6, <2>7, HeldNow, HeldNext
<1>11. CASE GetGlobal
  <2>1. CASE constant \in DOMAIN globals
    <3>1. Operate(0, globals[constant])
      BY <1>11, <2>1 DEF GetGlobal
    <3> QED BY <1>1, <1>3, <2>1, <3>1, OperateTyped
  <2>2. CASE constant \notin DOMAIN globals
    BY <1>11, <2>2, AbortTyped DEF GetGlobal
  <2> QED BY <2>1, <2>2
<1>12. CASE SetGlobal
  <2>1. CASE constant \in DOMAIN globals
    <3>1. /\ ins[1] = "SET_GLOBAL" /\ globals' = Bind(constant, Peek(0))
          /\ Advance /\ UNCHANGED <<stack, top, depth, thrown, heap, files>>
      BY <1>12, <2>1 DEF SetGlobal, At
    <3>2. SameSlots(depth)
      BY <3>1, AdvanceSlots
    <3>3. top \in Nat /\ top' \in Int /\ top' <= top
      BY <1>2, <3>1
    <3>4. Kind(n)
      BY <3>1, <3>2, <3>3, StayKind
    <3>5. \A a \in Slots' : stack'[a] \in Values(n)
      <4>1. n <= n
        OBVIOUS
      <4> QED BY <1>1, <3>4, <4>1, KindSlots
    <3>6. \A x \in DOMAIN globals' : globals'[x] \in Values(n)
      BY <1>3, <1>4, <3>1, BindTyped
    <3> QED BY <1>1, <3>1, <3>5, <3>6, HeldNow, HeldNext
  <2>2. CASE constant \notin DOMAIN globals
    BY <1>12, <2>2, AbortTyped DEF SetGlobal
  <2> QED BY <2>1, <2>2
<1> QED BY <1>5, <1>6, <1>7, <1>8, <1>9, <1>10, <1>11, <1>12 DEF Data

\* What is computed of two numbers.
LEMMA ComputeNumber ==
  ASSUME NEW x \in Int, NEW y \in Int, NEW op
  PROVE  /\ op \in Arithmetic => Compute(op, x, y) \in Int
         /\ op \in Division /\ y # 0 => Compute(op, x, y) \in Int
         /\ op \in Comparison => Compare(op, x, y) \in BOOLEAN
<1>1. op \in Arithmetic => Compute(op, x, y) \in Int
  BY DEF Arithmetic, Compute
<1>2. ASSUME op \in Division, y > 0 PROVE Compute(op, x, y) \in Int
  <2>1. x \div y \in Int /\ x % y \in Int /\ (-x) % y \in Int
    BY <1>2
  <2>2. -((-x) % y) \in Int
    BY <2>1
  <2>3. ~(y < 0)
    BY <1>2
  <2> QED BY <1>2, <2>1, <2>2, <2>3, Zenon DEF Division, Compute
<1>3. ASSUME op \in Division, y < 0 PROVE Compute(op, x, y) \in Int
  <2>1. -x \in Int /\ -y \in Nat /\ -y > 0
    BY <1>3
  <2>2. (-x) \div (-y) \in Int /\ x % (-y) \in Int /\ (-x) % (-y) \in Int
    BY <2>1
  <2>3. -((-x) % (-y)) \in Int
    BY <2>2
  <2> QED BY <1>3, <2>2, <2>3, Zenon DEF Division, Compute
<1>4. y # 0 => y > 0 \/ y < 0
  OBVIOUS
<1>5. /\ (x < y) \in BOOLEAN /\ (x > y) \in BOOLEAN
      /\ (x <= y) \in BOOLEAN /\ (x >= y) \in BOOLEAN
  OBVIOUS
<1>6. op \in Comparison => Compare(op, x, y) \in BOOLEAN
  BY <1>5, Zenon DEF Comparison, Compare
<1> QED BY <1>1, <1>2, <1>3, <1>4, <1>6

\* The item an index names.
LEMMA ItemIsValue ==
  ASSUME StringsOfTLA, NEW n \in Nat, NEW mem \in Seq(Seq(Values(n))), Len(mem) = n,
         NEW object \in Values(n), Is("arr", object) \/ Is("str", object),
         NEW i \in Int, InBounds(i, Length(object, mem))
  PROVE  Item(object, i, mem) \in Values(n)
<1>1. PICK at : at = Normalise(i, Length(object, mem)) + 1
  OBVIOUS
<1>2. CASE Is("arr", object)
  <2>1. object[2] \in 1 .. n
    BY <1>2, Taken
  <2>2. PICK items \in Seq(Values(n)) : items = mem[object[2]]
    BY <2>1
  <2>3. at \in 1 .. Len(items)
    <3>1. Length(object, mem) = Len(items)
      BY <1>2, <2>2 DEF Length, Items
    <3>2. PICK l \in Nat : l = Len(items)
      OBVIOUS
    <3>3. Normalise(i, l) \in 0 .. l - 1 /\ at = Normalise(i, l) + 1
      BY <1>1, <3>1, <3>2 DEF InBounds
    <3> QED BY <3>2, <3>3
  <2>4. Item(object, i, mem) = items[at]
    BY <1>1, <1>2, <2>2 DEF Item
  <2> QED BY <2>3, <2>4
<1>3. CASE ~Is("arr", object)
  <2>1. PICK s \in STRING : s = object[2]
    BY <1>3, Taken
  <2>2. PICK l \in Nat : l = Len(s)
    BY LengthOfText
  <2>3. at \in 1 .. l
    <3>1. Length(object, mem) = l
      BY <1>3, <2>1, <2>2 DEF Length, Items
    <3>2. Normalise(i, l) \in 0 .. l - 1 /\ at = Normalise(i, l) + 1
      BY <1>1, <3>1 DEF InBounds
    <3> QED BY <3>2
  <2>4. Item(object, i, mem) = Str(Letter(s, at))
    BY <1>1, <1>3, <2>1 DEF Item, Letter
  <2>5. Letter(s, at) \in STRING
    BY <2>2, <2>3, LetterIsText
  <2> QED BY <2>4, <2>5, Made
<1> QED BY <1>2, <1>3

\* The arrays when one item is another value.
LEMMA StoredIsMemory ==
  ASSUME NEW n \in Nat, NEW mem \in Seq(Seq(Values(n))), Len(mem) = n,
         NEW array \in Values(n), Is("arr", array), NEW i, NEW v \in Values(n)
  PROVE  Stored(mem, array, i, v) \in Seq(Seq(Values(n))) /\ Len(Stored(mem, array, i, v)) = n
<1>1. PICK r \in 1 .. n : r = array[2]
  BY Taken
<1>2. PICK at : at = Normalise(i, Length(array, mem)) + 1
  OBVIOUS
<1>3. PICK items : items = [mem[r] EXCEPT ![at] = v]
  OBVIOUS
<1>4. items \in Seq(Values(n))
  <2>1. PICK old \in Seq(Values(n)) : old = mem[r]
    BY <1>1
  <2>2. PICK l \in Nat : l = Len(old) /\ DOMAIN old = 1 .. l
    OBVIOUS
  <2>3. items = [k \in 1 .. l |-> IF k = at THEN v ELSE old[k]]
    BY <1>3, <2>1, <2>2
  <2>4. items = [k \in 1 .. l |-> items[k]]
    BY <2>3
  <2>5. \A k \in 1 .. l : items[k] \in Values(n)
    BY <2>2, <2>3
  <2> QED BY <2>4, <2>5, IsSequence
<1>5. PICK changed : changed = [mem EXCEPT ![r] = items]
  OBVIOUS
<1>6. changed \in Seq(Seq(Values(n))) /\ Len(changed) = n
  BY <1>4, <1>5
<1>7. Stored(mem, array, i, v) = changed \/ Stored(mem, array, i, v) = mem
  BY <1>1, <1>2, <1>3, <1>5, Zenon DEF Stored
<1> QED BY <1>6, <1>7

\* An operator that fails, having popped its operands or not, or leaves a value.
LEMMA OperatorTyped ==
  ASSUME StringsOfTLA, Sound, TypeOK, NEW b, NEW off, Base(b, off),
         NEW t \in Nat, t >= 1, Takes(ins) = t,
         \/ \E v \in Values(Len(heap)) : Operate(t, v)
         \/ \E k \in {0, t} : \E kind \in Phrases : Fail(k, kind)
  PROVE  TypeOK'
<1>1. CASE \E v \in Values(Len(heap)) : Operate(t, v)
  BY <1>1, OperateTyped
<1>2. CASE \E k \in {0, t} : \E kind \in Phrases : Fail(k, kind)
  <2>1. PICK k \in {0, t} : \E kind \in Phrases : Fail(k, kind)
    BY <1>2
  <2>2. PICK kind \in Phrases : Fail(k, kind)
    BY <2>1
  <2>3. k \in Nat
    OBVIOUS
  <2> QED BY <2>2, <2>3, FailTyped
<1> QED BY <1>1, <1>2

LEMMA NumbersTyped ==
  ASSUME StringsOfTLA, Sound, TypeOK, NEW b, NEW off, Base(b, off),
         ArithmeticOp \/ DivisionOp \/ ComparisonOp \/ Negate
  PROVE  TypeOK'
<1>1. PICK n \in Nat : n = Len(heap)
  BY HeldNow
<1>2. PICK x : x = Peek(1)[2]
  OBVIOUS
<1>3. PICK y : y = Peek(0)[2]
  OBVIOUS
<1>4. ASSUME ins[1] \in Arithmetic \cup Division \cup Comparison
      PROVE  /\ Takes(ins) = 2
             /\ BothNum(Peek(1), Peek(0)) => x \in Int /\ y \in Int
  <2>1. Takes(ins) = 2
    BY <1>4, Effects DEF Combining
  <2>2. 0 \in Nat /\ 1 \in Nat /\ 2 \in Nat /\ 0 < 2 /\ 1 < 2
    OBVIOUS
  <2>3. Peek(0) \in Values(n) /\ Peek(1) \in Values(n)
    BY <1>1, <2>1, <2>2, Operand
  <2> QED BY <1>2, <1>3, <2>1, <2>3, Taken DEF BothNum
<1>5. "numbers only" \in Phrases /\ "zero divisor" \in Phrases /\ "negate" \in Phrases
  BY DEF Phrases
<1>6. 2 \in Nat /\ 2 >= 1 /\ 1 \in Nat /\ 1 >= 1 /\ 0 \in {0, 2} /\ 2 \in {0, 2} /\ 0 \in {0, 1}
  OBVIOUS
<1>7. CASE ArithmeticOp
  <2>1. ins[1] \in Arithmetic
    BY <1>7 DEF ArithmeticOp, AtAny
  <2>2. CASE BothNum(Peek(1), Peek(0))
    <3>1. Operate(2, Num(Compute(ins[1], x, y)))
      BY <1>2, <1>3, <1>7, <2>2 DEF ArithmeticOp
    <3>2. Num(Compute(ins[1], x, y)) \in Values(n)
      BY <1>4, <2>1, <2>2, ComputeNumber, Made
    <3> QED BY <1>1, <1>4, <1>6, <2>1, <3>1, <3>2, OperatorTyped
  <2>3. CASE ~BothNum(Peek(1), Peek(0))
    <3>1. Fail(0, "numbers only")
      BY <1>7, <2>3 DEF ArithmeticOp
    <3> QED BY <1>4, <1>5, <1>6, <2>1, <3>1, OperatorTyped
  <2> QED BY <2>2, <2>3
<1>8. CASE DivisionOp
  <2>1. ins[1] \in Division
    BY <1>8 DEF DivisionOp, AtAny
  <2>2. CASE BothNum(Peek(1), Peek(0)) /\ y # 0
    <3>1. Operate(2, Num(Compute(ins[1], x, y)))
      BY <1>2, <1>3, <1>8, <2>2 DEF DivisionOp
    <3>2. Num(Compute(ins[1], x, y)) \in Values(n)
      BY <1>4, <2>1, <2>2, ComputeNumber, Made
    <3> QED BY <1>1, <1>4, <1>6, <2>1, <3>1, <3>2, OperatorTyped
  <2>3. CASE ~(BothNum(Peek(1), Peek(0)) /\ y # 0)
    <3>1. Fail(0, "numbers only") \/ Fail(2, "zero divisor")
      BY <1>3, <1>8, <2>3 DEF DivisionOp
    <3> QED BY <1>4, <1>5, <1>6, <2>1, <3>1, OperatorTyped
  <2> QED BY <2>2, <2>3
<1>9. CASE ComparisonOp
  <2>1. ins[1] \in Comparison
    BY <1>9 DEF ComparisonOp, AtAny
  <2>2. CASE BothNum(Peek(1), Peek(0))
    <3>1. Operate(2, Bool(Compare(ins[1], x, y)))
      BY <1>2, <1>3, <1>9, <2>2 DEF ComparisonOp
    <3>2. Bool(Compare(ins[1], x, y)) \in Values(n)
      BY <1>4, <2>1, <2>2, ComputeNumber, Made
    <3> QED BY <1>1, <1>4, <1>6, <2>1, <3>1, <3>2, OperatorTyped
  <2>3. CASE ~BothNum(Peek(1), Peek(0))
    <3>1. Fail(0, "numbers only")
      BY <1>9, <2>3 DEF ComparisonOp
    <3> QED BY <1>4, <1>5, <1>6, <2>1, <3>1, OperatorTyped
  <2> QED BY <2>2, <2>3
<1>10. CASE Negate
  <2>1. Takes(ins) = 1
    BY <1>10, Effects DEF Negate, At, Replacing
  <2>2. CASE Is("num", Peek(0))
    <3>1. Operate(1, Num(-y))
      BY <1>3, <1>10, <2>2 DEF Negate
    <3>2. Peek(0) \in Values(n)
      <4>1. 0 \in Nat /\ 0 < 1
        OBVIOUS
      <4> QED BY <1>1, <1>6, <2>1, <4>1, Operand
    <3>3. y \in Int
      BY <1>3, <2>2, <3>2, Taken
    <3>4. -y \in Int
      BY <3>3
    <3>5. Num(-y) \in Values(n)
      BY <3>4, Made
    <3> QED BY <1>1, <1>6, <2>1, <3>1, <3>5, OperatorTyped
  <2>3. CASE ~Is("num", Peek(0))
    <3>1. Fail(0, "negate")
      BY <1>10, <2>3 DEF Negate
    <3> QED BY <1>5, <1>6, <2>1, <3>1, OperatorTyped
  <2> QED BY <2>2, <2>3
<1> QED BY <1>7, <1>8, <1>9, <1>10

LEMMA ComparedTyped ==
  ASSUME StringsOfTLA, Sound, TypeOK, NEW b, NEW off, Base(b, off),
         Not \/ Equal \/ NotEqual \/ Concat
  PROVE  TypeOK'
<1>1. PICK n \in Nat : n = Len(heap)
  BY HeldNow
<1>2. 2 \in Nat /\ 1 \in Nat /\ 0 \in Nat /\ 0 < 2 /\ 1 < 2
  OBVIOUS
<1>3. CASE Not
  <2>1. Operate(1, Bool(~IsTruthy(Peek(0))))
    BY <1>3 DEF Not
  <2>2. Bool(~IsTruthy(Peek(0))) \in Values(n)
    <3>1. (~IsTruthy(Peek(0))) \in BOOLEAN
      OBVIOUS
    <3> QED BY <3>1, Made
  <2> QED BY <1>1, <1>2, <2>1, <2>2, OperateTyped
<1>4. CASE Equal
  <2>1. Operate(2, Bool(Peek(1) = Peek(0)))
    BY <1>4 DEF Equal
  <2>2. Bool(Peek(1) = Peek(0)) \in Values(n)
    BY Made
  <2> QED BY <1>1, <1>2, <2>1, <2>2, OperateTyped
<1>5. CASE NotEqual
  <2>1. Operate(2, Bool(Peek(1) # Peek(0)))
    BY <1>5 DEF NotEqual
  <2>2. Bool(Peek(1) # Peek(0)) \in Values(n)
    BY Made
  <2> QED BY <1>1, <1>2, <2>1, <2>2, OperateTyped
<1>6. CASE Concat
  <2>1. ins[1] = "CONCAT" /\ Operate(2, Joined(Peek(1), Peek(0)))
    BY <1>6 DEF Concat, At
  <2>2. Takes(ins) = 2
    BY <2>1, Effects DEF Combining
  <2>3. Peek(0) \in Values(n) /\ Peek(1) \in Values(n)
    BY <1>1, <1>2, <2>2, Operand
  <2>4. ValueToString(Peek(1)) \in STRING /\ ValueToString(Peek(0)) \in STRING
    BY <2>3, ToStringIsText
  <2>5. Joined(Peek(1), Peek(0)) \in Values(n)
    BY <2>4, TextsJoin, Made DEF Joined
  <2> QED BY <1>1, <1>2, <2>1, <2>5, OperateTyped
<1> QED BY <1>3, <1>4, <1>5, <1>6

-----------------------------------------------------------------------------
\* An array made of operands.
LEMMA BuildTyped ==
  ASSUME Sound, TypeOK, NEW b, NEW off, Base(b, off), BuildArray
  PROVE  TypeOK'
<1>1. PICK n \in Nat : n = Len(heap)
  BY HeldNow
<1>2. ins[1] = "BUILD_ARRAY" /\ (Overflows(ins[2]) => ExitProcess)
  BY DEF BuildArray, At
<1>3. PICK k \in Nat : k = ins[2] /\ k = Takes(ins)
  <2>1. ins[2] \in Nat
    BY <1>2, Granted DEF Suffices, Collecting
  <2> QED BY <1>2, <2>1, Effects
<1>4. CASE Overflows(k)
  BY <1>2, <1>3, <1>4, ExitTyped
<1>5. CASE ~Overflows(k)
  <2>1. PICK items : items = [i \in 1 .. k |-> Peek(k - i)]
    OBVIOUS
  <2>2. /\ heap' = Append(heap, items) /\ PopPush(k, Arr(n + 1))
        /\ Advance /\ UNCHANGED <<depth, thrown, globals, files>>
    BY <1>1, <1>3, <1>5, <2>1 DEF BuildArray
  <2>3. items \in Seq(Values(n))
    <3>1. ASSUME NEW i \in 1 .. k PROVE Peek(k - i) \in Values(n)
      <4>1. k - i \in Nat /\ k - i < k
        OBVIOUS
      <4> QED BY <1>1, <1>3, <4>1, Operand
    <3>2. items = [i \in 1 .. k |-> items[i]] /\ \A i \in 1 .. k : items[i] \in Values(n)
      BY <2>1, <3>1
    <3> QED BY <3>2, IsSequence
  <2>4. n + 1 \in Nat /\ n <= n + 1 /\ n + 1 \in 1 .. n + 1
    OBVIOUS
  <2>5. Values(n) \subseteq Values(n + 1)
    BY <2>4, ValuesGrow
  <2>6. heap' \in Seq(Seq(Values(n + 1))) /\ Len(heap') = n + 1
    <3>1. heap \in Seq(Seq(Values(n)))
      BY <1>1, HeldNow
    <3>2. heap \in Seq(Seq(Values(n + 1))) /\ items \in Seq(Values(n + 1))
      BY <2>3, <2>5, <3>1
    <3> QED BY <1>1, <2>2, <3>2
  <2>7. Arr(n + 1) \in Values(n + 1)
    BY <2>4, Made
  <2>8. Kind(n + 1)
    <3>1. SameSlots(depth) /\ IsStack(stack)
      BY <2>2, AdvanceSlots DEF Base, Stands, Typed
    <3>2. StackMax \in Nat /\ top \in Nat
      BY Granted
    <3>3. top - k < StackMax
      BY <1>5, <3>2 DEF Overflows
    <3> QED BY <2>2, <2>7, <3>1, <3>2, <3>3, PopPushKind
  <2>9. \A a \in Slots' : stack'[a] \in Values(n + 1)
    BY <1>1, <2>4, <2>8, KindSlots
  <2>10. /\ \A x \in DOMAIN globals' : globals'[x] \in Values(n + 1)
         /\ thrown' \in Values(n + 1)
         /\ \A p \in DOMAIN files' : files'[p] \in STRING
    BY <1>1, <2>2, <2>5, HeldNow
  <2> QED BY <2>6, <2>9, <2>10, HeldNext
<1> QED BY <1>4, <1>5

LEMMA IndexTyped ==
  ASSUME StringsOfTLA, Sound, TypeOK, NEW b, NEW off, Base(b, off), GetIndex
  PROVE  TypeOK'
<1>1. PICK n \in Nat : n = Len(heap)
  BY HeldNow
<1>2. PICK object : object = Peek(1)
  OBVIOUS
<1>3. PICK index : index = Peek(0)
  OBVIOUS
<1>4. ins[1] = "GET_INDEX" /\ Takes(ins) = 2
  <2>1. ins[1] = "GET_INDEX"
    BY DEF GetIndex, At
  <2> QED BY <2>1, Effects DEF Combining
<1>5. 0 \in Nat /\ 1 \in Nat /\ 2 \in Nat /\ 0 < 2 /\ 1 < 2 /\ 2 >= 1 /\ 2 \in {0, 2}
  OBVIOUS
<1>6. object \in Values(n) /\ index \in Values(n)
  BY <1>1, <1>2, <1>3, <1>4, <1>5, Operand
<1>7. \/ \E kind \in {"not indexable", "index type", "out of bounds"} : Fail(2, kind)
      \/ /\ Is("arr", object) \/ Is("str", object)
         /\ Is("num", index) /\ InBounds(index[2], Length(object, heap))
         /\ Operate(2, Item(object, index[2], heap))
  BY <1>2, <1>3 DEF GetIndex
<1>8. CASE \E kind \in {"not indexable", "index type", "out of bounds"} : Fail(2, kind)
  <2>1. {"not indexable", "index type", "out of bounds"} \subseteq Phrases
    BY DEF Phrases
  <2> QED BY <1>4, <1>5, <1>8, <2>1, OperatorTyped
<1>9. CASE /\ Is("arr", object) \/ Is("str", object)
           /\ Is("num", index) /\ InBounds(index[2], Length(object, heap))
           /\ Operate(2, Item(object, index[2], heap))
  <2>1. index[2] \in Int
    BY <1>6, <1>9, Taken
  <2>2. heap \in Seq(Seq(Values(n)))
    BY <1>1, HeldNow
  <2>3. Item(object, index[2], heap) \in Values(n)
    BY <1>1, <1>6, <1>9, <2>1, <2>2, ItemIsValue
  <2> QED BY <1>1, <1>4, <1>5, <1>9, <2>3, OperatorTyped
<1> QED BY <1>7, <1>8, <1>9

LEMMA SetIndexTyped ==
  ASSUME StringsOfTLA, Sound, TypeOK, NEW b, NEW off, Base(b, off), SetIndexOp
  PROVE  TypeOK'
<1>1. PICK n \in Nat : n = Len(heap)
  BY HeldNow
<1>2. PICK object : object = Peek(2)
  OBVIOUS
<1>3. PICK index : index = Peek(1)
  OBVIOUS
<1>4. ins[1] = "SET_INDEX" /\ Takes(ins) = 3
  <2>1. ins[1] = "SET_INDEX"
    BY DEF SetIndexOp, At
  <2> QED BY <2>1, Effects
<1>5. 0 \in Nat /\ 1 \in Nat /\ 2 \in Nat /\ 3 \in Nat /\ 0 < 3 /\ 1 < 3 /\ 2 < 3 /\ 3 >= 1 /\ 3 \in {0, 3}
  OBVIOUS
<1>6. object \in Values(n) /\ Peek(0) \in Values(n)
  BY <1>1, <1>2, <1>4, <1>5, Operand
<1>7. \/ \E kind \in {"not an array", "index type"} : Fail(3, kind)
      \/ /\ Is("arr", object) /\ heap' = Stored(heap, object, index[2], Peek(0))
         /\ top' = top - 3 /\ Advance
         /\ UNCHANGED <<stack, depth, thrown, globals, files>>
  BY <1>2, <1>3 DEF SetIndexOp
<1>8. CASE \E kind \in {"not an array", "index type"} : Fail(3, kind)
  <2>1. {"not an array", "index type"} \subseteq Phrases
    BY DEF Phrases
  <2> QED BY <1>4, <1>5, <1>8, <2>1, OperatorTyped
<1>9. CASE /\ Is("arr", object) /\ heap' = Stored(heap, object, index[2], Peek(0))
           /\ top' = top - 3 /\ Advance
           /\ UNCHANGED <<stack, depth, thrown, globals, files>>
  <2>1. heap \in Seq(Seq(Values(n)))
    BY <1>1, HeldNow
  <2>2. heap' \in Seq(Seq(Values(n))) /\ Len(heap') = n
    BY <1>1, <1>6, <1>9, <2>1, StoredIsMemory
  <2>3. Kind(n)
    <3>1. SameSlots(depth)
      BY <1>9, AdvanceSlots
    <3>2. top \in Nat
      BY Granted
    <3>3. top' \in Int /\ top' <= top
      BY <1>9, <3>2
    <3> QED BY <1>9, <3>1, <3>2, <3>3, StayKind
  <2>4. \A a \in Slots' : stack'[a] \in Values(n)
    <3>1. n <= n
      OBVIOUS
    <3> QED BY <1>1, <2>3, <3>1, KindSlots
  <2>5. /\ \A x \in DOMAIN globals' : globals'[x] \in Values(n)
        /\ thrown' \in Values(n)
        /\ \A p \in DOMAIN files' : files'[p] \in STRING
    BY <1>1, <1>9, HeldNow
  <2> QED BY <2>2, <2>4, <2>5, HeldNext
<1> QED BY <1>7, <1>8, <1>9

LEMMA OperatorsTyped ==
  ASSUME StringsOfTLA, Sound, TypeOK, NEW b, NEW off, Base(b, off), Operators
  PROVE  TypeOK'
<1>1. CASE PrintTop
  <2>1. Drop /\ UNCHANGED <<globals, heap, files>>
    BY <1>1 DEF PrintTop
  <2> QED BY <2>1, DropTyped
<1> QED BY <1>1, NumbersTyped, ComparedTyped, BuildTyped, IndexTyped, SetIndexTyped DEF Operators

-----------------------------------------------------------------------------
\* Jumps, and trys that open and close.
LEMMA BranchTyped ==
  ASSUME Sound, TypeOK, NEW b, NEW off, Base(b, off),
         TryBlock \/ TryEnd \/ Jump \/ JumpIfFalse
  PROVE  TypeOK'
<1>1. /\ top \in Nat /\ frame.ip \in Nat
      /\ \A t \in Targets(ins, frame.ip) : t \in Nat
  BY Granted
<1>2. ASSUME UNCHANGED <<stack, top, depth, thrown, globals, heap, files>>, SameSlots(depth)
      PROVE  TypeOK'
  <2>1. top' \in Int /\ top' <= top
    BY <1>1, <1>2
  <2> QED BY <1>2, <2>1, StayTyped
<1>3. CASE Abort
  BY <1>3, AbortTyped
<1>4. CASE (TryBlock /\ ~Abort) \/ TryEnd
  <2>1. Advance /\ UNCHANGED <<stack, top, depth, thrown, globals, heap, files>>
    BY <1>4 DEF TryBlock, TryEnd, world
  <2> QED BY <1>2, <2>1, AdvanceSlots
<1>5. CASE Jump \/ JumpIfFalse
  <2>1. /\ ins[1] \in {"JUMP", "LOOP", "JUMP_IF_FALSE"} /\ (Advance \/ JumpTo(ins[2]))
        /\ UNCHANGED <<stack, top, depth, thrown, globals, heap, files>>
    BY <1>5 DEF Jump, JumpIfFalse, At, AtAny, world
  <2>2. ins[2] \in Nat
    BY <1>1, <2>1, Effects
  <2>3. SameSlots(depth)
    BY <2>1, <2>2, AdvanceSlots, JumpSlots
  <2> QED BY <1>2, <2>1, <2>3
<1> QED BY <1>3, <1>4, <1>5

\* What a call takes: the arguments, and below them what is called.
LEMMA Called ==
  ASSUME Sound, TypeOK, NEW b, NEW off, Base(b, off), ins[1] = "CALL"
  PROVE  /\ ins[2] \in Nat /\ Takes(ins) = ins[2] + 1
         /\ \A k \in 0 .. ins[2] : Peek(k) \in Values(Len(heap))
<1>1. PICK k \in Nat : k = ins[2] /\ k + 1 = Takes(ins) /\ k + 1 \in Nat
  <2>1. ins[2] \in Nat
    BY Granted DEF Suffices, Collecting
  <2> QED BY <2>1, Effects
<1>2. ASSUME NEW j \in 0 .. k PROVE Peek(j) \in Values(Len(heap))
  <2>1. j \in Nat /\ j < k + 1
    OBVIOUS
  <2> QED BY <1>1, <2>1, Operand
<1> QED BY <1>1, <1>2

LEMMA CallFunctionTyped ==
  ASSUME Sound, TypeOK, NEW b, NEW off, Base(b, off), CallFunction \/ CallOther
  PROVE  TypeOK'
<1>1. PICK f : f = Peek(ins[2])
  OBVIOUS
<1>2. PICK c : c = top - ins[2] - 1
  OBVIOUS
<1>3. \/ Abort
      \/ /\ depth < FramesMax /\ depth' = depth + 1
         /\ frames' = [Advanced EXCEPT ![depth + 1] = [fn |-> f, ip |-> 1, slots |-> c]]
         /\ UNCHANGED <<stack, top, thrown, globals, heap, files>>
  <2>1. ~(depth >= FramesMax) => depth < FramesMax
    BY Granted
  <2> QED BY <1>1, <1>2, <2>1 DEF CallFunction, CallOther, world
<1>4. CASE ~Abort
  <2>1. Kind(Len(heap))
    BY <1>3, <1>4, CallKind
  <2>2. thrown' \in Values(Len(heap))
    BY <1>3, <1>4, HeldNow
  <2> QED BY <1>3, <1>4, <2>1, <2>2, SameWorld
<1> QED BY <1>4, AbortTyped

\* A built-in function may make arrays, change files and fail, and what it
\* leaves are values.
LEMMA CallNativeTyped ==
  ASSUME StringsOfTLA, Sound, TypeOK, NEW b, NEW off, Base(b, off), CallNative
  PROVE  TypeOK'
<1>1. PICK n \in Nat : n = Len(heap)
  BY HeldNow
<1>2. ins[1] = "CALL"
  BY DEF CallNative, At
<1>3. PICK k \in Nat : k = ins[2] /\ k + 1 \in Nat /\ k + 1 >= 1 /\ Takes(ins) = k + 1
  <2>1. ins[2] \in Nat /\ Takes(ins) = ins[2] + 1
    BY <1>2, Called
  <2> QED BY <2>1
<1>4. PICK callee : callee = Peek(k)
  OBVIOUS
<1>5. PICK args : args = [i \in 1 .. k |-> Peek(k - i)]
  OBVIOUS
<1>6. PICK w : w = [heap |-> heap, files |-> files]
  OBVIOUS
<1>7. \A j \in 0 .. k : Peek(j) \in Values(n)
  BY <1>1, <1>2, <1>3, Called
<1>8. args \in Seq(Values(n)) /\ Len(args) = k
  <2>1. ASSUME NEW i \in 1 .. k PROVE Peek(k - i) \in Values(n)
    <3>1. k - i \in 0 .. k
      OBVIOUS
    <3> QED BY <1>7, <3>1
  <2>2. args = [i \in 1 .. k |-> args[i]] /\ \A i \in 1 .. k : args[i] \in Values(n)
    BY <1>5, <2>1
  <2> QED BY <2>2, IsSequence
<1>9. Is("native", callee) /\ callee[2] \in DOMAIN Arity
  <2>1. Is("native", callee)
    BY <1>3, <1>4 DEF CallNative
  <2>2. callee \in Values(n)
    <3>1. k \in 0 .. k
      OBVIOUS
    <3> QED BY <1>4, <1>7, <3>1
  <2> QED BY <2>1, <2>2, Taken
<1>10. CASE ~Accepts(callee[2], k)
  <2>1. Abort
    BY <1>3, <1>4, <1>10 DEF CallNative
  <2> QED BY <2>1, AbortTyped
<1>11. CASE Accepts(callee[2], k)
  <2>1. PICK a : a = RunNative(callee[2], args, w)
    OBVIOUS
  <2>2. /\ heap' = a.world.heap /\ files' = a.world.files /\ UNCHANGED globals
        /\ IF a.thrown # Nil
             THEN Throw(k + 1, a.thrown)
             ELSE thrown' = Nil /\ PopPush(k + 1, a.value) /\ Advance /\ UNCHANGED depth
    BY <1>3, <1>4, <1>5, <1>6, <1>11, <2>1 DEF CallNative
  <2>3. World(w, n)
    <3>1. w.heap = heap /\ w.files = files /\ w = [heap |-> w.heap, files |-> w.files]
      BY <1>6
    <3> QED BY <1>1, <3>1, HeldNow DEF World
  <2>4. Answered(a, n)
    BY <1>8, <1>9, <1>11, <2>1, <2>3, NativeAnswers
  <2>5. PICK m \in Nat : n <= m /\ World(a.world, m) /\ a.value \in Values(m) /\ a.thrown \in Values(m)
    BY <2>4 DEF Answered
  <2>6. /\ heap' \in Seq(Seq(Values(m))) /\ Len(heap') = m
        /\ \A p \in DOMAIN files' : files'[p] \in STRING
    BY <2>2, <2>5 DEF World
  <2>7. \A x \in DOMAIN globals' : globals'[x] \in Values(m)
    BY <1>1, <2>2, <2>5, ValuesGrow, HeldNow
  <2>8. Kind(m) /\ thrown' \in Values(m)
    <3>1. CASE a.thrown # Nil
      <4>1. Throw(k + 1, a.thrown)
        BY <2>2, <3>1
      <4>2. Takes(ins) \in Nat /\ Takes(ins) >= 1
        BY <1>3
      <4> QED BY <1>3, <2>5, <4>1, <4>2, ThrowKind
    <3>2. CASE a.thrown = Nil
      <4>1. thrown' = Nil /\ PopPush(k + 1, a.value) /\ Advance /\ UNCHANGED depth
        BY <2>2, <3>2
      <4>2. SameSlots(depth) /\ IsStack(stack)
        BY <4>1, AdvanceSlots DEF Base, Stands, Typed
      <4>3. StackMax \in Nat /\ top \in Nat /\ top - (k + 1) < StackMax
        <5>1. StackMax \in Nat /\ top \in 0 .. StackMax
          BY Granted
        <5> QED BY <5>1
      <4>4. Kind(m)
        BY <1>3, <2>5, <4>1, <4>2, <4>3, PopPushKind
      <4> QED BY <4>1, <4>4, Made
    <3> QED BY <3>1, <3>2
  <2>9. \A c \in Slots' : stack'[c] \in Values(m)
    BY <1>1, <2>5, <2>8, KindSlots
  <2> QED BY <2>6, <2>7, <2>8, <2>9, HeldNext
<1> QED BY <1>10, <1>11

LEMMA EndTyped ==
  ASSUME Sound, TypeOK, NEW b, NEW off, Base(b, off), ReturnOp \/ Halt
  PROVE  TypeOK'
<1>1. top \in Nat /\ 0 \in Nat /\ 1 \in Nat /\ 0 < 1
  BY Granted
<1>2. CASE ReturnOp
  <2>1. ins[1] = "RETURN" /\ depth' = depth - 1 /\ Advance /\ UNCHANGED <<thrown, globals, heap, files>>
    BY <1>2 DEF ReturnOp, At, world
  <2>2. depth # 1
    <3>1. depth # b
      BY <2>1, Granted DEF Suffices
    <3>2. depth \in 1 .. FramesMax /\ FramesMax \in Nat /\ b \in 1 .. depth
      BY Granted
    <3> QED BY <3>1, <3>2
  <2>3. stack' = [stack EXCEPT ![frame.slots] = Peek(0)] /\ top' = frame.slots + 1
    BY <1>2, <2>2 DEF ReturnOp
  <2>4. Peek(0) \in Values(Len(heap))
    <3>1. Takes(ins) = 1
      BY <2>1, Effects
    <3> QED BY <1>1, <3>1, Operand
  <2>5. Kind(Len(heap))
    BY <2>1, <2>2, <2>3, <2>4, ReturnKind
  <2>6. thrown' \in Values(Len(heap))
    BY <2>1, HeldNow
  <2> QED BY <2>1, <2>5, <2>6, SameWorld
<1>3. CASE Halt
  <2>1. Advance /\ UNCHANGED <<stack, top, depth, thrown, globals, heap, files>>
    BY <1>3 DEF Halt, world
  <2>2. SameSlots(depth)
    BY <2>1, AdvanceSlots
  <2>3. top' \in Int /\ top' <= top
    BY <1>1, <2>1
  <2> QED BY <2>1, <2>2, <2>3, StayTyped
<1> QED BY <1>2, <1>3

LEMMA ExecuteTyped ==
  ASSUME StringsOfTLA, Sound, TypeOK, NEW b, NEW off, Base(b, off), Execute
  PROVE  TypeOK'
BY DataTyped, OperatorsTyped, BranchTyped, CallFunctionTyped, CallNativeTyped, EndTyped
   DEF Execute, Control

\* What is called as a function is a function that the compiler made.
LEMMA CalledIsCallable ==
  ASSUME Sound, TypeOK, NEW b, NEW off, Base(b, off)
  PROVE  FunctionsCalled
<1> SUFFICES ASSUME ins[1] = "CALL", Is("fn", Peek(ins[2])) PROVE Peek(ins[2]) \in Callable
  BY DEF FunctionsCalled, At
<1>1. PICK n \in Nat : n = Len(heap)
  BY HeldNow
<1>2. Peek(ins[2]) \in Values(n)
  <2>1. PICK k \in Nat : k = ins[2] /\ \A j \in 0 .. k : Peek(j) \in Values(n)
    BY <1>1, Called
  <2>2. k \in 0 .. k
    OBVIOUS
  <2> QED BY <2>1, <2>2
<1> QED BY <1>2, Taken

-----------------------------------------------------------------------------
(***************************************************************************)
(* Between the runs                                                        *)
(***************************************************************************)
LEMMA InitTyped ==
  ASSUME Init
  PROVE  TypeOK
<1>1. /\ top = 0 /\ thrown = Nil /\ globals = Builtins /\ heap = <<>> /\ files = <<>>
  BY DEF Init
<1>2. Len(heap) = 0 /\ 0 \in Nat /\ heap \in Seq(Seq(Values(0)))
  BY <1>1
<1>3. Slots = {}
  BY <1>1 DEF Slots
<1>4. \A x \in DOMAIN globals : globals[x] \in Values(0)
  BY <1>1, <1>2, Made DEF Builtins
<1>5. thrown \in Values(0)
  BY <1>1, <1>2, Made
<1>6. \A p \in DOMAIN files : files[p] \in STRING
  BY <1>1
<1>7. {stack[a] : a \in Slots} \cup {globals[x] : x \in DOMAIN globals} \cup {thrown} \subseteq Values(0)
  BY <1>3, <1>4, <1>5
<1>8. {files[p] : p \in DOMAIN files} \subseteq STRING
  BY <1>6
<1> QED BY <1>2, <1>7, <1>8 DEF TypeOK, Holds

\* With nothing on the stack.
LEMMA EmptyTyped ==
  ASSUME TypeOK, UNCHANGED <<globals, heap, files>>, top' = 0, thrown' = Nil \/ thrown' = thrown
  PROVE  TypeOK'
<1>1. Slots' = {}
  BY DEF Slots
<1>2. Kind(Len(heap))
  BY <1>1 DEF Kind
<1>3. thrown' \in Values(Len(heap))
  BY HeldNow, Made
<1> QED BY <1>2, <1>3, SameWorld

LEMMA IdleTyped ==
  ASSUME TypeOK, UNCHANGED <<stack, top, frames, depth, thrown, globals, heap, files>>
  PROVE  TypeOK'
<1>1. Slots' = Slots
  BY DEF Slots, Current
<1>2. Kind(Len(heap))
  BY <1>1 DEF Kind
<1>3. thrown' \in Values(Len(heap))
  BY HeldNow
<1> QED BY <1>2, <1>3, SameWorld

LEMMA StartTyped ==
  ASSUME TypeOK, IInv, HostsReset, Ready, NEW s \in Scripts, StartRun(s)
  PROVE  TypeOK'
<1>1. /\ StackMax \in Nat /\ FramesMax \in Nat /\ RunsMax \in Nat /\ RunsMax <= FramesMax
      /\ DOMAIN Given \subseteq {"file", "repl", "test", "embed"}
  BY VMAssumption DEF VMAssumption, HostsReset
<1>2. /\ IsStack(stack) /\ top \in 0 .. StackMax /\ depth \in 0 .. FramesMax
      /\ frames \in [1 .. FramesMax -> FrameSet]
      /\ runs \in Nat /\ runs < RunsMax /\ status = "idle"
  BY <1>1 DEF IInv, TypedNow, Typed, Ready, RunsLeft
<1>3. PICK t : t = IF Fresh THEN 0 ELSE top
  OBVIOUS
<1>4. PICK d : d = IF Fresh THEN 0 ELSE depth
  OBVIOUS
<1>5. t \in Nat /\ d \in Nat /\ d < FramesMax /\ (t = 0 \/ (t = top /\ d = depth))
  <2>1. ~Fresh => depth <= runs
    <3>1. ~Fresh => host = "repl" \/ runs = 0
      BY <1>1, <1>2 DEF Fresh, IInv, HostsReset, Ready, RunsLeft
    <3> QED BY <1>2, <3>1 DEF IInv, ReadyCalm, Calm
  <2> QED BY <1>1, <1>2, <1>3, <1>4, <2>1
<1>6. UNCHANGED <<globals, heap, files>> /\ (thrown' = Nil \/ thrown' = thrown)
  BY DEF StartRun
<1>7. CASE t >= StackMax
  <2>1. top' = t /\ depth' = d /\ UNCHANGED <<stack, frames>>
    BY <1>3, <1>4, <1>7 DEF StartRun
  <2>2. Kind(Len(heap))
    BY <1>5, <2>1 DEF Kind, Slots, Current
  <2>3. thrown' \in Values(Len(heap))
    BY <1>6, HeldNow, Made
  <2> QED BY <1>6, <2>2, <2>3, SameWorld
<1>8. CASE ~(t >= StackMax)
  <2>1. PICK f : f = ScriptFunction(s)
    OBVIOUS
  <2>2. /\ stack' = [stack EXCEPT ![t] = f] /\ top' = t + 1 /\ depth' = d + 1
        /\ frames' = [frames EXCEPT ![d + 1] = [fn |-> f, ip |-> 1, slots |-> t]]
    <3>1. ~(d >= FramesMax)
      BY <1>1, <1>5
    <3> QED BY <1>3, <1>4, <1>8, <2>1, <3>1 DEF StartRun
  <2>3. frames'[d + 1].slots = t
    <3>1. d + 1 \in 1 .. FramesMax
      BY <1>1, <1>5
    <3> QED BY <1>2, <2>2, <3>1
  <2>4. \A i \in 1 .. d : frames'[i] = frames[i]
    <3>1. ASSUME NEW i \in 1 .. d PROVE frames'[i] = frames[i]
      <4>1. i \in 1 .. FramesMax /\ i # d + 1
        BY <1>1, <1>5
      <4> QED BY <1>2, <2>2, <4>1
    <3> QED BY <3>1
  <2>5. ASSUME NEW a \in Slots' PROVE a \in Slots /\ stack'[a] = stack[a]
    <3>1. a \in 0 .. t /\ \A i \in 1 .. d + 1 : frames'[i].slots # a
      BY <1>5, <2>2 DEF Slots, Current
    <3>2. a # t
      <4>1. d + 1 \in 1 .. d + 1
        BY <1>5
      <4> QED BY <2>3, <3>1, <4>1
    <3>3. a \in 0 .. t - 1 /\ t # 0 /\ t = top /\ d = depth
      BY <1>5, <3>1, <3>2
    <3>4. \A i \in 1 .. depth : frames[i].slots # a
      <4>1. ASSUME NEW i \in 1 .. d PROVE frames[i].slots # a
        <5>1. i \in 1 .. d + 1
          BY <1>5
        <5> QED BY <2>4, <3>1, <5>1
      <4> QED BY <3>3, <4>1
    <3>5. stack'[a] = stack[a]
      <4>1. stack = [e \in 0 .. StackMax - 1 |-> stack[e]] /\ a \in 0 .. StackMax - 1
        BY <1>1, <1>2, <3>3 DEF IsStack
      <4> QED BY <2>2, <3>2, <4>1
    <3> QED BY <3>3, <3>4, <3>5 DEF Slots, Current
  <2>6. Kind(Len(heap))
    BY <2>5 DEF Kind
  <2>7. thrown' \in Values(Len(heap))
    BY <1>6, HeldNow, Made
  <2> QED BY <1>6, <2>6, <2>7, SameWorld
<1> QED BY <1>7, <1>8

LEMMA RestTyped ==
  ASSUME TypeOK, TakeResult \/ (\E s : RejectScript(s)) \/ UNCHANGED vars
  PROVE  TypeOK'
<1>1. UNCHANGED <<stack, frames, globals, heap, files>>
  BY DEF TakeResult, RejectScript, vars, machine, world
<1>2. Reset \/ UNCHANGED <<top, depth, thrown>>
  BY DEF TakeResult, RejectScript, vars, machine
<1> QED BY <1>1, <1>2, EmptyTyped, IdleTyped DEF Reset

-----------------------------------------------------------------------------
(***************************************************************************)
(* The theorems                                                            *)
(***************************************************************************)
\* With the values typed, no more than IInv is needed for the calls to be safe.
JInv == IInv /\ TypeOK

LEMMA CallsAreSafe ==
  ASSUME Sound, JInv
  PROVE  FunctionsCalled
<1>1. CASE status = "running"
  <2>1. PICK b, off : Base(b, off)
    BY <1>1 DEF JInv, IInv
  <2> QED BY <2>1, CalledIsCallable DEF JInv
<1>2. CASE status # "running"
  BY <1>2 DEF FunctionsCalled, At
<1> QED BY <1>1, <1>2

LEMMA NextJInv ==
  ASSUME Sound, HostsReset, StringsOfTLA, JInv, [Next]_vars
  PROVE  JInv'
<1>1. IInv'
  BY CallsAreSafe, NextIInv DEF JInv
<1>2. CASE Execute
  <2>1. PICK b, off : Base(b, off)
    BY <1>2, Executing DEF JInv, IInv
  <2> QED BY <1>1, <1>2, <2>1, ExecuteTyped DEF JInv
<1>3. ASSUME Ready, NEW s \in Scripts, StartRun(s) PROVE TypeOK'
  BY <1>3, StartTyped DEF JInv
<1> QED BY <1>1, <1>2, <1>3, RestTyped DEF JInv, Next, Rest

LEMMA InductiveInvariant ==
  ASSUME Sound, HostsReset, StringsOfTLA
  PROVE  Spec => []JInv
<1>1. Init => JInv
  BY InitIInv, InitTyped DEF JInv
<1>2. JInv /\ [Next]_vars => JInv'
  BY NextJInv
<1> QED BY <1>1, <1>2, PTL DEF Spec

\* Whatever scripts the compiler makes verified code of, whatever one of them can get
\* at is a value: what a native computes, an error brings or an array keeps as well.
THEOREM ValuesAreTyped ==
  ASSUME Sound, HostsReset, StringsOfTLA
  PROVE  Spec => []TypeOK
<1>1. Spec => []JInv
  BY InductiveInvariant
<1>2. JInv => TypeOK
  BY DEF JInv
<1> QED BY <1>1, <1>2, PTL

\* What verified code calls as a function is one the compiler made for a declaration
\* or an import, however it got hold of it: so callFunction's arity is one there is.
THEOREM CallsAreChecked ==
  ASSUME Sound, HostsReset, StringsOfTLA
  PROVE  Spec => []FunctionsCalled
<1>1. Spec => []JInv
  BY InductiveInvariant
<1>2. JInv => FunctionsCalled
  BY CallsAreSafe
<1> QED BY <1>1, <1>2, PTL

\* In every run of verified code the frames lie on the stack one above the other,
\* each on its function.
THEOREM FramesAreStacked ==
  ASSUME Sound, HostsReset, StringsOfTLA
  PROVE  Spec => []FramesStacked
<1>1. Spec => []JInv
  BY InductiveInvariant
<1>2. JInv => FramesStacked
  BY InvariantProperties DEF JInv
<1> QED BY <1>1, <1>2, PTL

\* No instruction of verified code reads or writes a local that is not on the
\* stack, and no jump leaves the code.
THEOREM LocalsAreLive ==
  ASSUME Sound, HostsReset, StringsOfTLA
  PROVE  Spec => []LocalsLive
<1>1. Spec => []JInv
  BY InductiveInvariant
<1>2. JInv => LocalsLive
  BY InvariantProperties DEF JInv
<1> QED BY <1>1, <1>2, PTL

\* Every handler that verified code has open belongs to a frame that is still
\* there, keeps no more of the stack than is there, and is inside the earlier ones.
THEOREM HandlersAreLive ==
  ASSUME Sound, HostsReset, StringsOfTLA
  PROVE  Spec => []HandlersLive
<1>1. Spec => []JInv
  BY InductiveInvariant
<1>2. JInv => HandlersLive
  BY InvariantProperties DEF JInv
<1> QED BY <1>1, <1>2, PTL

\* A script of verified code ends with nothing but itself on the stack.
THEOREM NothingIsLeft ==
  ASSUME Sound, HostsReset, StringsOfTLA
  PROVE  Spec => []NothingLeft
<1>1. Spec => []JInv
  BY InductiveInvariant
<1>2. JInv => NothingLeft
  BY InvariantProperties DEF JInv
<1> QED BY <1>1, <1>2, PTL

\* The stack stays inside its array, of whatever size, though throwError does
\* not test it: what a handler puts back is less than was there.
THEOREM StackIsBounded ==
  ASSUME Sound, HostsReset, StringsOfTLA
  PROVE  Spec => []StackBounded
<1>1. Spec => []JInv
  BY InductiveInvariant
<1>2. JInv => StackBounded
  BY InvariantProperties DEF JInv
<1> QED BY <1>1, <1>2, PTL

\* The frames and the handlers stay inside their arrays, of whatever size.
THEOREM TablesAreBounded ==
  ASSUME Sound, HostsReset, StringsOfTLA
  PROVE  Spec => []TablesBounded
<1>1. Spec => []JInv
  BY InductiveInvariant
<1>2. JInv => TablesBounded
  BY InvariantProperties DEF JInv
<1> QED BY <1>1, <1>2, PTL

\* No instruction of verified code writes below its frame, unless it is an
\* error that unwinds to a handler.
THEOREM CallersAreUntouched ==
  ASSUME Sound, HostsReset, StringsOfTLA
  PROVE  Spec => CallersUntouched
<1>1. Spec => []JInv
  BY InductiveInvariant
<1>2. JInv /\ [Next]_vars =>
        [status = "running" /\ Len(handlers') >= Len(handlers) =>
           \A i \in 0 .. frame.slots - 1 : stack'[i] = stack[i]]_vars
  BY CallsAreSafe, StepSpares DEF Spared, JInv
<1> QED BY <1>1, <1>2, PTL DEF Spec, CallersUntouched

\* What the compiler makes of the trees in Trees runs as it should: whatever
\* scripts of them a host runs, and in whatever order, all that is said of the
\* VM above is so at every step.
THEOREM CompiledCodeRuns ==
  ASSUME ByTheRules, FromTrees, PoolsFit, HostsReset, StringsOfTLA
  PROVE  Spec => /\ [](TypeOK /\ FunctionsCalled /\ FramesStacked /\ LocalsLive /\ HandlersLive)
                 /\ [](NothingLeft /\ StackBounded /\ TablesBounded)
                 /\ CallersUntouched
<1>1. Sound
  BY CompiledIsSound
<1>2. (Spec => []TypeOK) /\ (Spec => []FunctionsCalled)
  BY <1>1, ValuesAreTyped, CallsAreChecked
<1>3. (Spec => []FramesStacked) /\ (Spec => []LocalsLive) /\ (Spec => []HandlersLive)
  BY <1>1, FramesAreStacked, LocalsAreLive, HandlersAreLive
<1>4. (Spec => []NothingLeft) /\ (Spec => []StackBounded) /\ (Spec => []TablesBounded)
  BY <1>1, NothingIsLeft, StackIsBounded, TablesAreBounded
<1>5. Spec => CallersUntouched
  BY <1>1, CallersAreUntouched
<1> QED BY <1>2, <1>3, <1>4, <1>5, PTL
=============================================================================
