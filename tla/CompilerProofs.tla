--------------------------- MODULE CompilerProofs ---------------------------
(***************************************************************************)
(* The compiler emits only code the VM can run.                            *)
(***************************************************************************)
EXTENDS Compiler, Trees, Bytecode, TLAPS
LOCAL Finite == INSTANCE FiniteSetTheorems

(***************************************************************************)
(* Induction over the naturals, about a set of them: the theorems of       *)
(* NaturalsInduction are about an operator, which no prover here can       *)
(* instantiate.                                                            *)
(***************************************************************************)
\* A set of naturals has a least member: the intervals below its members are finite
\* sets, and strict inclusion of finite sets is well founded.
LEMMA LeastNatural ==
  ASSUME NEW T \in SUBSET Nat, T # {}
  PROVE  \E x \in T : \A y \in T : x <= y
<1>1. PICK R : R = Finite!StrictSubsetOrdering(Nat)
  OBVIOUS
<1>2. PICK F : F = Finite!FiniteSubsetsOf(Nat)
  OBVIOUS
<1>3. PICK below : below = [x \in Nat |-> 0 .. x - 1]
  OBVIOUS
<1>4. PICK B : B = {below[x] : x \in T}
  OBVIOUS
<1>5. Finite!IsWellFoundedOn(R, F)
  BY <1>1, <1>2, Finite!FS_StrictSubsetOrderingWellFounded
<1>6. B \subseteq F /\ B # {}
  <2>1. ASSUME NEW x \in Nat PROVE below[x] \in F
    <3>1. Finite!IsFiniteSet(0 .. x - 1)
      BY Finite!FS_Interval
    <3>2. 0 .. x - 1 \subseteq Nat
      OBVIOUS
    <3> QED BY <1>2, <1>3, <3>1, <3>2 DEF Finite!FiniteSubsetsOf
  <2> QED BY <1>4, <2>1
<1>7. \E b \in B : \A c \in B : ~ (<<c, b>> \in R)
  BY <1>5, <1>6, Finite!WFMin
<1>8. PICK x \in T : \A c \in B : ~ (<<c, below[x]>> \in R)
  BY <1>4, <1>7
<1>9. ASSUME NEW y \in T PROVE x <= y
  <2>1. SUFFICES ASSUME y < x PROVE FALSE
    OBVIOUS
  <2>2. below[y] = 0 .. y - 1 /\ below[x] = 0 .. x - 1
    BY <1>3
  <2>3. 0 .. y - 1 \subseteq 0 .. x - 1 /\ y \in 0 .. x - 1 /\ y \notin 0 .. y - 1
    BY <2>1
  <2>4. <<below[y], below[x]>> \in R
    BY <1>1, <2>2, <2>3 DEF Finite!StrictSubsetOrdering
  <2>5. below[y] \in B
    BY <1>4
  <2> QED BY <1>8, <2>4, <2>5
<1> QED BY <1>9

\* A set that has 0, and with each number the next, has them all.
LEMMA SetInduction ==
  ASSUME NEW T \in SUBSET Nat, 0 \in T, \A n \in T : n + 1 \in T
  PROVE  T = Nat
<1>1. SUFFICES ASSUME Nat \ T # {} PROVE FALSE
  OBVIOUS
<1>2. PICK x \in Nat \ T : \A y \in Nat \ T : x <= y
  BY <1>1, LeastNatural
<1>3. x # 0 /\ x - 1 \in Nat
  BY <1>2
<1>4. x - 1 \in T
  BY <1>2, <1>3
<1> QED BY <1>2, <1>4

-----------------------------------------------------------------------------
(***************************************************************************)
(* Contexts, and what of a context stays as it is while more is emitted.   *)
(***************************************************************************)
Instructions == {<<op>> : op \in Opcodes} \cup (Opcodes \X Nat)
Constants == STRING \cup Literals \cup ({"fn"} \X (DOMAIN Code) \X Nat)
Labels == Names \cup {NoName, "module"}
Locals == [name : Labels, depth : Nat]
Functions == [name : Labels, arity : Nat, code : Seq(Instructions), pool : Seq(Constants)]
Contexts ==
  [code : Seq(Instructions), pool : Seq(Constants), locals : Seq(Locals), depth : Nat,
   nested : BOOLEAN, script : DOMAIN Code, fns : Seq(Functions), err : BOOLEAN]

Begins(s, t) == Len(s) <= Len(t) /\ \A i \in 1 .. Len(s) : t[i] = s[i]

\* What begins a beginning begins the whole.
LEMMA BeginsOn ==
  ASSUME NEW S, NEW r \in Seq(S), NEW s \in Seq(S), NEW t \in Seq(S), Begins(r, s), Begins(s, t)
  PROVE  Begins(r, t)
BY DEF Begins

\* A sequence begins itself and one more.
LEMMA BeginsAppend ==
  ASSUME NEW S, NEW s \in Seq(S), NEW x \in S
  PROVE  /\ Append(s, x) \in Seq(S) /\ Begins(s, Append(s, x))
         /\ Len(Append(s, x)) = Len(s) + 1 /\ Append(s, x)[Len(s) + 1] = x
BY DEF Begins

-----------------------------------------------------------------------------
(***************************************************************************)
(* Code laid out from a to b in a unit u: each instruction has a place, and*)
(* leads to places of the same segment.  The trys in `base` are open all   *)
(* along; a try that is opened in the segment is caught in it.             *)
(***************************************************************************)
Orderly(open) ==
  \A m \in 1 .. Len(open) :
    open[m].height >= 1 /\ \A l \in 1 .. m : open[l].height <= open[m].height
Place(at) == at \in Places /\ Floor(at) <= at.height /\ Orderly(at.open)

\* What FunctionConst and Literal may put into the pool for a CONST.
ConstantOf(u, v) == v \in Literals \/ \E j \in 1 .. Len(u.fns) : v = Fn(u.script, j)

Runs(u, ip, at) ==
  LET i == u.code[ip]
  IN /\ i \in Instructions
     /\ Suffices(i, at, ~u.nested)
     /\ i[1] = "CONST" => i[2] + 1 \in 1 .. Len(u.pool) /\ ConstantOf(u, u.pool[i[2] + 1])

Leads(u, ip, a, b, sh) ==
  /\ Runs(u, ip, sh[ip])
  /\ \A t \in Targets(u.code[ip], ip) : t \in a .. b /\ sh[t] = NextPlace(u.code[ip], sh[ip])

Caughts(at, a, b, sh, base) ==
  /\ Place(at) /\ Begins(base, at.open)
  /\ \A m \in Len(base) + 1 .. Len(at.open) :
       at.open[m].catch \in a .. b /\ sh[at.open[m].catch] = Caught(at, m)

Laid(u, a, b, sh, base) ==
  /\ sh \in [a .. b -> Places]
  /\ \A ip \in a .. b : Caughts(sh[ip], a, b, sh, base)
  /\ \A ip \in a .. b - 1 : Leads(u, ip, a, b, sh)

\* What jumps back from q to t jumps over code that is entered at t only.
Entered(u, a, t, q) == \A j \in a .. t - 1 : \A e \in Edges(u.code[j], j) : e <= t \/ e > q
LoopedIn(u, a, b, A, B) ==
  \A ip \in a .. b - 1 : \A t \in Edges(u.code[ip], ip) :
    t \in A .. B /\ (t > ip \/ Entered(u, A, t, ip))
Looped(u, a, b) == LoopedIn(u, a, b, a, b)

\* Nothing from A on leads into what is between a and b.
Passes(u, A, a, b) ==
  \A j \in A .. a - 1 : \A e \in Edges(u.code[j], j) : e \in Nat /\ (e <= a \/ e >= b)

Segment(u, a, b, at, next) ==
  /\ Looped(u, a, b)
  /\ \E sh : Laid(u, a, b, sh, at.open) /\ sh[a] = at /\ sh[b] = next

\* What is looped stays so in longer code, of which nothing leads into it.
LEMMA LoopedWithin ==
  ASSUME NEW u, NEW a \in Nat, NEW b \in Nat, NEW A \in Nat, NEW B \in Nat, A <= a, b <= B,
         Looped(u, a, b), Passes(u, A, a, b)
  PROVE  LoopedIn(u, a, b, A, B)
<1> SUFFICES ASSUME NEW ip \in a .. b - 1, NEW t \in Edges(u.code[ip], ip)
             PROVE  t \in A .. B /\ (t > ip \/ Entered(u, A, t, ip))
  BY DEF LoopedIn
<1>1. t \in a .. b /\ (t > ip \/ Entered(u, a, t, ip))
  BY DEF Looped, LoopedIn
<1>2. t \in A .. B
  BY <1>1
<1>3. ASSUME Entered(u, a, t, ip) PROVE Entered(u, A, t, ip)
  <2> SUFFICES ASSUME NEW j \in A .. t - 1, NEW e \in Edges(u.code[j], j) PROVE e <= t \/ e > ip
    BY DEF Entered
  <2>1. CASE j \in a .. t - 1
    BY <1>3, <2>1 DEF Entered
  <2>2. CASE j \in A .. a - 1
    <3>1. e \in Nat /\ (e <= a \/ e >= b)
      BY <2>2 DEF Passes
    <3> QED BY <1>1, <3>1
  <2>3. j \in a .. t - 1 \/ j \in A .. a - 1
    BY <1>1
  <2> QED BY <2>1, <2>2, <2>3
<1> QED BY <1>1, <1>2, <1>3

\* What is laid out stays so in a longer segment.
LEMMA Within ==
  ASSUME NEW u, NEW a \in Nat, NEW b \in Nat, NEW A \in Nat, NEW B \in Nat, A <= a, a <= b, b <= B,
         NEW s, NEW base, Laid(u, a, b, s, base),
         NEW sh, \A ip \in a .. b : sh[ip] = s[ip]
  PROVE  /\ \A ip \in a .. b : Caughts(sh[ip], A, B, sh, base)
         /\ \A ip \in a .. b - 1 : Leads(u, ip, A, B, sh)
<1>1. a .. b \subseteq A .. B
  OBVIOUS
<1>2. ASSUME NEW ip \in a .. b PROVE Caughts(sh[ip], A, B, sh, base)
  <2>1. Caughts(s[ip], a, b, s, base) /\ sh[ip] = s[ip]
    BY DEF Laid
  <2> QED BY <1>1, <2>1 DEF Caughts
<1>3. ASSUME NEW ip \in a .. b - 1 PROVE Leads(u, ip, A, B, sh)
  <2>1. Leads(u, ip, a, b, s) /\ sh[ip] = s[ip]
    BY DEF Laid
  <2> QED BY <1>1, <2>1 DEF Leads
<1> QED BY <1>2, <1>3

\* Nothing is laid out as it is.
LEMMA NoCode ==
  ASSUME NEW u, NEW a \in Nat, NEW at, Place(at)
  PROVE  Segment(u, a, a, at, at)
<1> DEFINE sh == [ip \in a .. a |-> at]
<1>1. at \in Places /\ at.open \in Seq(Trys) /\ Begins(at.open, at.open)
  BY DEF Place, Places, Begins
<1>2. \A ip \in a .. a : Caughts(sh[ip], a, a, sh, at.open)
  BY <1>1 DEF Caughts
<1>3. Laid(u, a, a, sh, at.open)
  BY <1>1, <1>2 DEF Laid
<1>4. Looped(u, a, a)
  BY DEF Looped, LoopedIn
<1> QED BY <1>3, <1>4 DEF Segment

\* One instruction that goes on to the next, or does not go on at all.
LEMMA OneInstruction ==
  ASSUME NEW u, NEW a \in Nat, NEW at, Place(at), NEW next, Place(next), next.open = at.open,
         Runs(u, a, at),
         \/ Targets(u.code[a], a) = {}
         \/ Targets(u.code[a], a) = {a + 1} /\ next = NextPlace(u.code[a], at)
  PROVE  Segment(u, a, a + 1, at, next)
<1> DEFINE sh == [ip \in a .. a + 1 |-> IF ip = a THEN at ELSE next]
<1>1. at \in Places /\ next \in Places /\ at.open \in Seq(Trys) /\ Begins(at.open, at.open)
  BY DEF Place, Places, Begins
<1>2. sh[a] = at /\ sh[a + 1] = next
  OBVIOUS
<1>3. \A ip \in a .. a + 1 : Caughts(sh[ip], a, a + 1, sh, at.open)
  BY <1>1 DEF Caughts
<1>4. Leads(u, a, a, a + 1, sh)
  BY <1>2 DEF Leads
<1>5. Laid(u, a, a + 1, sh, at.open)
  BY <1>1, <1>3, <1>4 DEF Laid
<1>6. u.code[a][1] # "TRY"
  <2>1. SUFFICES ASSUME u.code[a][1] = "TRY" PROVE FALSE
    OBVIOUS
  <2>2. Targets(u.code[a], a) # {}
    BY <2>1 DEF Targets
  <2>3. next.open = Append(at.open, [catch |-> u.code[a][2], height |-> at.height])
    BY <2>1, <2>2 DEF NextPlace
  <2>4. Append(at.open, [catch |-> u.code[a][2], height |-> at.height]) # at.open
    <3>1. \A c : Append(at.open, c) # at.open
      <4>1. \A c : Len(Append(at.open, c)) = Len(at.open) + 1 /\ Len(at.open) \in Nat
        BY <1>1
      <4> QED BY <4>1
    <3> QED BY <3>1
  <2> QED BY <2>3, <2>4
<1>7. Looped(u, a, a + 1)
  <2>1. \A t \in Edges(u.code[a], a) : t = a + 1
    BY <1>6 DEF Edges
  <2> QED BY <2>1 DEF Looped, LoopedIn
<1> QED BY <1>2, <1>5, <1>7 DEF Segment

\* One segment after the other.
LEMMA SegmentsJoined ==
  ASSUME NEW u, NEW a \in Nat, NEW b \in Nat, NEW c \in Nat, a <= b, b <= c,
         NEW x, NEW y, NEW z, y.open = x.open,
         Segment(u, a, b, x, y), Segment(u, b, c, y, z)
  PROVE  Segment(u, a, c, x, z)
<1>0. a <= a /\ c <= c
  OBVIOUS
<1>1. PICK s : Laid(u, a, b, s, x.open) /\ s[a] = x /\ s[b] = y
  BY DEF Segment
<1>2. PICK t : Laid(u, b, c, t, x.open) /\ t[b] = y /\ t[c] = z
  BY DEF Segment
<1> DEFINE sh == [ip \in a .. c |-> IF ip <= b THEN s[ip] ELSE t[ip]]
<1>3. (\A ip \in a .. b : sh[ip] = s[ip]) /\ (\A ip \in b .. c : sh[ip] = t[ip])
  BY <1>1, <1>2
<1>4. sh[a] = x /\ sh[c] = z
  BY <1>1, <1>2, <1>3
<1>5. sh \in [a .. c -> Places]
  BY <1>1, <1>2 DEF Laid
<1> HIDE DEF sh
<1>6. /\ \A ip \in a .. b : Caughts(sh[ip], a, c, sh, x.open)
      /\ \A ip \in a .. b - 1 : Leads(u, ip, a, c, sh)
  BY <1>0, <1>1, <1>3, Within
<1>7. /\ \A ip \in b .. c : Caughts(sh[ip], a, c, sh, x.open)
      /\ \A ip \in b .. c - 1 : Leads(u, ip, a, c, sh)
  BY <1>0, <1>2, <1>3, Within
<1>8. Laid(u, a, c, sh, x.open)
  <2>1. \A ip \in a .. c : ip \in a .. b \/ ip \in b .. c
    OBVIOUS
  <2>2. \A ip \in a .. c - 1 : ip \in a .. b - 1 \/ ip \in b .. c - 1
    OBVIOUS
  <2>3. \A ip \in a .. c : Caughts(sh[ip], a, c, sh, x.open)
    BY <1>6, <1>7, <2>1
  <2>4. \A ip \in a .. c - 1 : Leads(u, ip, a, c, sh)
    BY <1>6, <1>7, <2>2
  <2> QED BY <1>5, <2>3, <2>4 DEF Laid
<1>9. Looped(u, a, c)
  <2>1. Looped(u, a, b) /\ Looped(u, b, c) /\ a <= a /\ c <= c
    BY DEF Segment
  <2>2. LoopedIn(u, a, b, a, c)
    <3>1. Passes(u, a, a, b)
      BY DEF Passes
    <3> QED BY <2>1, <3>1, LoopedWithin
  <2>3. Passes(u, a, b, c)
    BY <2>1 DEF Looped, LoopedIn, Passes
  <2>4. LoopedIn(u, b, c, a, c)
    BY <2>1, <2>3, LoopedWithin
  <2>5. LoopedIn(u, a, c, a, c)
    <3> SUFFICES ASSUME NEW ip \in a .. c - 1
                 PROVE  \A e \in Edges(u.code[ip], ip) : e \in a .. c /\ (e > ip \/ Entered(u, a, e, ip))
      BY DEF LoopedIn
    <3>1. ip \in a .. b - 1 \/ ip \in b .. c - 1
      OBVIOUS
    <3> QED BY <2>2, <2>4, <3>1 DEF LoopedIn
  <2> QED BY <2>5 DEF Looped
<1> QED BY <1>4, <1>8, <1>9 DEF Segment

\* A segment is as good in another unit that has the same code there.
Agrees(u, w, a, b) ==
  /\ \A ip \in a .. b - 1 : w.code[ip] = u.code[ip]
  /\ w.nested = u.nested /\ w.script = u.script
  /\ Begins(u.pool, w.pool) /\ Len(u.fns) <= Len(w.fns)

\* What is laid out in one unit is in another that agrees with it.
LEMMA Transferred ==
  ASSUME NEW u \in Contexts, NEW w \in Contexts, NEW a \in Nat, NEW b \in Nat, Agrees(u, w, a, b),
         NEW x, NEW y, Segment(u, a, b, x, y)
  PROVE  Segment(w, a, b, x, y)
<1>1. PICK sh : Laid(u, a, b, sh, x.open) /\ sh[a] = x /\ sh[b] = y
  BY DEF Segment
<1>2. Len(u.fns) \in Nat /\ Len(w.fns) \in Nat /\ Len(u.pool) \in Nat /\ Len(w.pool) \in Nat
  BY DEF Contexts
<1>3. \A v : ConstantOf(u, v) => ConstantOf(w, v)
  <2>1. \A j \in 1 .. Len(u.fns) : j \in 1 .. Len(w.fns)
    BY <1>2 DEF Agrees
  <2> QED BY <2>1 DEF ConstantOf, Agrees
<1>4. ASSUME NEW ip \in a .. b - 1 PROVE Leads(w, ip, a, b, sh)
  <2>1. Leads(u, ip, a, b, sh) /\ w.code[ip] = u.code[ip] /\ w.nested = u.nested
    BY <1>1 DEF Laid, Agrees
  <2>2. \A k \in 1 .. Len(u.pool) : k \in 1 .. Len(w.pool) /\ w.pool[k] = u.pool[k]
    BY <1>2 DEF Agrees, Begins
  <2>3. Runs(w, ip, sh[ip])
    BY <1>3, <2>1, <2>2 DEF Leads, Runs
  <2> QED BY <2>1, <2>3 DEF Leads
<1>5. Laid(w, a, b, sh, x.open)
  BY <1>1, <1>4 DEF Laid
<1>6. Looped(w, a, b)
  <2>1. Looped(u, a, b) /\ \A ip \in a .. b - 1 : w.code[ip] = u.code[ip]
    BY DEF Segment, Agrees
  <2> SUFFICES ASSUME NEW ip \in a .. b - 1, NEW t \in Edges(w.code[ip], ip)
               PROVE  t \in a .. b /\ (t > ip \/ Entered(w, a, t, ip))
    BY DEF Looped, LoopedIn
  <2>2. t \in a .. b /\ (t > ip \/ Entered(u, a, t, ip))
    BY <2>1 DEF Looped, LoopedIn
  <2>3. CASE ~(t > ip)
    <3>1. \A j \in a .. t - 1 : w.code[j] = u.code[j]
      BY <2>1, <2>2, <2>3
    <3>2. Entered(u, a, t, ip)
      BY <2>2, <2>3
    <3>3. Entered(w, a, t, ip)
      BY <3>1, <3>2 DEF Entered
    <3> QED BY <2>2, <3>3
  <2> QED BY <2>2, <2>3
<1> QED BY <1>1, <1>5, <1>6 DEF Segment

\* A segment runs from place to place.
LEMMA EndsOf ==
  ASSUME NEW u, NEW a \in Nat, NEW b \in Nat, a <= b, NEW x, NEW y, Segment(u, a, b, x, y)
  PROVE  /\ Place(x) /\ x \in Places /\ Begins(x.open, x.open) /\ Len(x.open) \in Nat
         /\ Place(y) /\ y \in Places
<1>1. PICK sh : Laid(u, a, b, sh, x.open) /\ sh[a] = x /\ sh[b] = y
  BY DEF Segment
<1>2. a \in a .. b /\ b \in a .. b
  OBVIOUS
<1>3. Place(x) /\ Place(y)
  BY <1>1, <1>2 DEF Laid, Caughts
<1>4. x \in Places /\ y \in Places
  BY <1>3 DEF Place
<1>5. x.open \in Seq(Trys)
  BY <1>4 DEF Places
<1> QED BY <1>3, <1>4, <1>5 DEF Begins

\* A jump leaves the stack as it is.
LEMMA JumpEffect ==
  ASSUME NEW op \in {"JUMP", "LOOP", "JUMP_IF_FALSE"}, NEW k \in Nat, NEW at \in Places
  PROVE  /\ NextPlace(<<op, k>>, at) = at
         /\ NextPlace(<<op, 0>>, at) = at
BY DEF NextPlace, Takes, Leaves, Places, Pushing, Combining, Arithmetic, Division, Comparison, Replacing,
       Peeking, Collecting, Moving

\* A segment that a conditional jump goes over, if it ends as it begins.
LEMMA SkipSegment ==
  ASSUME NEW u, NEW p \in Nat, NEW k \in Nat, p + 1 <= k, NEW x,
         u.code[p] = <<"JUMP_IF_FALSE", k>>, Runs(u, p, x), Segment(u, p + 1, k, x, x)
  PROVE  Segment(u, p, k, x, x)
<1>0. p + 1 \in Nat /\ p <= p + 1 /\ k <= k
  OBVIOUS
<1>1. PICK s : Laid(u, p + 1, k, s, x.open) /\ s[p + 1] = x /\ s[k] = x
  BY DEF Segment
<1> DEFINE sh == [ip \in p .. k |-> IF ip = p THEN x ELSE s[ip]]
<1>2. (\A ip \in p + 1 .. k : sh[ip] = s[ip]) /\ sh[p] = x /\ sh[k] = x /\ sh[p + 1] = x
  BY <1>1
<1>3. Place(x) /\ x \in Places /\ Begins(x.open, x.open) /\ Len(x.open) \in Nat
  BY <1>0, EndsOf
<1>4. sh \in [p .. k -> Places]
  BY <1>1, <1>3 DEF Laid
<1> HIDE DEF sh
<1>5. /\ \A ip \in p + 1 .. k : Caughts(sh[ip], p, k, sh, x.open)
      /\ \A ip \in p + 1 .. k - 1 : Leads(u, ip, p, k, sh)
  BY <1>1, <1>2, <1>0, Within
<1>6. Caughts(sh[p], p, k, sh, x.open)
  BY <1>2, <1>3 DEF Caughts
<1>7. Leads(u, p, p, k, sh)
  <2>1. Targets(u.code[p], p) = {k, p + 1} /\ NextPlace(u.code[p], x) = x
    BY <1>3, JumpEffect DEF Targets
  <2> QED BY <1>2, <2>1 DEF Leads
<1>8. Laid(u, p, k, sh, x.open)
  <2>1. \A ip \in p .. k : ip = p \/ ip \in p + 1 .. k
    OBVIOUS
  <2>2. \A ip \in p .. k - 1 : ip = p \/ ip \in p + 1 .. k - 1
    OBVIOUS
  <2> QED BY <1>4, <1>5, <1>6, <1>7, <2>1, <2>2 DEF Laid
<1>9. Looped(u, p, k)
  <2>1. Looped(u, p + 1, k)
    BY DEF Segment
  <2>2. Edges(u.code[p], p) = {k, p + 1}
    BY DEF Edges, Targets
  <2>3. Passes(u, p, p + 1, k)
    BY <2>2 DEF Passes
  <2>4. LoopedIn(u, p + 1, k, p, k)
    BY <1>0, <2>1, <2>3, LoopedWithin
  <2>5. \A t \in Edges(u.code[p], p) : t \in p .. k /\ t > p
    BY <2>2
  <2>6. \A ip \in p .. k - 1 : ip = p \/ ip \in p + 1 .. k - 1
    OBVIOUS
  <2> QED BY <2>4, <2>5, <2>6 DEF Looped, LoopedIn
<1> QED BY <1>2, <1>8, <1>9 DEF Segment

\* One of two segments: a conditional jump goes over the first and the jump
\* that ends it, the jump over the second.
LEMMA ForkSegment ==
  ASSUME NEW u, NEW p \in Nat, NEW q \in Nat, NEW k \in Nat, p + 1 <= q, q + 1 <= k, NEW x, NEW y,
         u.code[p] = <<"JUMP_IF_FALSE", q + 1>>, Runs(u, p, x), Segment(u, p + 1, q, x, y),
         u.code[q] = <<"JUMP", k>>, Runs(u, q, y), Segment(u, q + 1, k, x, y),
         y.open = x.open
  PROVE  Segment(u, p, k, x, y)
<1>0. p + 1 \in Nat /\ q + 1 \in Nat /\ p <= p + 1 /\ q <= k /\ p <= q + 1 /\ k <= k
  OBVIOUS
<1>1. PICK s : Laid(u, p + 1, q, s, x.open) /\ s[p + 1] = x /\ s[q] = y
  BY DEF Segment
<1>2. PICK t : Laid(u, q + 1, k, t, x.open) /\ t[q + 1] = x /\ t[k] = y
  BY DEF Segment
<1> DEFINE sh == [ip \in p .. k |-> IF ip = p THEN x ELSE IF ip <= q THEN s[ip] ELSE t[ip]]
<1>3. /\ \A ip \in p + 1 .. q : sh[ip] = s[ip]
      /\ \A ip \in q + 1 .. k : sh[ip] = t[ip]
      /\ sh[p] = x /\ sh[p + 1] = x /\ sh[q] = y /\ sh[q + 1] = x /\ sh[k] = y
  BY <1>1, <1>2
<1>4. /\ Place(x) /\ x \in Places /\ Begins(x.open, x.open) /\ Len(x.open) \in Nat
      /\ Place(y) /\ y \in Places
  BY <1>0, EndsOf
<1>5. sh \in [p .. k -> Places]
  BY <1>1, <1>2, <1>4 DEF Laid
<1> HIDE DEF sh
<1>6. /\ \A ip \in p + 1 .. q : Caughts(sh[ip], p, k, sh, x.open)
      /\ \A ip \in p + 1 .. q - 1 : Leads(u, ip, p, k, sh)
  BY <1>1, <1>3, <1>0, Within
<1>7. /\ \A ip \in q + 1 .. k : Caughts(sh[ip], p, k, sh, x.open)
      /\ \A ip \in q + 1 .. k - 1 : Leads(u, ip, p, k, sh)
  BY <1>2, <1>3, <1>0, Within
<1>8. Caughts(sh[p], p, k, sh, x.open)
  BY <1>3, <1>4 DEF Caughts
<1>9. Leads(u, p, p, k, sh)
  <2>1. Targets(u.code[p], p) = {q + 1, p + 1} /\ NextPlace(u.code[p], x) = x
    BY <1>4, JumpEffect DEF Targets
  <2> QED BY <1>3, <2>1 DEF Leads
<1>10. Leads(u, q, p, k, sh)
  <2>1. Targets(u.code[q], q) = {k} /\ NextPlace(u.code[q], y) = y
    BY <1>4, JumpEffect DEF Targets
  <2> QED BY <1>3, <2>1 DEF Leads
<1>11. Laid(u, p, k, sh, x.open)
  <2>1. \A ip \in p .. k : ip = p \/ ip \in p + 1 .. q \/ ip \in q + 1 .. k
    OBVIOUS
  <2>2. \A ip \in p .. k - 1 : ip = p \/ ip \in p + 1 .. q - 1 \/ ip = q \/ ip \in q + 1 .. k - 1
    OBVIOUS
  <2> QED BY <1>5, <1>6, <1>7, <1>8, <1>9, <1>10, <2>1, <2>2 DEF Laid
<1>12. Looped(u, p, k)
  <2>1. Looped(u, p + 1, q) /\ Looped(u, q + 1, k)
    BY DEF Segment
  <2>2. Edges(u.code[p], p) = {q + 1, p + 1} /\ Edges(u.code[q], q) = {k}
    BY DEF Edges, Targets
  <2>3. Passes(u, p, p + 1, q)
    BY <2>2 DEF Passes
  <2>4. LoopedIn(u, p + 1, q, p, k)
    BY <1>0, <2>1, <2>3, LoopedWithin
  <2>5. Passes(u, p, q + 1, k)
    <3>1. \A j \in p .. q + 1 - 1 : j = p \/ j \in p + 1 .. q - 1 \/ j = q
      OBVIOUS
    <3>2. \A j \in p + 1 .. q - 1 : \A e \in Edges(u.code[j], j) : e \in p + 1 .. q
      BY <2>1 DEF Looped, LoopedIn
    <3> QED BY <2>2, <3>1, <3>2 DEF Passes
  <2>6. LoopedIn(u, q + 1, k, p, k)
    BY <1>0, <2>1, <2>5, LoopedWithin
  <2>7. /\ \A e \in Edges(u.code[p], p) : e \in p .. k /\ e > p
        /\ \A e \in Edges(u.code[q], q) : e \in p .. k /\ e > q
    BY <2>2
  <2>8. \A ip \in p .. k - 1 : ip = p \/ ip \in p + 1 .. q - 1 \/ ip = q \/ ip \in q + 1 .. k - 1
    OBVIOUS
  <2> QED BY <2>4, <2>6, <2>7, <2>8 DEF Looped, LoopedIn
<1> QED BY <1>3, <1>11, <1>12 DEF Segment

\* A segment that is run again and again: its test leads to a conditional
\* jump over the rest, which ends in a jump back.
LEMMA LoopSegment ==
  ASSUME NEW u, NEW a \in Nat, NEW p \in Nat, NEW q \in Nat, a <= p, p + 1 <= q, NEW x, NEW y,
         Segment(u, a, p, x, y), u.code[p] = <<"JUMP_IF_FALSE", q + 1>>, Runs(u, p, y),
         Segment(u, p + 1, q, y, x), u.code[q] = <<"LOOP", a>>, Runs(u, q, x),
         y.open = x.open
  PROVE  Segment(u, a, q + 1, x, y)
<1>0. p + 1 \in Nat /\ q + 1 \in Nat /\ a <= a /\ p <= q + 1 /\ a <= p + 1 /\ q <= q + 1
  OBVIOUS
<1>1. PICK s : Laid(u, a, p, s, x.open) /\ s[a] = x /\ s[p] = y
  BY DEF Segment
<1>2. PICK t : Laid(u, p + 1, q, t, x.open) /\ t[p + 1] = y /\ t[q] = x
  BY DEF Segment
<1> DEFINE sh == [ip \in a .. q + 1 |-> IF ip <= p THEN s[ip] ELSE IF ip <= q THEN t[ip] ELSE y]
<1>3. /\ \A ip \in a .. p : sh[ip] = s[ip]
      /\ \A ip \in p + 1 .. q : sh[ip] = t[ip]
      /\ sh[a] = x /\ sh[p] = y /\ sh[p + 1] = y /\ sh[q] = x /\ sh[q + 1] = y
  BY <1>1, <1>2
<1>4. /\ x \in Places /\ Begins(x.open, x.open) /\ Len(x.open) \in Nat
      /\ Place(y) /\ y \in Places
  BY <1>0, EndsOf
<1>5. sh \in [a .. q + 1 -> Places]
  BY <1>1, <1>2, <1>4 DEF Laid
<1> HIDE DEF sh
<1>6. /\ \A ip \in a .. p : Caughts(sh[ip], a, q + 1, sh, x.open)
      /\ \A ip \in a .. p - 1 : Leads(u, ip, a, q + 1, sh)
  BY <1>1, <1>3, <1>0, Within
<1>7. /\ \A ip \in p + 1 .. q : Caughts(sh[ip], a, q + 1, sh, x.open)
      /\ \A ip \in p + 1 .. q - 1 : Leads(u, ip, a, q + 1, sh)
  BY <1>2, <1>3, <1>0, Within
<1>8. Caughts(sh[q + 1], a, q + 1, sh, x.open)
  BY <1>3, <1>4 DEF Caughts
<1>9. Leads(u, p, a, q + 1, sh)
  <2>1. Targets(u.code[p], p) = {q + 1, p + 1} /\ NextPlace(u.code[p], y) = y
    BY <1>4, JumpEffect DEF Targets
  <2> QED BY <1>3, <2>1 DEF Leads
<1>10. Leads(u, q, a, q + 1, sh)
  <2>1. Targets(u.code[q], q) = {a} /\ NextPlace(u.code[q], x) = x
    BY <1>4, JumpEffect DEF Targets
  <2> QED BY <1>3, <2>1 DEF Leads
<1>11. Laid(u, a, q + 1, sh, x.open)
  <2>1. \A ip \in a .. q + 1 : ip \in a .. p \/ ip \in p + 1 .. q \/ ip = q + 1
    OBVIOUS
  <2>2. \A ip \in a .. q + 1 - 1 : ip \in a .. p - 1 \/ ip = p \/ ip \in p + 1 .. q - 1 \/ ip = q
    OBVIOUS
  <2> QED BY <1>5, <1>6, <1>7, <1>8, <1>9, <1>10, <2>1, <2>2 DEF Laid
<1>12. Looped(u, a, q + 1)
  <2>1. Looped(u, a, p) /\ Looped(u, p + 1, q)
    BY DEF Segment
  <2>2. Edges(u.code[p], p) = {q + 1, p + 1} /\ Edges(u.code[q], q) = {a}
    BY DEF Edges, Targets
  <2>3. LoopedIn(u, a, p, a, q + 1)
    <3>1. Passes(u, a, a, p)
      BY DEF Passes
    <3> QED BY <1>0, <2>1, <3>1, LoopedWithin
  <2>4. Passes(u, a, p + 1, q)
    <3>1. \A j \in a .. p + 1 - 1 : j \in a .. p - 1 \/ j = p
      OBVIOUS
    <3>2. \A j \in a .. p - 1 : \A e \in Edges(u.code[j], j) : e \in a .. p
      BY <2>1 DEF Looped, LoopedIn
    <3> QED BY <2>2, <3>1, <3>2 DEF Passes
  <2>5. LoopedIn(u, p + 1, q, a, q + 1)
    <3>1. q <= q + 1
      OBVIOUS
    <3> QED BY <1>0, <2>1, <2>4, <3>1, LoopedWithin
  <2>6. /\ \A e \in Edges(u.code[p], p) : e \in a .. q + 1 /\ e > p
        /\ \A e \in Edges(u.code[q], q) : e \in a .. q + 1 /\ Entered(u, a, e, q)
    BY <2>2 DEF Entered
  <2>7. \A ip \in a .. q + 1 - 1 : ip \in a .. p - 1 \/ ip = p \/ ip \in p + 1 .. q - 1 \/ ip = q
    OBVIOUS
  <2> QED BY <2>3, <2>5, <2>6, <2>7 DEF Looped, LoopedIn
<1> QED BY <1>3, <1>11, <1>12 DEF Segment

\* The place in a try that was opened at x, to be caught at k, and where it is caught.
Opened(x, k) == [height |-> x.height, open |-> Append(x.open, [catch |-> k, height |-> x.height])]
Up(x) == [height |-> x.height + 1, open |-> x.open]

\* TRY opens one try more, TRY_END closes it, and its catch finds one value more.
LEMMA TryPlaces ==
  ASSUME NEW x, Place(x), NEW k \in Nat
  PROVE  /\ Opened(x, k).open \in Seq(Trys) /\ Len(Opened(x, k).open) = Len(x.open) + 1
         /\ Begins(x.open, Opened(x, k).open) /\ Opened(x, k).open # <<>> /\ Opened(x, k).height = x.height
         /\ NextPlace(<<"TRY", k>>, x) = Opened(x, k)
         /\ NextPlace(<<"TRY_END">>, Opened(x, k)) = x
         /\ \A at : at.open \in Seq(Trys) /\ Begins(Opened(x, k).open, at.open) =>
              /\ at.open[Len(x.open) + 1] = [catch |-> k, height |-> x.height]
              /\ Caught(at, Len(x.open) + 1) = Up(x)
<1> DEFINE c == [catch |-> k, height |-> x.height]
           y == Opened(x, k)
           m == Len(x.open) + 1
<1>1. x \in Places /\ x.height \in Nat /\ x.open \in Seq(Trys) /\ Len(x.open) \in Nat /\ c \in Trys
  BY DEF Place, Places, Trys
<1>2. y.open = Append(x.open, c) /\ y.height = x.height
  BY DEF Opened
<1>3. y.open \in Seq(Trys) /\ Len(y.open) = m /\ y.open[m] = c /\ Begins(x.open, y.open) /\ y.open # <<>>
  BY <1>1, <1>2, BeginsAppend
<1>4. NextPlace(<<"TRY", k>>, x) = y
  <2>1. Takes(<<"TRY", k>>) = 0 /\ Leaves(<<"TRY", k>>) = 0
    BY DEF Takes, Leaves, Pushing, Combining, Arithmetic, Division, Comparison, Replacing,
         Peeking, Collecting, Moving
  <2>2. NextPlace(<<"TRY", k>>, x) = [height |-> x.height - 0 + 0, open |-> Append(x.open, c)]
    BY <2>1 DEF NextPlace
  <2>3. y = [height |-> x.height, open |-> Append(x.open, c)]
    BY DEF Opened
  <2>4. x.height - 0 + 0 = x.height
    BY <1>1
  <2> HIDE DEF y, c
  <2> QED BY <2>2, <2>3, <2>4
<1>5. SubSeq(y.open, 1, Len(y.open) - 1) = x.open
  BY <1>1, <1>2, <1>3 DEF Begins
<1>6. NextPlace(<<"TRY_END">>, y) = x
  <2>1. NextPlace(<<"TRY_END">>, y) = [height |-> y.height - 0 + 0, open |-> SubSeq(y.open, 1, Len(y.open) - 1)]
    BY DEF NextPlace, Takes, Leaves, Pushing, Combining, Arithmetic, Division, Comparison, Replacing,
       Peeking, Collecting, Moving
  <2>2. x = [height |-> x.height, open |-> x.open]
    BY <1>1 DEF Places
  <2>3. y.height - 0 + 0 = x.height
    BY <1>1, <1>2
  <2> HIDE DEF y
  <2> QED BY <1>5, <2>1, <2>2, <2>3
<1>7. ASSUME NEW at, at.open \in Seq(Trys), Begins(y.open, at.open)
      PROVE  at.open[m] = c /\ Caught(at, m) = Up(x)
  <2>1. m \in 1 .. Len(y.open) /\ Len(at.open) \in Nat /\ Len(y.open) <= Len(at.open)
    BY <1>1, <1>3, <1>7 DEF Begins
  <2>2. at.open[m] = c
    BY <1>3, <1>7, <2>1 DEF Begins
  <2>3. \A i \in 1 .. Len(x.open) : at.open[i] = x.open[i]
    BY <1>1, <1>3, <1>7 DEF Begins
  <2>4. SubSeq(at.open, 1, m - 1) = x.open
    BY <1>1, <1>3, <1>7, <2>1, <2>3
  <2> QED BY <2>2, <2>4 DEF Caught, Up
<1> QED BY <1>2, <1>3, <1>4, <1>6, <1>7

\* A try and its handler: from p the try, closed at r, and behind the jump over
\* it the handler.
LEMMA TrySegment ==
  ASSUME NEW u, NEW p \in Nat, NEW r \in Nat, NEW k \in Nat, p + 1 <= r, r + 2 <= k, NEW x, Place(x),
         u.code[p] = <<"TRY", r + 2>>, Runs(u, p, x),
         Segment(u, p + 1, r, Opened(x, r + 2), Opened(x, r + 2)),
         u.code[r] = <<"TRY_END">>, Runs(u, r, Opened(x, r + 2)),
         u.code[r + 1] = <<"JUMP", k>>, Runs(u, r + 1, x),
         Segment(u, r + 2, k, Up(x), x)
  PROVE  Segment(u, p, k, x, x)
<1> DEFINE y == Opened(x, r + 2)
           z == Up(x)
           m == Len(x.open) + 1
<1>0. /\ p + 1 \in Nat /\ r + 2 \in Nat /\ p <= p + 1 /\ r <= k /\ p <= r + 2 /\ k <= k
      /\ r + 2 \in p .. k
  OBVIOUS
<1>1. PICK s : Laid(u, p + 1, r, s, y.open) /\ s[p + 1] = y /\ s[r] = y
  BY DEF Segment
<1>2. PICK t : Laid(u, r + 2, k, t, x.open) /\ t[r + 2] = z /\ t[k] = x
  BY DEF Segment, Up
<1> DEFINE sh == [ip \in p .. k |-> IF ip \in p + 1 .. r THEN s[ip]
                                    ELSE IF ip \in r + 2 .. k THEN t[ip] ELSE x]
<1>3. /\ \A ip \in p + 1 .. r : sh[ip] = s[ip]
      /\ \A ip \in r + 2 .. k : sh[ip] = t[ip]
      /\ sh[p] = x /\ sh[p + 1] = y /\ sh[r] = y /\ sh[r + 1] = x /\ sh[r + 2] = z /\ sh[k] = x
  BY <1>1, <1>2
<1>4. /\ x \in Places /\ x.open \in Seq(Trys) /\ Begins(x.open, x.open) /\ Len(x.open) \in Nat
  <2>1. x \in Places /\ x.open \in Seq(Trys)
    BY DEF Place, Places
  <2> QED BY <2>1 DEF Begins
<1>14. /\ y.open \in Seq(Trys) /\ Len(y.open) = m /\ Begins(x.open, y.open)
       /\ NextPlace(<<"TRY", r + 2>>, x) = y /\ NextPlace(<<"TRY_END">>, y) = x
       /\ \A at : at.open \in Seq(Trys) /\ Begins(y.open, at.open) =>
            at.open[m] = [catch |-> r + 2, height |-> x.height] /\ Caught(at, m) = z
  BY <1>0, TryPlaces
<1>5. sh \in [p .. k -> Places]
  BY <1>1, <1>2, <1>4 DEF Laid
<1> HIDE DEF sh, y, z
<1>6. /\ \A ip \in p + 1 .. r : Caughts(sh[ip], p, k, sh, y.open)
      /\ \A ip \in p + 1 .. r - 1 : Leads(u, ip, p, k, sh)
  BY <1>1, <1>3, <1>0, Within
<1>7. /\ \A ip \in r + 2 .. k : Caughts(sh[ip], p, k, sh, x.open)
      /\ \A ip \in r + 2 .. k - 1 : Leads(u, ip, p, k, sh)
  BY <1>2, <1>3, <1>0, Within
<1>8. ASSUME NEW ip \in p + 1 .. r PROVE Caughts(sh[ip], p, k, sh, x.open)
  <2> DEFINE at == sh[ip]
  <2>1. Caughts(at, p, k, sh, y.open)
    BY <1>6
  <2>2. Place(at) /\ at.open \in Seq(Trys) /\ Begins(y.open, at.open) /\ Len(at.open) \in Nat
    <3>1. Place(at) /\ Begins(y.open, at.open)
      BY <2>1 DEF Caughts
    <3>2. at \in Places
      BY <3>1 DEF Place
    <3> QED BY <3>1, <3>2 DEF Places
  <2>3. /\ at.open[m] = [catch |-> r + 2, height |-> x.height] /\ Caught(at, m) = z
        /\ Begins(x.open, y.open) /\ Len(y.open) = m
    BY <1>14, <2>2
  <2>4. at.open[m].catch \in p .. k /\ sh[at.open[m].catch] = Caught(at, m)
    <3>1. at.open[m].catch = r + 2
      BY <2>3
    <3> QED BY <1>0, <1>3, <2>3, <3>1
  <2>5. Begins(x.open, at.open)
    BY <1>4, <1>14, <2>2, BeginsOn
  <2>6. \A l \in Len(x.open) + 1 .. Len(at.open) : l = m \/ l \in Len(y.open) + 1 .. Len(at.open)
    BY <1>4, <2>2, <2>3
  <2> QED BY <2>1, <2>2, <2>4, <2>5, <2>6 DEF Caughts
<1>9. Caughts(x, p, k, sh, x.open)
  BY <1>4 DEF Caughts
<1>10. Leads(u, p, p, k, sh)
  <2>1. Targets(u.code[p], p) = {p + 1} /\ NextPlace(u.code[p], x) = y
    BY <1>14 DEF Targets
  <2> QED BY <1>0, <1>3, <2>1 DEF Leads
<1>11. Leads(u, r, p, k, sh)
  <2>1. Targets(u.code[r], r) = {r + 1} /\ NextPlace(u.code[r], y) = x
    BY <1>14 DEF Targets
  <2> QED BY <1>0, <1>3, <2>1 DEF Leads, y
<1>12. Leads(u, r + 1, p, k, sh)
  <2>1. Targets(u.code[r + 1], r + 1) = {k} /\ NextPlace(u.code[r + 1], x) = x
    BY <1>4, JumpEffect DEF Targets
  <2> QED BY <1>0, <1>3, <2>1 DEF Leads
<1>13. Laid(u, p, k, sh, x.open)
  <2>1. \A ip \in p .. k : ip = p \/ ip \in p + 1 .. r \/ ip = r + 1 \/ ip \in r + 2 .. k
    OBVIOUS
  <2>2. \A ip \in p .. k - 1 : ip = p \/ ip \in p + 1 .. r - 1 \/ ip = r \/ ip = r + 1 \/ ip \in r + 2 .. k - 1
    OBVIOUS
  <2>3. \A ip \in p .. k : Caughts(sh[ip], p, k, sh, x.open)
    BY <1>3, <1>7, <1>8, <1>9, <2>1
  <2> QED BY <1>5, <1>6, <1>7, <1>10, <1>11, <1>12, <2>2, <2>3 DEF Laid
<1>15. Looped(u, p, k)
  <2>1. Looped(u, p + 1, r) /\ Looped(u, r + 2, k)
    BY DEF Segment
  <2>2. Edges(u.code[p], p) = {p + 1, r + 2} /\ Edges(u.code[r], r) = {r + 1} /\ Edges(u.code[r + 1], r + 1) = {k}
    BY DEF Edges, Targets
  <2>3. Passes(u, p, p + 1, r)
    BY <2>2 DEF Passes
  <2>4. LoopedIn(u, p + 1, r, p, k)
    BY <1>0, <2>1, <2>3, LoopedWithin
  <2>5. Passes(u, p, r + 2, k)
    <3>1. \A j \in p .. r + 2 - 1 : j = p \/ j \in p + 1 .. r - 1 \/ j = r \/ j = r + 1
      OBVIOUS
    <3>2. \A j \in p + 1 .. r - 1 : \A e \in Edges(u.code[j], j) : e \in p + 1 .. r
      BY <2>1 DEF Looped, LoopedIn
    <3> QED BY <2>2, <3>1, <3>2 DEF Passes
  <2>6. LoopedIn(u, r + 2, k, p, k)
    BY <1>0, <2>1, <2>5, LoopedWithin
  <2>7. /\ \A e \in Edges(u.code[p], p) : e \in p .. k /\ e > p
        /\ \A e \in Edges(u.code[r], r) : e \in p .. k /\ e > r
        /\ \A e \in Edges(u.code[r + 1], r + 1) : e \in p .. k /\ e > r + 1
    BY <2>2
  <2>8. \A ip \in p .. k - 1 : ip = p \/ ip \in p + 1 .. r - 1 \/ ip = r \/ ip = r + 1 \/ ip \in r + 2 .. k - 1
    OBVIOUS
  <2> QED BY <2>4, <2>6, <2>7, <2>8 DEF Looped, LoopedIn
<1> QED BY <1>3, <1>13, <1>15 DEF Segment

\* The locals of a scope are popped one by one.
LEMMA PopSegment ==
  ASSUME NEW u, NEW a \in Nat, NEW n \in Nat, NEW at, Place(at), Floor(at) <= at.height - n,
         \A ip \in a .. a + n - 1 : u.code[ip] = <<"POP">>
  PROVE  Segment(u, a, a + n, at, [height |-> at.height - n, open |-> at.open])
<1> DEFINE sh == [ip \in a .. a + n |-> [height |-> at.height - (ip - a), open |-> at.open]]
<1>1. at \in Places /\ at.height \in Nat /\ at.open \in Seq(Trys) /\ Len(at.open) \in Nat /\ Begins(at.open, at.open)
  <2>1. at \in Places
    BY DEF Place
  <2> QED BY <2>1 DEF Places, Begins
<1>2. at = [height |-> at.height, open |-> at.open]
  BY <1>1 DEF Places
<1>3. Floor(at) \in Nat /\ Floor(at) >= 1
  <2>1. at.open = <<>> \/ Len(at.open) \in 1 .. Len(at.open)
    BY <1>1
  <2>2. CASE at.open # <<>>
    <3>1. at.open[Len(at.open)] \in Trys
      BY <1>1, <2>1, <2>2
    <3>2. at.open[Len(at.open)].height >= 1
      BY <2>1, <2>2 DEF Place, Orderly
    <3> QED BY <2>2, <3>1, <3>2 DEF Floor, Trys
  <2> QED BY <2>2 DEF Floor
<1>4. ASSUME NEW ip \in a .. a + n
      PROVE  /\ sh[ip] \in Places /\ Place(sh[ip]) /\ sh[ip].open = at.open
             /\ sh[ip].height = at.height - (ip - a) /\ Floor(sh[ip]) = Floor(at)
  <2>1. at.height - (ip - a) \in Nat /\ Floor(at) <= at.height - (ip - a)
    BY <1>1, <1>3
  <2>2. Floor(sh[ip]) = Floor(at) /\ sh[ip].open = at.open /\ sh[ip].height = at.height - (ip - a)
    BY DEF Floor
  <2>3. sh[ip] \in Places
    BY <1>1, <2>1 DEF Places
  <2> QED BY <2>1, <2>2, <2>3 DEF Place
<1>5. sh[a] = at /\ sh[a + n] = [height |-> at.height - n, open |-> at.open]
  BY <1>1, <1>2
<1> HIDE DEF sh
<1>6. \A ip \in a .. a + n : Caughts(sh[ip], a, a + n, sh, at.open)
  BY <1>1, <1>4 DEF Caughts
<1>7. ASSUME NEW ip \in a .. a + n - 1 PROVE Leads(u, ip, a, a + n, sh)
  <2>1. ip \in a .. a + n /\ ip + 1 \in a .. a + n /\ u.code[ip] = <<"POP">>
    OBVIOUS
  <2>2. Targets(u.code[ip], ip) = {ip + 1} /\ Takes(u.code[ip]) = 1 /\ Leaves(u.code[ip]) = 0
    BY <2>1 DEF Targets, Takes, Leaves, Pushing, Combining, Arithmetic, Division, Comparison, Replacing,
       Peeking, Collecting, Moving
  <2>3. NextPlace(u.code[ip], sh[ip]) = [height |-> at.height - (ip - a) - 1, open |-> at.open]
    <3>1. NextPlace(u.code[ip], sh[ip]) = [height |-> sh[ip].height - 1 + 0, open |-> sh[ip].open]
      BY <2>1, <2>2 DEF NextPlace
    <3> QED BY <1>1, <1>4, <2>1, <3>1
  <2>4. sh[ip + 1] = NextPlace(u.code[ip], sh[ip])
    <3>1. sh[ip + 1] = [height |-> at.height - (ip + 1 - a), open |-> at.open]
      BY <2>1 DEF sh
    <3> QED BY <1>1, <2>3, <3>1
  <2>5. Suffices(<<"POP">>, sh[ip], ~u.nested)
    <3>1. Takes(<<"POP">>) = 1
      BY <2>1, <2>2
    <3>2. 1 <= sh[ip].height - Floor(sh[ip])
      <4>1. sh[ip].height = at.height - (ip - a) /\ Floor(sh[ip]) = Floor(at)
        BY <1>4, <2>1
      <4> QED BY <1>1, <1>3, <4>1
    <3> QED BY <3>1, <3>2 DEF Suffices, Collecting
  <2>6. Runs(u, ip, sh[ip])
    <3>1. <<"POP">> \in Instructions
      BY DEF Instructions, Opcodes, Dropping
    <3> QED BY <2>1, <2>5, <3>1 DEF Runs
  <2> QED BY <2>1, <2>2, <2>4, <2>6 DEF Leads
<1>8. Laid(u, a, a + n, sh, at.open)
  <2>1. sh = [ip \in a .. a + n |-> sh[ip]]
    BY DEF sh
  <2> QED BY <1>4, <1>6, <1>7, <2>1 DEF Laid
<1>9. Looped(u, a, a + n)
  <2>1. ASSUME NEW ip \in a .. a + n - 1 PROVE Edges(u.code[ip], ip) = {ip + 1} /\ ip + 1 \in a .. a + n /\ ip + 1 > ip
    BY DEF Edges, Targets
  <2> QED BY <2>1 DEF Looped, LoopedIn
<1> QED BY <1>5, <1>8, <1>9 DEF Segment

-----------------------------------------------------------------------------
(***************************************************************************)
(* What compiling does to a context: it adds to the code, to the constants *)
(* and to the functions, and the functions it adds fit.                    *)
(***************************************************************************)
Fit(f, id, n) ==
  \E u \in Contexts : \E end :
    /\ u.code = f.code /\ u.pool = f.pool /\ u.nested /\ u.script = id /\ Len(u.fns) <= n
    /\ Len(u.code) >= 1
    /\ Segment(u, 1, Len(u.code), [height |-> f.arity + 1, open |-> <<>>], end)
    /\ Runs(u, Len(u.code), end) /\ Targets(u.code[Len(u.code)], Len(u.code)) = {}
AllFit(c) ==
  \A k \in 1 .. Len(c.fns) : Len(c.fns[k].pool) <= ByteRange => Fit(c.fns[k], c.script, Len(c.fns))

Grown(c, d) ==
  /\ d \in Contexts
  /\ Begins(c.code, d.code) /\ Begins(c.pool, d.pool) /\ Begins(c.fns, d.fns)
  /\ d.nested = c.nested /\ d.script = c.script
  /\ c.err => d.err
  /\ ~d.err /\ AllFit(c) => AllFit(d)

Emits(c, d, at, next) ==
  /\ Grown(c, d)
  /\ ~d.err /\ Len(d.pool) <= ByteRange => Segment(d, Here(c), Here(d), at, next)

\* The parts of a context.
LEMMA ContextType ==
  ASSUME NEW c \in Contexts
  PROVE  /\ c.code \in Seq(Instructions) /\ c.pool \in Seq(Constants) /\ c.locals \in Seq(Locals)
         /\ c.depth \in Nat /\ c.nested \in BOOLEAN /\ c.script \in DOMAIN Code /\ c.fns \in Seq(Functions)
         /\ c.err \in BOOLEAN
         /\ Len(c.code) \in Nat /\ Here(c) \in Nat /\ Here(c) = Len(c.code) + 1 /\ Len(c.pool) \in Nat
         /\ Len(c.fns) \in Nat /\ Len(c.locals) \in Nat
         /\ Begins(c.code, c.code) /\ Begins(c.pool, c.pool) /\ Begins(c.fns, c.fns)
BY DEF Contexts, Here, Begins

\* What has grown out of what has grown has grown out of the first.
LEMMA GrownOn ==
  ASSUME NEW c \in Contexts, NEW d, NEW e, Grown(c, d), Grown(d, e)
  PROVE  Grown(c, e)
<1>1. d \in Contexts /\ e \in Contexts
  BY DEF Grown
<1>2. /\ c.code \in Seq(Instructions) /\ d.code \in Seq(Instructions) /\ e.code \in Seq(Instructions)
      /\ c.pool \in Seq(Constants) /\ d.pool \in Seq(Constants) /\ e.pool \in Seq(Constants)
      /\ c.fns \in Seq(Functions) /\ d.fns \in Seq(Functions) /\ e.fns \in Seq(Functions)
  BY <1>1, ContextType
<1>3. Begins(c.code, e.code) /\ Begins(c.pool, e.pool) /\ Begins(c.fns, e.fns)
  BY <1>2, BeginsOn DEF Grown
<1> QED BY <1>1, <1>3 DEF Grown

\* If what has grown has no error and few enough constants, neither had it before.
LEMMA GrownSmaller ==
  ASSUME NEW d \in Contexts, NEW e, Grown(d, e)
  PROVE  /\ Len(d.pool) \in Nat /\ Len(e.pool) \in Nat /\ Len(d.pool) <= Len(e.pool)
         /\ Len(e.pool) <= ByteRange => Len(d.pool) <= ByteRange
         /\ ~e.err => ~d.err
<1>1. e \in Contexts /\ Begins(d.pool, e.pool) /\ (d.err => e.err)
  BY DEF Grown
<1>2. Len(d.pool) \in Nat /\ Len(e.pool) \in Nat
  BY <1>1, ContextType
<1>3. Len(d.pool) <= Len(e.pool)
  BY <1>1 DEF Begins
<1>4. Len(e.pool) <= ByteRange => Len(d.pool) <= ByteRange
  BY <1>2, <1>3, LimitsAssumption
<1> QED BY <1>1, <1>2, <1>3, <1>4

\* Code emitted behind other code goes on where that ends.
LEMMA EmitsOn ==
  ASSUME NEW c \in Contexts, NEW d, NEW e, NEW x, NEW y, NEW z, y.open = x.open,
         Emits(c, d, x, y), Emits(d, e, y, z)
  PROVE  Emits(c, e, x, z)
<1>1. Grown(c, d) /\ Grown(d, e) /\ Grown(c, e) /\ d \in Contexts /\ e \in Contexts
  BY GrownOn DEF Emits, Grown
<1>2. ASSUME ~e.err, Len(e.pool) <= ByteRange
      PROVE  Segment(e, Here(c), Here(e), x, z)
  <2>1. ~d.err /\ Len(d.pool) <= ByteRange
    <3>1. (Len(e.pool) <= ByteRange => Len(d.pool) <= ByteRange) /\ (~e.err => ~d.err)
      BY <1>1, GrownSmaller
    <3> QED BY <1>2, <3>1
  <2>2. Segment(d, Here(c), Here(d), x, y) /\ Segment(e, Here(d), Here(e), y, z)
    BY <1>2, <2>1 DEF Emits
  <2>3. /\ Here(c) \in Nat /\ Here(d) \in Nat /\ Here(e) \in Nat /\ Here(c) <= Here(d) /\ Here(d) <= Here(e)
        /\ Here(d) = Len(d.code) + 1 /\ Here(c) >= 1
    <3>1. Len(c.code) <= Len(d.code) /\ Len(d.code) <= Len(e.code)
      BY <1>1 DEF Grown, Begins
    <3>2. /\ Here(c) = Len(c.code) + 1 /\ Here(d) = Len(d.code) + 1 /\ Here(e) = Len(e.code) + 1
          /\ Len(c.code) \in Nat /\ Len(d.code) \in Nat /\ Len(e.code) \in Nat
      BY <1>1, ContextType
    <3> QED BY <3>1, <3>2
  <2>4. Agrees(d, e, Here(c), Here(d))
    <3>1. \A ip \in Here(c) .. Here(d) - 1 : ip \in 1 .. Len(d.code)
      BY <1>1, <2>3, ContextType
    <3>2. \A ip \in Here(c) .. Here(d) - 1 : e.code[ip] = d.code[ip]
      BY <1>1, <3>1 DEF Grown, Begins
    <3> QED BY <1>1, <3>2 DEF Agrees, Grown, Begins
  <2>5. Segment(e, Here(c), Here(d), x, y)
    BY <1>1, <2>2, <2>3, <2>4, Transferred
  <2> QED BY <2>2, <2>3, <2>5, SegmentsJoined
<1> QED BY <1>1, <1>2 DEF Emits

\* Emitting changes the code alone.
LEMMA EmitGrown ==
  ASSUME NEW c \in Contexts, NEW i \in Instructions
  PROVE  /\ Grown(c, Emit(c, i)) /\ Emit(c, i) \in Contexts
         /\ Len(Emit(c, i).code) = Len(c.code) + 1 /\ Here(Emit(c, i)) = Here(c) + 1
         /\ Emit(c, i).code[Here(c)] = i
         /\ Emit(c, i).locals = c.locals /\ Emit(c, i).depth = c.depth /\ Emit(c, i).err = c.err
         /\ Emit(c, i).pool = c.pool /\ Emit(c, i).fns = c.fns
<1> DEFINE d == Emit(c, i)
<1>1. /\ d.code = Append(c.code, i) /\ d.pool = c.pool /\ d.locals = c.locals /\ d.depth = c.depth
      /\ d.nested = c.nested /\ d.script = c.script /\ d.fns = c.fns /\ d.err = c.err
  BY DEF Emit, Contexts
<1>2. /\ Append(c.code, i) \in Seq(Instructions) /\ Begins(c.code, Append(c.code, i))
      /\ Len(Append(c.code, i)) = Len(c.code) + 1 /\ Append(c.code, i)[Len(c.code) + 1] = i
  BY ContextType, BeginsAppend
<1>3. d \in Contexts
  BY <1>2 DEF Emit, Contexts
<1>4. AllFit(c) => AllFit(d)
  BY <1>1 DEF AllFit
<1> HIDE DEF d
<1>5. Grown(c, d)
  BY <1>1, <1>2, <1>3, <1>4, ContextType DEF Grown
<1>6. Here(d) = Here(c) + 1
  BY <1>1, <1>2 DEF Here
<1>7. d.code[Here(c)] = i
  BY <1>1, <1>2 DEF Here
<1> QED BY <1>1, <1>2, <1>3, <1>5, <1>6, <1>7 DEF d

Straight == Opcodes \ {"TRY", "TRY_END", "JUMP", "LOOP", "JUMP_IF_FALSE", "RETURN", "HALT"}

\* One instruction that goes on to the next.
LEMMA EmitOne ==
  ASSUME NEW c \in Contexts, NEW i \in Instructions, i[1] \in Straight, NEW at, Place(at),
         Suffices(i, at, ~c.nested),
         i[1] = "CONST" => i[2] + 1 \in 1 .. Len(c.pool) /\ ConstantOf(c, c.pool[i[2] + 1]),
         NEW next, Place(next), next = [height |-> at.height - Takes(i) + Leaves(i), open |-> at.open]
  PROVE  Emits(c, Emit(c, i), at, next)
<1> DEFINE d == Emit(c, i)
<1>1. /\ Grown(c, d) /\ d \in Contexts /\ Here(d) = Here(c) + 1 /\ d.code[Here(c)] = i
      /\ d.pool = c.pool /\ d.fns = c.fns /\ d.nested = c.nested /\ d.script = c.script
  BY EmitGrown DEF Grown
<1> HIDE DEF d
<1>2. Runs(d, Here(c), at)
  BY <1>1 DEF Runs, ConstantOf
<1>3. Targets(i, Here(c)) = {Here(c) + 1}
  BY DEF Targets, Straight
<1>4. next.open = at.open /\ next = NextPlace(i, at)
  BY DEF NextPlace, Straight
<1>5. Segment(d, Here(c), Here(c) + 1, at, next)
  BY <1>1, <1>2, <1>3, <1>4, ContextType, OneInstruction
<1>6. Emits(c, d, at, next)
  BY <1>1, <1>5 DEF Emits
<1> QED BY <1>6 DEF d

-----------------------------------------------------------------------------
(***************************************************************************)
(* Jumps: one is emitted before what it goes over, and patched after.      *)
(***************************************************************************)
LEMMA PlaceType ==
  ASSUME NEW at, Place(at)
  PROVE  /\ at \in Places /\ at.height \in Nat /\ at.open \in Seq(Trys) /\ Len(at.open) \in Nat
         /\ Floor(at) \in Nat /\ Floor(at) >= 1 /\ Floor(at) <= at.height
         /\ at = [height |-> at.height, open |-> at.open]
<1>1. at \in Places /\ at.height \in Nat /\ at.open \in Seq(Trys) /\ Len(at.open) \in Nat
  BY DEF Place, Places
<1>2. at = [height |-> at.height, open |-> at.open]
  BY <1>1 DEF Places
<1>3. at.open = <<>> \/ Len(at.open) \in 1 .. Len(at.open)
  BY <1>1
<1>4. CASE at.open # <<>>
  <2>1. at.open[Len(at.open)] \in Trys
    BY <1>1, <1>3, <1>4
  <2>2. at.open[Len(at.open)].height >= 1
    BY <1>3, <1>4 DEF Place, Orderly
  <2> QED BY <1>1, <1>2, <1>4, <2>1, <2>2 DEF Floor, Trys, Place
<1>5. CASE at.open = <<>>
  BY <1>1, <1>2, <1>5 DEF Floor, Place
<1> QED BY <1>4, <1>5

\* A place above another that has the same trys open.
LEMMA HigherPlace ==
  ASSUME NEW at, Place(at), NEW n \in Nat
  PROVE  /\ Place([height |-> at.height + n, open |-> at.open])
         /\ Floor([height |-> at.height + n, open |-> at.open]) = Floor(at)
<1> DEFINE y == [height |-> at.height + n, open |-> at.open]
<1>1. at.height \in Nat /\ at.open \in Seq(Trys) /\ Floor(at) \in Nat /\ Floor(at) <= at.height
  BY PlaceType
<1>2. y \in Places /\ y.height = at.height + n /\ y.open = at.open
  BY <1>1 DEF Places
<1>3. Floor(y) = Floor(at)
  BY <1>2 DEF Floor
<1> HIDE DEF y
<1>4. Place(y)
  BY <1>1, <1>2, <1>3 DEF Place
<1> QED BY <1>3, <1>4 DEF y

\* What is laid out in a context stays so while it grows.
LEMMA SegmentGrown ==
  ASSUME NEW d \in Contexts, NEW e, Grown(d, e), NEW a \in Nat, NEW b \in Nat, 1 <= a, b <= Here(d),
         NEW x, NEW y, Segment(d, a, b, x, y)
  PROVE  Segment(e, a, b, x, y)
<1>1. e \in Contexts /\ Here(d) = Len(d.code) + 1 /\ Len(d.code) \in Nat
  BY ContextType DEF Grown
<1>2. \A ip \in a .. b - 1 : ip \in 1 .. Len(d.code)
  BY <1>1
<1>3. \A ip \in a .. b - 1 : e.code[ip] = d.code[ip]
  BY <1>2 DEF Grown, Begins
<1>4. Agrees(d, e, a, b)
  BY <1>3 DEF Agrees, Grown, Begins
<1> QED BY <1>1, <1>4, Transferred

Patched == {"JUMP", "JUMP_IF_FALSE", "TRY"}

\* Patching gives a jump its target, and changes no more than that.
LEMMA PatchContext ==
  ASSUME NEW r \in Contexts, NEW p \in 1 .. Len(r.code), NEW op \in Patched, r.code[p][1] = op
  PROVE  /\ Patch(r, p) \in Contexts /\ Here(Patch(r, p)) = Here(r)
         /\ Patch(r, p).code[p] = <<op, Here(r)>>
         /\ \A ip \in 1 .. Len(r.code) : ip # p => Patch(r, p).code[ip] = r.code[ip]
         /\ Len(Patch(r, p).code) = Len(r.code)
         /\ Patch(r, p).pool = r.pool /\ Patch(r, p).locals = r.locals /\ Patch(r, p).depth = r.depth
         /\ Patch(r, p).nested = r.nested /\ Patch(r, p).script = r.script /\ Patch(r, p).fns = r.fns
         /\ Patch(r, p).err = r.err
<1> DEFINE w == Patch(r, p)
           i == <<op, Here(r)>>
<1>1. r.code \in Seq(Instructions) /\ Here(r) \in Nat /\ Here(r) = Len(r.code) + 1
  BY ContextType
<1>2. i \in Instructions
  BY <1>1 DEF Instructions, Opcodes, Patched, Moving, Peeking
<1>3. w = [r EXCEPT !.code = [r.code EXCEPT ![p] = i]]
  BY DEF Patch
<1>4. /\ [r.code EXCEPT ![p] = i] \in Seq(Instructions)
      /\ Len([r.code EXCEPT ![p] = i]) = Len(r.code)
      /\ [r.code EXCEPT ![p] = i][p] = i
      /\ \A ip \in 1 .. Len(r.code) : ip # p => [r.code EXCEPT ![p] = i][ip] = r.code[ip]
  BY <1>1, <1>2
<1>5. /\ w.code = [r.code EXCEPT ![p] = i] /\ w.pool = r.pool /\ w.locals = r.locals /\ w.depth = r.depth
      /\ w.nested = r.nested /\ w.script = r.script /\ w.fns = r.fns /\ w.err = r.err
  BY <1>3 DEF Contexts
<1>6. w \in Contexts
  BY <1>3, <1>4 DEF Contexts
<1> HIDE DEF w, i
<1>7. Here(w) = Here(r)
  BY <1>4, <1>5 DEF Here
<1> QED BY <1>4, <1>5, <1>6, <1>7 DEF w, i

\* What was there before the jump is still there when it is patched.
LEMMA PatchGrown ==
  ASSUME NEW r \in Contexts, NEW p \in 1 .. Len(r.code), NEW op \in Patched, r.code[p][1] = op,
         NEW c \in Contexts, Grown(c, r), Len(c.code) < p
  PROVE  Grown(c, Patch(r, p))
<1> DEFINE w == Patch(r, p)
<1>1. /\ w \in Contexts /\ Len(w.code) = Len(r.code)
      /\ \A ip \in 1 .. Len(r.code) : ip # p => w.code[ip] = r.code[ip]
      /\ w.pool = r.pool /\ w.fns = r.fns /\ w.nested = r.nested /\ w.script = r.script /\ w.err = r.err
  BY PatchContext
<1> HIDE DEF w
<1>2. Len(c.code) \in Nat /\ Len(r.code) \in Nat /\ Len(c.code) <= Len(r.code)
  BY ContextType DEF Grown, Begins
<1>3. \A ip \in 1 .. Len(c.code) : w.code[ip] = c.code[ip]
  <2>1. \A ip \in 1 .. Len(c.code) : ip # p /\ ip \in 1 .. Len(r.code)
    BY <1>2
  <2> QED BY <1>1, <2>1 DEF Grown, Begins
<1>4. Begins(c.code, w.code)
  BY <1>1, <1>2, <1>3 DEF Begins
<1>5. AllFit(r) => AllFit(w)
  BY <1>1 DEF AllFit
<1>6. Grown(c, w)
  BY <1>1, <1>4, <1>5 DEF Grown
<1> QED BY <1>6 DEF w

\* A segment that the jump is not in stays laid out when it is patched.
LEMMA PatchSegment ==
  ASSUME NEW r \in Contexts, NEW p \in 1 .. Len(r.code), NEW op \in Patched, r.code[p][1] = op,
         NEW a \in Nat, NEW b \in Nat, 1 <= a, b <= Here(r), p < a \/ b <= p,
         NEW x, NEW y, Segment(r, a, b, x, y)
  PROVE  Segment(Patch(r, p), a, b, x, y)
<1> DEFINE w == Patch(r, p)
<1>1. /\ w \in Contexts
      /\ \A ip \in 1 .. Len(r.code) : ip # p => w.code[ip] = r.code[ip]
      /\ w.pool = r.pool /\ w.fns = r.fns /\ w.nested = r.nested /\ w.script = r.script
  BY PatchContext
<1> HIDE DEF w
<1>2. /\ Here(r) = Len(r.code) + 1 /\ Len(r.code) \in Nat /\ Begins(r.pool, r.pool) /\ Len(r.fns) \in Nat
  BY ContextType
<1>3. \A ip \in a .. b - 1 : ip \in 1 .. Len(r.code) /\ ip # p
  BY <1>2
<1>4. Agrees(r, w, a, b)
  BY <1>1, <1>2, <1>3 DEF Agrees
<1>5. Segment(w, a, b, x, y)
  BY <1>1, <1>4, Transferred
<1> QED BY <1>5 DEF w

\* A jump needs nothing of the stack but its test.
LEMMA RunsJump ==
  ASSUME NEW w, NEW p, NEW op \in {"JUMP", "LOOP", "TRY", "JUMP_IF_FALSE"}, NEW k \in Nat,
         w.code[p] = <<op, k>>, NEW at, Place(at), op = "JUMP_IF_FALSE" => 1 <= at.height - Floor(at)
  PROVE  Runs(w, p, at)
<1>1. <<op, k>> \in Instructions
  BY DEF Instructions, Opcodes, Moving, Peeking
<1>2. Takes(<<op, k>>) = IF op = "JUMP_IF_FALSE" THEN 1 ELSE 0
  BY DEF Takes, Pushing, Combining, Arithmetic, Division, Comparison, Replacing, Peeking, Collecting, Moving
<1>3. Takes(<<op, k>>) <= at.height - Floor(at)
  BY <1>2, PlaceType
<1>4. Suffices(<<op, k>>, at, ~w.nested)
  BY <1>3 DEF Suffices, Collecting
<1> QED BY <1>1, <1>4 DEF Runs

\* A jump that is emitted stands where the code ended.
LEMMA EmitJumpGrown ==
  ASSUME NEW c \in Contexts, NEW op \in Patched
  PROVE  /\ EmitJump(c, op) \in Contexts /\ Grown(c, EmitJump(c, op))
         /\ Here(EmitJump(c, op)) = Here(c) + 1 /\ Len(EmitJump(c, op).code) = Here(c)
         /\ EmitJump(c, op).code[Here(c)] = <<op, 0>>
         /\ EmitJump(c, op).locals = c.locals /\ EmitJump(c, op).depth = c.depth
         /\ EmitJump(c, op).err = c.err /\ EmitJump(c, op).nested = c.nested /\ EmitJump(c, op).pool = c.pool
<1>1. <<op, 0>> \in Instructions
  BY DEF Instructions, Opcodes, Patched, Moving, Peeking
<1>2. Here(c) = Len(c.code) + 1 /\ Len(c.code) \in Nat
  BY ContextType
<1> QED BY <1>1, <1>2, EmitGrown DEF EmitJump, Grown

\* What is behind a jump that was just emitted keeps it until it is patched.
LEMMA JumpKept ==
  ASSUME NEW c \in Contexts, NEW op \in Patched, NEW r, Grown(EmitJump(c, op), r)
  PROVE  /\ r \in Contexts /\ Grown(c, r)
         /\ Here(c) \in 1 .. Len(r.code) /\ Len(c.code) < Here(c) /\ Here(c) + 1 <= Here(r)
         /\ r.code[Here(c)] = <<op, 0>> /\ r.code[Here(c)][1] = op
<1>1. /\ EmitJump(c, op) \in Contexts /\ Grown(c, EmitJump(c, op))
      /\ Len(EmitJump(c, op).code) = Here(c) /\ EmitJump(c, op).code[Here(c)] = <<op, 0>>
  BY EmitJumpGrown
<1>2. r \in Contexts /\ Begins(EmitJump(c, op).code, r.code)
  BY DEF Grown
<1>3. Grown(c, r)
  BY <1>1, GrownOn
<1>4. /\ Here(c) \in Nat /\ Here(c) = Len(c.code) + 1 /\ Len(c.code) \in Nat
      /\ Here(r) = Len(r.code) + 1 /\ Len(r.code) \in Nat
  BY <1>2, ContextType
<1>5. Here(c) \in 1 .. Len(r.code) /\ Here(c) \in 1 .. Len(EmitJump(c, op).code)
  BY <1>1, <1>2, <1>4 DEF Begins
<1>6. r.code[Here(c)] = <<op, 0>>
  BY <1>1, <1>2, <1>5 DEF Begins
<1> QED BY <1>2, <1>3, <1>4, <1>5, <1>6

\* What a conditional jump goes over.
LEMMA SkipEmits ==
  ASSUME NEW c \in Contexts, NEW at, Place(at), 1 <= at.height - Floor(at),
         NEW r, Emits(EmitJump(c, "JUMP_IF_FALSE"), r, at, at)
  PROVE  Emits(c, Patch(r, Here(c)), at, at)
<1> DEFINE w == Patch(r, Here(c))
           p == Here(c)
           c1 == EmitJump(c, "JUMP_IF_FALSE")
<1>0. "JUMP_IF_FALSE" \in Patched
  BY DEF Patched
<1>1. /\ r \in Contexts /\ Grown(c, r) /\ p \in 1 .. Len(r.code) /\ Len(c.code) < p
      /\ r.code[p][1] = "JUMP_IF_FALSE" /\ p + 1 <= Here(r) /\ Here(c1) = p + 1
  BY <1>0, JumpKept, EmitJumpGrown DEF Emits
<1>2. /\ w \in Contexts /\ Here(w) = Here(r) /\ w.code[p] = <<"JUMP_IF_FALSE", Here(r)>>
      /\ w.err = r.err /\ w.pool = r.pool
  BY <1>0, <1>1, PatchContext
<1>3. Grown(c, w)
  BY <1>0, <1>1, PatchGrown
<1>4. ASSUME ~w.err, Len(w.pool) <= ByteRange
      PROVE  Segment(w, p, Here(w), at, at)
  <2>1. Segment(r, p + 1, Here(r), at, at)
    BY <1>1, <1>2, <1>4 DEF Emits
  <2>2. p \in Nat /\ p + 1 \in Nat /\ Here(r) \in Nat /\ 1 <= p + 1 /\ Here(r) <= Here(r) /\ p < p + 1
    BY <1>1, ContextType
  <2>3. Segment(w, p + 1, Here(r), at, at)
    BY <1>0, <1>1, <2>1, <2>2, PatchSegment
  <2>4. Runs(w, p, at)
    BY <1>2, <2>2, RunsJump
  <2>5. Segment(w, p, Here(r), at, at)
    BY <1>1, <1>2, <2>2, <2>3, <2>4, SkipSegment
  <2> QED BY <1>2, <2>5
<1>5. Emits(c, w, at, at)
  BY <1>3, <1>4 DEF Emits
<1> QED BY <1>5

\* A branch that a conditional jump leads to or past, and the jump over the other.
LEMMA ForkContext ==
  ASSUME NEW c \in Contexts, NEW r, Grown(EmitJump(c, "JUMP_IF_FALSE"), r),
         NEW v, v = Patch(EmitJump(r, "JUMP"), Here(c))
  PROVE  /\ r \in Contexts /\ Grown(r, EmitJump(r, "JUMP")) /\ EmitJump(r, "JUMP") \in Contexts
         /\ Here(c) \in 1 .. Len(EmitJump(r, "JUMP").code) /\ Here(c) + 1 <= Here(r)
         /\ EmitJump(r, "JUMP").code[Here(c)][1] = "JUMP_IF_FALSE" /\ Here(EmitJump(r, "JUMP")) = Here(r) + 1
         /\ v \in Contexts /\ Grown(c, v) /\ Len(v.code) = Here(r) /\ Here(v) = Here(r) + 1
         /\ v.code[Here(c)] = <<"JUMP_IF_FALSE", Here(r) + 1>> /\ v.code[Here(r)] = <<"JUMP", 0>>
         /\ v.locals = r.locals /\ v.depth = r.depth /\ v.err = r.err /\ v.pool = r.pool
         /\ Here(c) \in Nat /\ Here(r) \in Nat /\ Here(c) >= 1 /\ Here(c) < Here(r)
<1> DEFINE p == Here(c)
           q == Here(r)
           c1 == EmitJump(c, "JUMP_IF_FALSE")
           c2 == EmitJump(r, "JUMP")
<1>0. "JUMP_IF_FALSE" \in Patched /\ "JUMP" \in Patched
  BY DEF Patched
<1>1. r \in Contexts /\ p + 1 <= q /\ Here(c1) = p + 1 /\ c1 \in Contexts
  BY <1>0, JumpKept, EmitJumpGrown
<1>2. /\ c2 \in Contexts /\ Grown(r, c2) /\ Here(c2) = q + 1 /\ Len(c2.code) = q /\ c2.code[q] = <<"JUMP", 0>>
      /\ c2.err = r.err /\ c2.locals = r.locals /\ c2.depth = r.depth /\ c2.pool = r.pool
  BY <1>0, <1>1, EmitJumpGrown
<1>3. Grown(c1, c2)
  BY <1>1, <1>2, GrownOn
<1>4. /\ Grown(c, c2) /\ p \in 1 .. Len(c2.code) /\ Len(c.code) < p /\ c2.code[p][1] = "JUMP_IF_FALSE"
  BY <1>0, <1>3, JumpKept
<1>5. /\ v \in Contexts /\ Here(v) = q + 1 /\ Len(v.code) = q /\ v.code[p] = <<"JUMP_IF_FALSE", q + 1>>
      /\ \A ip \in 1 .. Len(c2.code) : ip # p => v.code[ip] = c2.code[ip]
      /\ v.err = c2.err /\ v.pool = c2.pool /\ v.locals = c2.locals /\ v.depth = c2.depth
  BY <1>0, <1>2, <1>4, PatchContext
<1>6. Grown(c, v)
  BY <1>0, <1>2, <1>4, PatchGrown
<1>7. p \in Nat /\ q \in Nat /\ p >= 1 /\ p < q /\ q \in 1 .. Len(c2.code) /\ q # p
  <2>1. p \in Nat /\ p = Len(c.code) + 1 /\ Len(c.code) \in Nat /\ q \in Nat
    BY <1>1, ContextType
  <2> HIDE DEF p, q, c1, c2
  <2> QED BY <1>1, <1>2, <2>1
<1>8. v.code[q] = <<"JUMP", 0>>
  BY <1>2, <1>5, <1>7
<1> QED BY <1>1, <1>2, <1>4, <1>5, <1>6, <1>7, <1>8

\* The second jump of a fork, patched: it and the first lead to the ends of the branches.
LEMMA ForkClosed ==
  ASSUME NEW c \in Contexts, NEW r, Grown(EmitJump(c, "JUMP_IF_FALSE"), r),
         NEW v, v = Patch(EmitJump(r, "JUMP"), Here(c)), NEW s, Grown(v, s)
  PROVE  /\ s \in Contexts /\ Grown(c, s) /\ Here(r) \in 1 .. Len(s.code) /\ Here(s) \in Nat
         /\ s.code[Here(r)][1] = "JUMP" /\ Here(r) + 1 <= Here(s)
         /\ Grown(c, Patch(s, Here(r))) /\ Patch(s, Here(r)) \in Contexts
         /\ Here(Patch(s, Here(r))) = Here(s) /\ Patch(s, Here(r)).code[Here(r)] = <<"JUMP", Here(s)>>
         /\ Patch(s, Here(r)).code[Here(c)] = <<"JUMP_IF_FALSE", Here(r) + 1>>
         /\ Patch(s, Here(r)).locals = s.locals /\ Patch(s, Here(r)).depth = s.depth
         /\ Patch(s, Here(r)).err = s.err /\ Patch(s, Here(r)).pool = s.pool
<1> DEFINE w == Patch(s, Here(r))
           p == Here(c)
           q == Here(r)
<1>0. "JUMP" \in Patched
  BY DEF Patched
<1>5. /\ v \in Contexts /\ Grown(c, v) /\ Len(v.code) = q
      /\ v.code[p] = <<"JUMP_IF_FALSE", q + 1>> /\ v.code[q] = <<"JUMP", 0>>
      /\ p \in Nat /\ q \in Nat /\ p >= 1 /\ p < q
  BY ForkContext
<1>9. /\ s \in Contexts /\ Grown(c, s) /\ Begins(v.code, s.code) /\ Here(s) = Len(s.code) + 1
      /\ Len(s.code) \in Nat /\ Len(c.code) \in Nat /\ p = Len(c.code) + 1
  <2>1. s \in Contexts /\ Begins(v.code, s.code)
    BY DEF Grown
  <2>2. Grown(c, s)
    BY <1>5, GrownOn
  <2> QED BY <2>1, <2>2, ContextType
<1>10. q \in 1 .. Len(s.code) /\ p \in 1 .. Len(s.code) /\ Len(c.code) < q /\ q + 1 <= Here(s) /\ Here(s) \in Nat
  <2>1. q <= Len(s.code)
    BY <1>5, <1>9 DEF Begins
  <2> HIDE DEF p, q
  <2> QED BY <1>5, <1>9, <2>1
<1>11. s.code[q] = <<"JUMP", 0>> /\ s.code[p] = <<"JUMP_IF_FALSE", q + 1>>
  <2>1. p \in 1 .. Len(v.code) /\ q \in 1 .. Len(v.code)
    <3> HIDE DEF p, q
    <3> QED BY <1>5
  <2> QED BY <1>5, <1>9, <2>1 DEF Begins
<1>12. s.code[q][1] = "JUMP" /\ p # q
  BY <1>5, <1>11
<1>13. /\ w \in Contexts /\ Here(w) = Here(s) /\ w.code[q] = <<"JUMP", Here(s)>>
       /\ w.code[p] = <<"JUMP_IF_FALSE", q + 1>> /\ w.err = s.err /\ w.pool = s.pool
       /\ w.locals = s.locals /\ w.depth = s.depth
  BY <1>0, <1>9, <1>10, <1>11, <1>12, PatchContext
<1>14. Grown(c, w)
  BY <1>0, <1>9, <1>10, <1>12, PatchGrown
<1> QED BY <1>9, <1>10, <1>12, <1>13, <1>14

\* One of two branches.
LEMMA ForkEmits ==
  ASSUME NEW c \in Contexts, NEW x, Place(x), 1 <= x.height - Floor(x), NEW y, Place(y), y.open = x.open,
         NEW r, Emits(EmitJump(c, "JUMP_IF_FALSE"), r, x, y),
         NEW v, v = Patch(EmitJump(r, "JUMP"), Here(c)),
         NEW s, Emits(v, s, x, y)
  PROVE  Emits(c, Patch(s, Here(r)), x, y)
<1> DEFINE w == Patch(s, Here(r))
           p == Here(c)
           q == Here(r)
           c1 == EmitJump(c, "JUMP_IF_FALSE")
           c2 == EmitJump(r, "JUMP")
<1>0. "JUMP_IF_FALSE" \in Patched /\ "JUMP" \in Patched /\ Grown(c1, r) /\ Grown(v, s)
  BY DEF Patched, Emits
<1>1. Here(c1) = p + 1
  BY <1>0, EmitJumpGrown
<1>2. /\ r \in Contexts /\ Grown(r, c2) /\ c2 \in Contexts /\ p \in 1 .. Len(c2.code) /\ p + 1 <= q
      /\ c2.code[p][1] = "JUMP_IF_FALSE" /\ Here(c2) = q + 1 /\ v \in Contexts /\ Here(v) = q + 1
      /\ v.err = r.err /\ v.pool = r.pool /\ p \in Nat /\ q \in Nat /\ p >= 1 /\ p < q
  BY <1>0, ForkContext
<1>3. /\ s \in Contexts /\ q \in 1 .. Len(s.code) /\ Here(s) \in Nat /\ s.code[q][1] = "JUMP" /\ q + 1 <= Here(s)
      /\ Grown(c, w) /\ w \in Contexts /\ Here(w) = Here(s) /\ w.code[q] = <<"JUMP", Here(s)>>
      /\ w.code[p] = <<"JUMP_IF_FALSE", q + 1>> /\ w.err = s.err /\ w.pool = s.pool
  BY <1>0, ForkClosed
<1>15. ASSUME ~w.err, Len(w.pool) <= ByteRange
       PROVE  Segment(w, p, Here(w), x, y)
  <2>1. ~s.err /\ Len(s.pool) <= ByteRange /\ ~r.err /\ Len(r.pool) <= ByteRange
    <3>1. Len(r.pool) \in Nat /\ Len(s.pool) \in Nat
      BY <1>2, <1>3, ContextType
    <3>2. Len(r.pool) <= Len(s.pool) /\ (r.err => s.err)
      BY <1>0, <1>2 DEF Grown, Begins
    <3>3. ~s.err /\ Len(s.pool) <= ByteRange
      BY <1>3, <1>15
    <3> HIDE DEF w
    <3> QED BY <3>1, <3>2, <3>3, LimitsAssumption
  <2>2. Segment(r, p + 1, q, x, y) /\ Segment(s, q + 1, Here(s), x, y)
    BY <1>1, <1>2, <2>1 DEF Emits
  <2>0. /\ p + 1 \in Nat /\ q + 1 \in Nat /\ 1 <= p + 1 /\ 1 <= q + 1 /\ q <= Here(r) /\ q <= Here(c2) /\ q <= Here(v)
        /\ q <= Here(s) /\ q <= q /\ p < p + 1 /\ q < q + 1 /\ Here(s) <= Here(s)
    <3>1. Here(r) = q
      OBVIOUS
    <3> HIDE DEF p, q, c2
    <3> QED BY <1>2, <1>3, <3>1
  <2>3. Segment(c2, p + 1, q, x, y)
    BY <1>2, <2>0, <2>2, SegmentGrown
  <2>4. Segment(v, p + 1, q, x, y)
    BY <1>0, <1>2, <2>0, <2>3, PatchSegment
  <2>5. Segment(s, p + 1, q, x, y)
    BY <1>0, <1>2, <2>0, <2>4, SegmentGrown
  <2>6. Segment(w, p + 1, q, x, y)
    BY <1>0, <1>2, <1>3, <2>0, <2>5, PatchSegment
  <2>7. Segment(w, q + 1, Here(s), x, y)
    BY <1>0, <1>3, <2>0, <2>2, PatchSegment
  <2>8. Runs(w, p, x) /\ Runs(w, q, y)
    BY <1>3, <2>0, RunsJump
  <2>9. Segment(w, p, Here(s), x, y)
    <3> HIDE DEF w, p, q
    <3> QED BY <1>2, <1>3, <2>6, <2>7, <2>8, ForkSegment
  <2> QED BY <1>3, <2>9
<1>16. Emits(c, w, x, y)
  BY <1>3, <1>15 DEF Emits
<1> QED BY <1>16

\* A test, and a body that ends in a jump back to the test.
LEMMA LoopEmits ==
  ASSUME NEW c \in Contexts, NEW x, NEW y, Place(x), Place(y), y.open = x.open, 1 <= y.height - Floor(y),
         NEW t, Emits(c, t, x, y), NEW r, Emits(EmitJump(t, "JUMP_IF_FALSE"), r, y, x)
  PROVE  Emits(c, Patch(Emit(r, <<"LOOP", Here(c)>>), Here(t)), x, y)
<1> DEFINE a == Here(c)
           p == Here(t)
           q == Here(r)
           c1 == EmitJump(t, "JUMP_IF_FALSE")
           l == Emit(r, <<"LOOP", a>>)
           w == Patch(l, p)
<1>0. "JUMP_IF_FALSE" \in Patched
  BY DEF Patched
<1>1. t \in Contexts /\ Grown(c, t) /\ Grown(c1, r)
  BY DEF Emits, Grown
<1>2. c1 \in Contexts /\ Here(c1) = p + 1
  BY <1>0, <1>1, EmitJumpGrown
<1>3. /\ r \in Contexts /\ Grown(t, r) /\ p \in 1 .. Len(r.code) /\ Len(t.code) < p /\ p + 1 <= q
      /\ r.code[p][1] = "JUMP_IF_FALSE"
  BY <1>0, <1>1, JumpKept
<1>4. /\ a \in Nat /\ a = Len(c.code) + 1 /\ p \in Nat /\ q \in Nat /\ q = Len(r.code) + 1 /\ Len(r.code) \in Nat
      /\ Len(c.code) \in Nat
  BY <1>1, <1>3, ContextType
<1>5. Len(c.code) < p /\ a <= p
  <2>1. Len(c.code) <= Len(t.code) /\ Len(t.code) \in Nat /\ p = Len(t.code) + 1
    BY <1>1, ContextType DEF Grown, Begins
  <2> HIDE DEF a, p
  <2> QED BY <1>4, <2>1
<1>6. <<"LOOP", a>> \in Instructions
  BY <1>4 DEF Instructions, Opcodes, Moving
<1>7. /\ l \in Contexts /\ Grown(r, l) /\ Len(l.code) = q /\ Here(l) = q + 1 /\ l.code[q] = <<"LOOP", a>>
      /\ l.err = r.err /\ l.pool = r.pool
  BY <1>3, <1>4, <1>6, EmitGrown
<1>8. p \in 1 .. Len(l.code) /\ l.code[p][1] = "JUMP_IF_FALSE"
  <2>1. p \in 1 .. Len(l.code)
    BY <1>3, <1>4, <1>7
  <2> QED BY <1>3, <1>7, <2>1 DEF Grown, Begins
<1>9. Grown(c, l)
  <2>1. Grown(c, r)
    BY <1>1, <1>3, GrownOn
  <2> QED BY <1>7, <2>1, GrownOn
<1>10. /\ w \in Contexts /\ Here(w) = q + 1 /\ w.code[p] = <<"JUMP_IF_FALSE", q + 1>> /\ w.code[q] = <<"LOOP", a>>
       /\ w.err = r.err /\ w.pool = r.pool
  <2>1. q \in 1 .. Len(l.code) /\ q # p
    BY <1>3, <1>4, <1>7
  <2> QED BY <1>0, <1>7, <1>8, <2>1, PatchContext
<1>11. Grown(c, w)
  BY <1>0, <1>5, <1>7, <1>8, <1>9, PatchGrown
<1>12. ASSUME ~w.err, Len(w.pool) <= ByteRange
       PROVE  Segment(w, a, Here(w), x, y)
  <2>1. ~r.err /\ Len(r.pool) <= ByteRange /\ ~t.err
    BY <1>3, <1>10, <1>12 DEF Grown
  <2>2. Len(t.pool) <= ByteRange
    <3>1. Len(r.pool) <= ByteRange => Len(t.pool) <= ByteRange
      BY <1>1, <1>3, GrownSmaller
    <3> QED BY <2>1, <3>1
  <2>3. Segment(t, a, p, x, y) /\ Segment(r, p + 1, q, y, x)
    BY <1>2, <2>1, <2>2 DEF Emits
  <2>4. /\ p + 1 \in Nat /\ 1 <= a /\ 1 <= p + 1 /\ p <= p /\ p <= Here(l) /\ q <= Here(r) /\ q <= Here(l) /\ p < p + 1
    <3>1. Here(l) = q + 1 /\ p + 1 <= q /\ Here(r) = q
      BY <1>3, <1>7
    <3> HIDE DEF a, p, q, l
    <3> QED BY <1>4, <3>1
  <2>5. Grown(t, l)
    BY <1>1, <1>3, <1>7, GrownOn
  <2>6. Segment(l, a, p, x, y) /\ Segment(l, p + 1, q, y, x)
    BY <1>1, <1>3, <1>4, <1>7, <2>3, <2>4, <2>5, SegmentGrown
  <2>7. Segment(w, a, p, x, y) /\ Segment(w, p + 1, q, y, x)
    BY <1>0, <1>4, <1>7, <1>8, <2>4, <2>6, PatchSegment
  <2>8. Runs(w, p, y) /\ Runs(w, q, x)
    <3>1. q + 1 \in Nat
      BY <1>4
    <3> QED BY <1>4, <1>10, <3>1, RunsJump
  <2>9. Segment(w, a, q + 1, x, y)
    <3> HIDE DEF w, a, p, q
    <3> QED BY <1>3, <1>4, <1>5, <1>10, <2>7, <2>8, LoopSegment
  <2> QED BY <1>10, <2>9
<1>13. Emits(c, w, x, y)
  BY <1>11, <1>12 DEF Emits
<1> QED BY <1>13

\* A try and its handler.
LEMMA TryEmits ==
  ASSUME NEW c \in Contexts, NEW x, Place(x),
         NEW b, \A k \in Nat : Emits(EmitJump(c, "TRY"), b, Opened(x, k), Opened(x, k)),
         NEW v, v = Patch(EmitJump(Emit(b, <<"TRY_END">>), "JUMP"), Here(c)),
         NEW s, Emits(v, s, Up(x), x)
  PROVE  v \in Contexts /\ Grown(c, v) /\ Len(v.code) = Here(b) + 1 /\ Emits(c, Patch(s, Here(b) + 1), x, x)
<1> DEFINE p == Here(c)
           r == Here(b)
           q == Here(b) + 1
           c1 == EmitJump(c, "TRY")
           d == Emit(b, <<"TRY_END">>)
           c2 == EmitJump(d, "JUMP")
           w == Patch(s, q)
           y == Opened(x, r + 2)
<1>0. "TRY" \in Patched /\ "JUMP" \in Patched /\ <<"TRY_END">> \in Instructions /\ 0 \in Nat
  BY DEF Patched, Instructions, Opcodes, Moving
<1>1. Grown(c1, b)
  BY <1>0 DEF Emits
<1>2. /\ b \in Contexts /\ p + 1 <= r /\ Here(c1) = p + 1 /\ c1 \in Contexts
  BY <1>0, <1>1, JumpKept, EmitJumpGrown
<1>3. /\ p \in Nat /\ p >= 1 /\ p = Len(c.code) + 1 /\ r \in Nat /\ q \in Nat /\ q = r + 1
  <2>1. p \in Nat /\ p = Len(c.code) + 1 /\ Len(c.code) \in Nat /\ r \in Nat /\ q = r + 1
    BY <1>2, ContextType
  <2> HIDE DEF p, r, q
  <2> QED BY <2>1
<1>4. /\ d \in Contexts /\ Grown(b, d) /\ Here(d) = q /\ Len(d.code) = Len(b.code) + 1 /\ d.code[r] = <<"TRY_END">>
      /\ d.err = b.err /\ d.pool = b.pool
  <2>1. PICK e : e = Emit(b, <<"TRY_END">>)
    OBVIOUS
  <2>2. /\ e \in Contexts /\ Grown(b, e) /\ Here(e) = Here(b) + 1 /\ Len(e.code) = Len(b.code) + 1
        /\ e.code[Here(b)] = <<"TRY_END">> /\ e.err = b.err /\ e.pool = b.pool
    BY <1>0, <1>2, <2>1, EmitGrown
  <2>3. d = e /\ q = Here(b) + 1 /\ r = Here(b)
    BY <2>1
  <2> HIDE DEF d, q, r
  <2> QED BY <2>2, <2>3
<1>5. /\ c2 \in Contexts /\ Grown(d, c2) /\ Here(c2) = q + 1 /\ Len(c2.code) = q /\ c2.code[q] = <<"JUMP", 0>>
      /\ c2.err = d.err
  <2>1. d \in Contexts /\ Here(d) = q
    BY <1>4
  <2> HIDE DEF d, q
  <2>2. /\ c2 \in Contexts /\ Grown(d, c2) /\ Here(c2) = Here(d) + 1 /\ Len(c2.code) = Here(d)
        /\ c2.code[Here(d)] = <<"JUMP", 0>> /\ c2.err = d.err
    BY <1>0, <2>1, EmitJumpGrown
  <2> HIDE DEF c2
  <2> QED BY <2>1, <2>2
<1>6. Grown(b, c2)
  BY <1>2, <1>4, <1>5, GrownOn
<1>7. Grown(c1, c2)
  BY <1>1, <1>2, <1>6, GrownOn
<1>8. Grown(c, c2) /\ p \in 1 .. Len(c2.code) /\ Len(c.code) < p /\ c2.code[p][1] = "TRY"
  BY <1>0, <1>7, JumpKept
<1>9. /\ r \in 1 .. Len(c2.code) /\ q \in 1 .. Len(c2.code) /\ r # p /\ q # p /\ r + 2 = q + 1
  <2> HIDE DEF c2, p, r, q
  <2> QED BY <1>2, <1>3, <1>5
<1>10. c2.code[r] = <<"TRY_END">>
  <2>1. Here(b) = Len(b.code) + 1 /\ Len(b.code) \in Nat
    BY <1>2, ContextType
  <2>2. r \in 1 .. Len(d.code)
    BY <1>4, <2>1
  <2> QED BY <1>4, <1>5, <2>2 DEF Grown, Begins
<1>11. /\ v \in Contexts /\ Here(v) = q + 1 /\ Len(v.code) = q /\ v.code[p] = <<"TRY", q + 1>>
       /\ v.code[r] = <<"TRY_END">> /\ v.code[q] = <<"JUMP", 0>>
       /\ v.err = c2.err /\ v.pool = c2.pool
  <2>1. /\ v \in Contexts /\ Here(v) = Here(c2) /\ Len(v.code) = Len(c2.code) /\ v.code[p] = <<"TRY", Here(c2)>>
        /\ \A ip \in 1 .. Len(c2.code) : ip # p => v.code[ip] = c2.code[ip]
        /\ v.err = c2.err /\ v.pool = c2.pool
    BY <1>0, <1>5, <1>8, PatchContext
  <2> HIDE DEF c2, p, r, q
  <2> QED BY <1>5, <1>9, <1>10, <2>1
<1>12. Grown(c, v)
  BY <1>0, <1>5, <1>8, PatchGrown
<1>13. /\ s \in Contexts /\ Grown(v, s) /\ Grown(c, s) /\ Begins(v.code, s.code) /\ Here(s) = Len(s.code) + 1
       /\ Len(s.code) \in Nat
  <2>1. Grown(v, s)
    BY DEF Emits
  <2>2. s \in Contexts /\ Begins(v.code, s.code)
    BY <2>1 DEF Grown
  <2>3. Grown(c, s)
    BY <1>12, <2>1, GrownOn
  <2> QED BY <2>1, <2>2, <2>3, ContextType
<1>14. /\ q \in 1 .. Len(s.code) /\ r \in 1 .. Len(s.code) /\ p \in 1 .. Len(s.code) /\ Len(c.code) < q
       /\ q + 1 <= Here(s)
  <2>1. q <= Len(s.code)
    BY <1>11, <1>13 DEF Begins
  <2>2. p + 1 <= r /\ p \in Nat /\ p >= 1 /\ r \in Nat /\ q = r + 1 /\ Len(c.code) < p /\ Len(c.code) \in Nat
    BY <1>2, <1>3, <1>8, ContextType
  <2> HIDE DEF p, r, q
  <2> QED BY <1>13, <2>1, <2>2
<1>15. s.code[q] = <<"JUMP", 0>> /\ s.code[p] = <<"TRY", q + 1>> /\ s.code[r] = <<"TRY_END">>
  <2>1. p \in 1 .. Len(v.code) /\ q \in 1 .. Len(v.code) /\ r \in 1 .. Len(v.code)
    BY <1>5, <1>8, <1>9, <1>11
  <2> QED BY <1>11, <1>13, <2>1 DEF Begins
<1>16. s.code[q][1] = "JUMP"
  BY <1>15
<1>17. /\ w \in Contexts /\ Here(w) = Here(s) /\ w.code[q] = <<"JUMP", Here(s)>>
       /\ w.code[p] = <<"TRY", q + 1>> /\ w.code[r] = <<"TRY_END">> /\ w.err = s.err /\ w.pool = s.pool
  <2>1. r # q /\ p # q
    BY <1>3, <1>9
  <2> QED BY <1>0, <1>13, <1>14, <1>15, <1>16, <2>1, PatchContext
<1>18. Grown(c, w)
  BY <1>0, <1>13, <1>14, <1>16, PatchGrown
<1>19. ASSUME ~w.err, Len(w.pool) <= ByteRange
       PROVE  Segment(w, p, Here(w), x, x)
  <2>1. ~s.err /\ Len(s.pool) <= ByteRange /\ ~b.err /\ Len(b.pool) <= ByteRange
    <3>1. Len(b.pool) \in Nat /\ Len(c2.pool) \in Nat /\ Len(v.pool) \in Nat /\ Len(s.pool) \in Nat
      BY <1>2, <1>5, <1>11, <1>13, ContextType
    <3>2. Len(b.pool) <= Len(c2.pool) /\ Len(v.pool) <= Len(s.pool) /\ v.pool = c2.pool
      BY <1>6, <1>11, <1>13 DEF Grown, Begins
    <3>3. ~s.err /\ ~v.err /\ ~b.err
      BY <1>4, <1>5, <1>11, <1>13, <1>17, <1>19 DEF Grown
    <3>4. Len(s.pool) <= ByteRange
      BY <1>17, <1>19
    <3> HIDE DEF c2, w
    <3> QED BY <3>1, <3>2, <3>3, <3>4, LimitsAssumption
  <2>2. Segment(b, p + 1, r, y, y)
    <3>1. r + 2 \in Nat
      BY <1>3
    <3> QED BY <1>2, <2>1, <3>1 DEF Emits
  <2>3. Segment(s, q + 1, Here(s), Up(x), x)
    BY <1>11, <2>1 DEF Emits
  <2>0. /\ p + 1 \in Nat /\ q + 1 \in Nat /\ Here(s) \in Nat /\ 1 <= p + 1 /\ 1 <= q + 1 /\ r <= Here(b) /\ r <= Here(c2)
        /\ r <= Here(v) /\ r <= Here(s) /\ r <= q /\ p < p + 1 /\ q < q + 1 /\ Here(s) <= Here(s)
    <3>1. p >= 1 /\ p \in Nat /\ r \in Nat /\ q = r + 1 /\ Here(b) = r
      BY <1>3
    <3>2. Here(c2) = q + 1 /\ Here(v) = q + 1 /\ Here(s) = Len(s.code) + 1 /\ Len(s.code) \in Nat /\ q + 1 <= Here(s)
      BY <1>5, <1>11, <1>13, <1>14
    <3>3. PICK n \in Nat : n = Len(s.code)
      BY <3>2
    <3> HIDE DEF p, c2, r, q
    <3> QED BY <3>1, <3>2, <3>3
  <2>4. Segment(c2, p + 1, r, y, y)
    BY <1>2, <1>3, <1>6, <2>0, <2>2, SegmentGrown
  <2>5. Segment(v, p + 1, r, y, y)
    BY <1>0, <1>3, <1>5, <1>8, <2>0, <2>4, PatchSegment
  <2>6. Segment(s, p + 1, r, y, y)
    BY <1>3, <1>11, <1>13, <2>0, <2>5, SegmentGrown
  <2>7. Segment(w, p + 1, r, y, y)
    BY <1>0, <1>3, <1>13, <1>14, <1>16, <2>0, <2>6, PatchSegment
  <2>8. Segment(w, q + 1, Here(s), Up(x), x)
    BY <1>0, <1>13, <1>14, <1>16, <2>0, <2>3, PatchSegment
  <2>9. Place(y) /\ y.open # <<>>
    <3>1. Place(y)
      BY <1>2, <1>3, <2>0, <2>7, EndsOf
    <3>2. r + 2 \in Nat
      BY <1>3
    <3> QED BY <3>1, <3>2, TryPlaces
  <2>10. Runs(w, p, x) /\ Runs(w, q, x)
    BY <1>17, <2>0, RunsJump
  <2>11. Runs(w, r, y)
    <3>1. Takes(<<"TRY_END">>) = 0
      BY DEF Takes, Pushing, Combining, Arithmetic, Division, Comparison, Replacing, Peeking, Collecting, Moving
    <3>2. Takes(<<"TRY_END">>) <= y.height - Floor(y)
      BY <2>9, <3>1, PlaceType
    <3>3. Suffices(<<"TRY_END">>, y, ~w.nested)
      BY <2>9, <3>2 DEF Suffices, Collecting
    <3> QED BY <1>0, <1>17, <3>3 DEF Runs
  <2>12. Segment(w, p, Here(s), x, x)
    <3>1. r + 2 = q + 1 /\ r + 1 = q /\ r + 2 <= Here(s)
      BY <1>3, <1>14
    <3> HIDE DEF w, p, r
    <3> QED BY <1>2, <1>3, <1>17, <2>0, <2>7, <2>8, <2>10, <2>11, <3>1, TrySegment
  <2> QED BY <1>17, <2>12
<1>20. Emits(c, w, x, x)
  BY <1>18, <1>19 DEF Emits
<1> QED BY <1>11, <1>12, <1>20

-----------------------------------------------------------------------------
(***************************************************************************)
(* Code that leaves a number of values on the stack.                       *)
(***************************************************************************)
Raised(at, n) == [height |-> at.height + n, open |-> at.open]

\* Slot 0 has no name, and the other locals are on the stack.
Grounded(c, at) == c.locals = <<>> \/ (c.locals[1].name = NoName /\ Len(c.locals) <= at.height)

Pushed(c, d, n) ==
  /\ Grown(c, d) /\ d.locals = c.locals /\ d.depth = c.depth
  /\ \A at : Place(at) /\ Grounded(c, at) => Emits(c, d, at, Raised(at, n))

\* The place with a number of values more.
LEMMA RaisedPlace ==
  ASSUME NEW at, Place(at), NEW m \in Nat
  PROVE  /\ Place(Raised(at, m)) /\ Floor(Raised(at, m)) = Floor(at) /\ Raised(at, m).open = at.open
         /\ Raised(at, m).height = at.height + m /\ Raised(at, 0) = at /\ Up(at) = Raised(at, 1)
         /\ \A n \in Nat : Raised(Raised(at, m), n) = Raised(at, m + n)
<1>1. at.height \in Nat /\ at = [height |-> at.height, open |-> at.open]
  BY PlaceType
<1>2. Raised(at, 0) = at
  <2>1. at.height + 0 = at.height
    BY <1>1
  <2> QED BY <1>1, <2>1 DEF Raised
<1>3. ASSUME NEW n \in Nat PROVE Raised(Raised(at, m), n) = Raised(at, m + n)
  <2>1. (at.height + m) + n = at.height + (m + n)
    BY <1>1
  <2> QED BY <2>1 DEF Raised
<1> QED BY <1>2, <1>3, HigherPlace DEF Raised, Up

\* Locals that are on the stack are there below more values.
LEMMA GroundedRaised ==
  ASSUME NEW c \in Contexts, NEW at, Place(at), Grounded(c, at), NEW n \in Nat
  PROVE  Grounded(c, Raised(at, n))
<1>1. at.height \in Nat /\ Len(c.locals) \in Nat /\ Raised(at, n).height = at.height + n
  BY PlaceType, ContextType DEF Raised
<1>2. Len(c.locals) <= at.height => Len(c.locals) <= Raised(at, n).height
  BY <1>1
<1> QED BY <1>2 DEF Grounded

\* No code leaves no value.
LEMMA PushedNothing ==
  ASSUME NEW c \in Contexts
  PROVE  Pushed(c, c, 0)
<1>1. Grown(c, c)
  BY ContextType DEF Grown
<1>2. ASSUME NEW at, Place(at) PROVE Emits(c, c, at, Raised(at, 0))
  <2>1. Segment(c, Here(c), Here(c), at, at)
    BY <1>2, NoCode, ContextType
  <2>2. Raised(at, 0) = at
    BY <1>2, RaisedPlace
  <2> QED BY <1>1, <2>1, <2>2 DEF Emits
<1> QED BY <1>1, <1>2 DEF Pushed

\* Values are left on top of others.
LEMMA PushedOn ==
  ASSUME NEW c \in Contexts, NEW d, NEW e, NEW m \in Nat, NEW n \in Nat, Pushed(c, d, m), Pushed(d, e, n)
  PROVE  Pushed(c, e, m + n)
<1>1. Grown(c, e) /\ d.locals = c.locals /\ e.locals = c.locals /\ e.depth = c.depth
  BY GrownOn DEF Pushed
<1>2. ASSUME NEW at, Place(at), Grounded(c, at) PROVE Emits(c, e, at, Raised(at, m + n))
  <2>1. Emits(c, d, at, Raised(at, m))
    BY <1>2 DEF Pushed
  <2>2. /\ Place(Raised(at, m)) /\ Raised(at, m).open = at.open
        /\ Raised(Raised(at, m), n) = Raised(at, m + n)
    BY <1>2, RaisedPlace
  <2>3. Grounded(d, Raised(at, m))
    BY <1>1, <1>2, GroundedRaised DEF Grounded
  <2>4. Emits(d, e, Raised(at, m), Raised(at, m + n))
    BY <2>2, <2>3 DEF Pushed
  <2> QED BY <2>1, <2>2, <2>4, EmitsOn
<1> QED BY <1>1, <1>2 DEF Pushed

\* An instruction that takes some of what was just left.
LEMMA PushedThen ==
  ASSUME NEW c \in Contexts, NEW d, NEW n \in Nat, Pushed(c, d, n), NEW i \in Instructions,
         i[1] \in Straight, i[1] \in Collecting => i[2] \in Nat,
         NEW t \in 0 .. n, Takes(i) = t, NEW l \in Nat, Leaves(i) = l,
         \A at : Place(at) /\ Grounded(c, at) /\ i[1] \in {"GET_LOCAL", "SET_LOCAL"} =>
           i[2] \in 1 .. Raised(at, n).height - 1,
         i[1] = "CONST" => i[2] + 1 \in 1 .. Len(d.pool) /\ ConstantOf(d, d.pool[i[2] + 1])
  PROVE  Pushed(c, Emit(d, i), n - t + l)
<1>1. d \in Contexts /\ Grown(c, d) /\ d.locals = c.locals /\ d.depth = c.depth
  BY DEF Pushed, Grown
<1> DEFINE e == Emit(d, i)
<1>2. Grown(c, e) /\ e.locals = c.locals /\ e.depth = c.depth
  BY <1>1, EmitGrown, GrownOn
<1>3. ASSUME NEW at, Place(at), Grounded(c, at) PROVE Emits(c, e, at, Raised(at, n - t + l))
  <2> DEFINE x == Raised(at, n)
             y == Raised(at, n - t + l)
  <2>0. n - t + l \in Nat /\ at.height \in Nat
    BY <1>3, PlaceType
  <2>1. Emits(c, d, at, x)
    BY <1>3 DEF Pushed
  <2>2. Place(x) /\ x.open = at.open /\ x.height = at.height + n /\ Floor(x) = Floor(at)
    BY <1>3, RaisedPlace
  <2>3. Place(y) /\ y.open = at.open
    BY <1>3, <2>0, RaisedPlace
  <2>4. y = [height |-> x.height - Takes(i) + Leaves(i), open |-> x.open]
    <3>1. at.height + (n - t + l) = x.height - Takes(i) + Leaves(i)
      BY <2>0, <2>2
    <3> HIDE DEF x
    <3> QED BY <2>2, <3>1 DEF Raised
  <2>5. Suffices(i, x, ~d.nested)
    <3>1. Takes(i) <= x.height - Floor(x)
      <4>1. Floor(at) <= at.height /\ Floor(at) \in Nat
        BY <1>3, PlaceType
      <4> HIDE DEF x
      <4> QED BY <2>0, <2>2, <4>1
    <3>2. i[1] \in {"GET_LOCAL", "SET_LOCAL"} => i[2] \in 1 .. x.height - 1
      BY <1>3
    <3> HIDE DEF x
    <3> QED BY <3>1, <3>2 DEF Suffices, Straight
  <2>6. Emits(d, e, x, y)
    <3> HIDE DEF x, y
    <3> QED BY <1>1, <2>2, <2>3, <2>4, <2>5, EmitOne
  <2> HIDE DEF x, y, e
  <2>7. Emits(c, e, at, y)
    BY <2>1, <2>2, <2>6, EmitsOn
  <2> QED BY <2>7 DEF y
<1> QED BY <1>2, <1>3 DEF Pushed

\* A constant is put into the pool, or an error is noted: the code stays.
LEMMA AddConstantGrown ==
  ASSUME NEW c \in Contexts, NEW v \in Constants
  PROVE  /\ Grown(c, AddConstant(c, v)) /\ AddConstant(c, v) \in Contexts
         /\ AddConstant(c, v).code = c.code /\ Here(AddConstant(c, v)) = Here(c)
         /\ AddConstant(c, v).locals = c.locals /\ AddConstant(c, v).depth = c.depth
         /\ AddConstant(c, v).err = c.err /\ AddConstant(c, v).fns = c.fns
         /\ Len(AddConstant(c, v).pool) = Len(c.pool) + 1 /\ AddConstant(c, v).pool[Len(c.pool) + 1] = v
<1> DEFINE d == AddConstant(c, v)
<1>1. /\ d.code = c.code /\ d.pool = Append(c.pool, v) /\ d.locals = c.locals /\ d.depth = c.depth
      /\ d.nested = c.nested /\ d.script = c.script /\ d.fns = c.fns /\ d.err = c.err
  BY DEF AddConstant, Contexts
<1>2. /\ Append(c.pool, v) \in Seq(Constants) /\ Begins(c.pool, Append(c.pool, v))
      /\ Len(Append(c.pool, v)) = Len(c.pool) + 1 /\ Append(c.pool, v)[Len(c.pool) + 1] = v
  BY ContextType, BeginsAppend
<1>3. d \in Contexts
  BY <1>2 DEF AddConstant, Contexts
<1> HIDE DEF d
<1>4. AllFit(c) => AllFit(d)
  BY <1>1 DEF AllFit
<1>5. Grown(c, d)
  BY <1>1, <1>2, <1>3, <1>4, ContextType DEF Grown
<1>6. Here(d) = Here(c)
  BY <1>1 DEF Here
<1> QED BY <1>1, <1>2, <1>3, <1>5, <1>6 DEF d

\* A limit that is passed is an error, and changes no more than that.
LEMMA CheckedGrown ==
  ASSUME NEW c \in Contexts, NEW ok \in BOOLEAN
  PROVE  /\ Grown(c, Checked(c, ok)) /\ Checked(c, ok) \in Contexts
         /\ Checked(c, ok).code = c.code /\ Here(Checked(c, ok)) = Here(c)
         /\ Checked(c, ok).locals = c.locals /\ Checked(c, ok).depth = c.depth
         /\ Checked(c, ok).pool = c.pool /\ Checked(c, ok).fns = c.fns
         /\ ~Checked(c, ok).err => ok /\ Checked(c, ok) = c
<1> DEFINE d == Checked(c, ok)
<1>1. CASE ok
  <2>1. d = c
    BY <1>1 DEF Checked
  <2>2. Grown(c, c)
    BY ContextType DEF Grown
  <2> QED BY <1>1, <2>1, <2>2
<1>2. CASE ~ok
  <2>1. /\ d.code = c.code /\ d.pool = c.pool /\ d.locals = c.locals /\ d.depth = c.depth
        /\ d.nested = c.nested /\ d.script = c.script /\ d.fns = c.fns /\ d.err = TRUE
    BY <1>2 DEF Checked, Contexts
  <2>2. d \in Contexts
    BY <1>2 DEF Checked, Contexts
  <2> HIDE DEF d
  <2>3. Grown(c, d)
    BY <2>1, <2>2, ContextType DEF Grown
  <2>4. Here(d) = Here(c)
    BY <2>1 DEF Here
  <2> QED BY <1>2, <2>1, <2>2, <2>3, <2>4 DEF d
<1> QED BY <1>1, <1>2

\* What a byte holds is not changed when it is cut to one.
LEMMA Byte ==
  ASSUME NEW x \in Nat
  PROVE  x % ByteRange \in Nat /\ (x < ByteRange => x % ByteRange = x)
BY LimitsAssumption

\* An instruction with the index of the constant that was added for it.
LEMMA PushedConst ==
  ASSUME NEW c \in Contexts, NEW d, NEW n \in Nat, Pushed(c, d, n), NEW v \in Constants,
         NEW op \in Straight \ (Collecting \cup {"GET_LOCAL", "SET_LOCAL"}), op = "CONST" => ConstantOf(d, v),
         NEW t \in 0 .. n, NEW l \in Nat, \A k \in Nat : Takes(<<op, k>>) = t /\ Leaves(<<op, k>>) = l
  PROVE  /\ Pushed(c, Emit(AddConstant(d, v), <<op, Len(d.pool) % ByteRange>>), n - t + l)
         /\ Pushed(c, WithConst(d, op, v), n - t + l)
<1> DEFINE a == AddConstant(d, v)
           k == Len(d.pool) % ByteRange
           e == Emit(a, <<op, k>>)
<1>1. d \in Contexts /\ Len(d.pool) \in Nat /\ k \in Nat
  <2>1. d \in Contexts
    BY DEF Pushed, Grown
  <2>2. Len(d.pool) \in Nat
    BY <2>1, ContextType
  <2> QED BY <2>1, <2>2, Byte
<1>2. /\ Grown(d, a) /\ a \in Contexts /\ Here(a) = Here(d) /\ a.locals = d.locals /\ a.depth = d.depth
      /\ a.err = d.err /\ a.fns = d.fns /\ Len(a.pool) = Len(d.pool) + 1 /\ a.pool[Len(d.pool) + 1] = v
  BY <1>1, AddConstantGrown
<1>3. a.script = d.script /\ a.nested = d.nested
  BY <1>2 DEF Grown
<1>4. <<op, k>> \in Instructions
  BY <1>1 DEF Instructions, Straight
<1> HIDE DEF a, k
<1>5. Grown(d, e) /\ e.locals = d.locals /\ e.depth = d.depth /\ e.err = d.err /\ e.pool = a.pool /\ e \in Contexts
  BY <1>1, <1>2, <1>4, EmitGrown, GrownOn
<1>7. ASSUME NEW at, Place(at), Grounded(d, Raised(at, n))
      PROVE  Emits(d, e, Raised(at, n), Raised(at, n - t + l))
  <2> DEFINE x == Raised(at, n)
             y == Raised(at, n - t + l)
  <2>0. n - t + l \in Nat /\ at.height \in Nat
    BY <1>7, PlaceType
  <2>1. Place(x) /\ x.open = at.open /\ x.height = at.height + n /\ Floor(x) = Floor(at)
    BY <1>7, RaisedPlace
  <2>2. Place(y) /\ y.open = at.open
    BY <1>7, <2>0, RaisedPlace
  <2>3. Takes(<<op, k>>) = t /\ Leaves(<<op, k>>) = l
    BY <1>1
  <2>4. y = [height |-> x.height - Takes(<<op, k>>) + Leaves(<<op, k>>), open |-> x.open]
    <3>1. at.height + (n - t + l) = x.height - Takes(<<op, k>>) + Leaves(<<op, k>>)
      BY <2>0, <2>1, <2>3
    <3> HIDE DEF x
    <3> QED BY <2>1, <3>1 DEF Raised
  <2>5. Suffices(<<op, k>>, x, ~a.nested)
    <3>1. Takes(<<op, k>>) <= x.height - Floor(x)
      <4>1. Floor(at) <= at.height /\ Floor(at) \in Nat
        BY <1>7, PlaceType
      <4> HIDE DEF x
      <4> QED BY <2>0, <2>1, <2>3, <4>1
    <3> HIDE DEF x
    <3> QED BY <3>1 DEF Suffices, Straight
  <2> HIDE DEF x, y
  <2>6. ASSUME ~e.err, Len(e.pool) <= ByteRange
        PROVE  Segment(e, Here(d), Here(e), x, y)
    <3>1. k = Len(d.pool)
      <4>1. Len(d.pool) + 1 <= ByteRange
        BY <1>2, <1>5, <2>6
      <4>2. Len(d.pool) < ByteRange
        BY <1>1, <4>1, LimitsAssumption
      <4> QED BY <1>1, <4>2, Byte DEF k
    <3>2. op = "CONST" => k + 1 \in 1 .. Len(a.pool) /\ ConstantOf(a, a.pool[k + 1])
      <4>1. k + 1 \in 1 .. Len(a.pool) /\ a.pool[k + 1] = v
        BY <1>1, <1>2, <3>1
      <4>2. ConstantOf(d, v) => ConstantOf(a, v)
        BY <1>2, <1>3 DEF ConstantOf
      <4> QED BY <4>1, <4>2
    <3>3. <<op, k>>[1] = op /\ <<op, k>>[2] = k
      OBVIOUS
    <3>4. Emits(a, e, x, y)
      BY <1>2, <1>4, <2>1, <2>2, <2>4, <2>5, <3>2, <3>3, EmitOne
    <3> QED BY <1>2, <1>5, <2>6, <3>4 DEF Emits
  <2>7. Emits(d, e, x, y)
    BY <1>5, <2>6 DEF Emits
  <2> QED BY <2>7 DEF x, y
<1>8. Pushed(c, e, n - t + l)
  <2>1. Grown(c, d) /\ d.locals = c.locals /\ d.depth = c.depth
    BY DEF Pushed
  <2>2. Grown(c, e)
    BY <1>5, <2>1, GrownOn
  <2>3. ASSUME NEW at, Place(at), Grounded(c, at) PROVE Emits(c, e, at, Raised(at, n - t + l))
    <3>1. Emits(c, d, at, Raised(at, n))
      BY <2>3 DEF Pushed
    <3>2. Grounded(d, Raised(at, n))
      BY <2>1, <2>3, GroundedRaised DEF Grounded
    <3>3. Emits(d, e, Raised(at, n), Raised(at, n - t + l))
      BY <1>7, <2>3, <3>2
    <3>4. Raised(at, n).open = at.open
      BY DEF Raised
    <3> QED BY <3>1, <3>3, <3>4, EmitsOn
  <2> HIDE DEF e
  <2> QED BY <1>5, <2>1, <2>2, <2>3 DEF Pushed
<1>9. Pushed(c, Checked(e, Len(d.pool) < ByteRange), n - t + l)
  <2> DEFINE ok == Len(d.pool) < ByteRange
             w == Checked(e, ok)
  <2>0. ok \in BOOLEAN
    OBVIOUS
  <2> HIDE DEF e, ok
  <2>1. Grown(e, w) /\ w.locals = e.locals /\ w.depth = e.depth /\ (~w.err => w = e)
    BY <1>5, <2>0, CheckedGrown
  <2> HIDE DEF w
  <2>2. Grown(c, w) /\ w.locals = c.locals /\ w.depth = c.depth
    BY <1>5, <1>8, <2>1, GrownOn DEF Pushed
  <2>3. ASSUME NEW at, Place(at), Grounded(c, at) PROVE Emits(c, w, at, Raised(at, n - t + l))
    <3>1. Emits(c, e, at, Raised(at, n - t + l))
      BY <1>8, <2>3 DEF Pushed
    <3> QED BY <2>1, <2>2, <3>1 DEF Emits
  <2>4. Pushed(c, w, n - t + l)
    BY <2>2, <2>3 DEF Pushed
  <2> QED BY <2>4 DEF w, ok
<1> QED BY <1>8, <1>9 DEF WithConst, e, a, k

\* Where there is an error, nothing is said of the code.
LEMMA PushedChecked ==
  ASSUME NEW c \in Contexts, NEW e \in Contexts, Grown(c, e), e.locals = c.locals, e.depth = c.depth,
         NEW ok \in BOOLEAN, NEW n, ok => Pushed(c, e, n)
  PROVE  Pushed(c, Checked(e, ok), n)
<1> DEFINE w == Checked(e, ok)
<1>1. Grown(e, w) /\ w.locals = e.locals /\ w.depth = e.depth /\ (~w.err => ok /\ w = e)
  BY CheckedGrown
<1> HIDE DEF w
<1>2. Grown(c, w) /\ w.locals = c.locals /\ w.depth = c.depth
  BY <1>1, GrownOn
<1>3. ASSUME NEW at, Place(at), Grounded(c, at) PROVE Emits(c, w, at, Raised(at, n))
  <2>1. ASSUME ~w.err PROVE Emits(c, w, at, Raised(at, n))
    BY <1>1, <1>3, <2>1 DEF Pushed
  <2> QED BY <1>2, <2>1 DEF Emits
<1>4. Pushed(c, w, n)
  BY <1>2, <1>3 DEF Pushed
<1> QED BY <1>4 DEF w

\* A call, or an array, of n values.
LEMMA PushedCount ==
  ASSUME NEW c \in Contexts, NEW d, NEW n \in Nat, NEW op \in Collecting,
         Pushed(c, d, IF op = "CALL" THEN n + 1 ELSE n)
  PROVE  Pushed(c, WithCount(d, op, n), 1)
<1> DEFINE i == <<op, n % ByteRange>>
           e == Emit(d, i)
           m == IF op = "CALL" THEN n + 1 ELSE n
           ok == n < ByteRange
<1>1. d \in Contexts /\ Grown(c, d) /\ d.locals = c.locals /\ d.depth = c.depth
  BY DEF Pushed, Grown
<1>2. n % ByteRange \in Nat /\ (n < ByteRange => n % ByteRange = n)
  BY Byte
<1>3. i \in Instructions /\ i[1] = op /\ i[2] \in Nat
  BY <1>2 DEF Instructions, Opcodes
<1>4. op \in Straight /\ op \notin {"GET_LOCAL", "SET_LOCAL", "CONST"}
  BY DEF Collecting, Straight, Opcodes
<1>5. Grown(d, e) /\ e \in Contexts /\ e.locals = c.locals /\ e.depth = c.depth /\ Grown(c, e)
  BY <1>1, <1>3, EmitGrown, GrownOn
<1>6. ASSUME n < ByteRange PROVE Pushed(c, e, 1)
  <2>1. i = <<op, n>>
    BY <1>2, <1>6
  <2>2. Takes(i) = m /\ Leaves(i) = 1
    BY <2>1 DEF Takes, Leaves, Pushing, Combining, Arithmetic, Division, Comparison, Replacing,
       Peeking, Collecting, Moving
  <2>3. m \in Nat /\ m \in 0 .. m /\ 1 \in Nat /\ m - m + 1 = 1
    OBVIOUS
  <2> HIDE DEF i, m
  <2>4. Pushed(c, e, m - m + 1)
    BY <1>3, <1>4, <2>2, <2>3, PushedThen DEF m
  <2> HIDE DEF e
  <2> QED BY <2>3, <2>4
<1>7. ok \in BOOLEAN
  OBVIOUS
<1> HIDE DEF e
<1>8. Pushed(c, Checked(e, ok), 1)
  BY <1>5, <1>6, <1>7, PushedChecked
<1> QED BY <1>8 DEF WithCount, e

\* The slot that a name stands for is that of a local of that name.
LEMMA SlotOf ==
  ASSUME NEW c \in Contexts, NEW x
  PROVE  \/ ResolveLocal(c, x) = -1
         \/ /\ ResolveLocal(c, x) \in Nat /\ ResolveLocal(c, x) + 1 \in 1 .. Len(c.locals)
            /\ c.locals[ResolveLocal(c, x) + 1].name = x
<1> DEFINE named == {i \in DOMAIN c.locals : c.locals[i].name = x}
           top0 == CHOOSE i \in named : \A j \in named : j <= i
           n == Len(c.locals)
<1>1. DOMAIN c.locals = 1 .. n /\ n \in Nat
  BY ContextType
<1>2. CASE named = {}
  BY <1>2 DEF ResolveLocal
<1>3. CASE named # {}
  <2>1. PICK below : below = {n - i : i \in named}
    OBVIOUS
  <2>2. below \in SUBSET Nat /\ below # {}
    <3>1. \A i \in named : n - i \in Nat
      BY <1>1
    <3> HIDE DEF named, n
    <3> QED BY <1>3, <2>1, <3>1
  <2>3. PICK k \in below : \A l \in below : k <= l
    BY <2>2, LeastNatural
  <2>4. PICK i \in named : k = n - i
    BY <2>1
  <2>5. \A j \in named : j <= i
    <3>1. ASSUME NEW j \in named PROVE j <= i
      <4>1. n - j \in below
        BY <2>1
      <4>2. n - i <= n - j
        BY <2>3, <2>4, <4>1
      <4>3. i \in Nat /\ j \in Nat
        BY <1>1
      <4> HIDE DEF n
      <4> QED BY <1>1, <4>2, <4>3
    <3> QED BY <3>1
  <2>6. top0 \in named
    BY <2>5
  <2>7. ResolveLocal(c, x) = top0 - 1
    BY <1>3 DEF ResolveLocal
  <2>8. c.locals[top0].name = x /\ top0 \in 1 .. n
    BY <1>1, <2>6
  <2> HIDE DEF top0, n
  <2>9. top0 - 1 \in Nat /\ top0 - 1 + 1 = top0
    BY <1>1, <2>8
  <2> QED BY <2>7, <2>8, <2>9 DEF n
<1> QED BY <1>2, <1>3

\* A name is read or set as a local, or by a constant that holds it.
LEMMA PushedAccess ==
  ASSUME NEW c \in Contexts, NEW d, NEW n \in Nat, Pushed(c, d, n), NEW x \in Names,
         NEW local \in {"GET_LOCAL", "SET_LOCAL"}, NEW global \in {"GET_GLOBAL", "SET_GLOBAL"},
         NEW t \in 0 .. n, NEW l \in Nat,
         \A k \in Nat : Takes(<<local, k>>) = t /\ Leaves(<<local, k>>) = l,
         \A k \in Nat : Takes(<<global, k>>) = t /\ Leaves(<<global, k>>) = l
  PROVE  Pushed(c, Access(d, x, local, global), n - t + l)
<1>1. d \in Contexts /\ d.locals = c.locals
  BY DEF Pushed, Grown
<1> DEFINE slot == ResolveLocal(d, x)
<1>2. CASE slot = -1
  <2>1. Access(d, x, local, global) = WithConst(d, global, x)
    BY <1>2 DEF Access
  <2>2. x \in Constants
    BY DEF Constants, Names
  <2>3. global \in Straight \ (Collecting \cup {"GET_LOCAL", "SET_LOCAL"}) /\ global # "CONST"
    BY DEF Straight, Opcodes, Pushing, Peeking, Collecting
  <2>4. global = "CONST" => ConstantOf(d, x)
    BY <2>3
  <2> HIDE DEF slot
  <2>5. Pushed(c, WithConst(d, global, x), n - t + l)
    BY <2>2, <2>3, <2>4, PushedConst
  <2> QED BY <2>1, <2>5
<1>3. CASE slot \in Nat /\ slot + 1 \in 1 .. Len(d.locals) /\ d.locals[slot + 1].name = x
  <2> HIDE DEF slot
  <2>1. Access(d, x, local, global) = Emit(d, <<local, slot>>)
    <3>1. slot >= 0
      BY <1>3
    <3> QED BY <3>1 DEF Access, slot
  <2>2. ASSUME NEW at, Place(at), Grounded(c, at) PROVE slot \in 1 .. Raised(at, n).height - 1
    <3>1. x # NoName
      BY DEF Names
    <3>2. c.locals # <<>>
      <4>1. c.locals = <<>> => Len(d.locals) = 0
        BY <1>1
      <4>2. Len(d.locals) # 0
        BY <1>3
      <4> QED BY <4>1, <4>2
    <3>3. slot # 0
      <4>1. c.locals[1].name = NoName
        BY <2>2, <3>2 DEF Grounded
      <4>2. slot = 0 => slot + 1 = 1
        OBVIOUS
      <4> QED BY <1>1, <1>3, <3>1, <4>1, <4>2
    <3>4. Len(d.locals) <= at.height /\ Len(d.locals) \in Nat
      BY <1>1, <2>2, <3>2, ContextType DEF Grounded
    <3>5. at.height \in Nat /\ Raised(at, n).height = at.height + n
      BY <2>2, PlaceType DEF Raised
    <3>6. slot \in Nat /\ slot + 1 <= Len(d.locals)
      BY <1>3, <3>4
    <3> QED BY <3>3, <3>4, <3>5, <3>6
  <2>3. <<local, slot>> \in Instructions /\ <<local, slot>>[1] = local /\ <<local, slot>>[2] = slot
    BY <1>3 DEF Instructions, Opcodes, Pushing, Peeking
  <2>4. local \in Straight /\ local \notin Collecting /\ local # "CONST"
    BY DEF Straight, Opcodes, Pushing, Peeking, Collecting
  <2>5. Pushed(c, Emit(d, <<local, slot>>), n - t + l)
    BY <1>3, <2>2, <2>3, <2>4, PushedThen
  <2> QED BY <2>1, <2>5
<1> QED BY <1>1, <1>2, <1>3, SlotOf

\* What POP takes and leaves.
LEMMA PopEffect ==
  /\ <<"POP">> \in Instructions /\ <<"POP">>[1] = "POP" /\ Takes(<<"POP">>) = 1 /\ Leaves(<<"POP">>) = 0
  /\ "POP" \in Straight /\ "POP" \notin Collecting /\ "POP" \notin {"GET_LOCAL", "SET_LOCAL", "CONST"}
BY DEF Instructions, Straight, Opcodes, Dropping, Takes, Leaves, Pushing, Combining, Arithmetic, Division, Comparison,
       Replacing, Peeking, Collecting, Moving

\* What a test or an operand left is dropped.
LEMMA Popped ==
  ASSUME NEW c \in Contexts
  PROVE  /\ Grown(c, Emit(c, <<"POP">>)) /\ Emit(c, <<"POP">>) \in Contexts
         /\ Emit(c, <<"POP">>).locals = c.locals /\ Emit(c, <<"POP">>).depth = c.depth
         /\ Emit(c, <<"POP">>).err = c.err
         /\ \A at : Place(at) => Emits(c, Emit(c, <<"POP">>), Raised(at, 1), at)
<1>1. ASSUME NEW at, Place(at) PROVE Emits(c, Emit(c, <<"POP">>), Raised(at, 1), at)
  <2> DEFINE x == Raised(at, 1)
  <2>1. /\ Place(x) /\ x.open = at.open /\ x.height = at.height + 1 /\ Floor(x) = Floor(at)
        /\ at.height \in Nat /\ Floor(at) \in Nat /\ Floor(at) <= at.height
    BY <1>1, RaisedPlace, PlaceType
  <2>2. at = [height |-> x.height - 1 + 0, open |-> x.open]
    <3>1. at = [height |-> at.height, open |-> at.open] /\ x.height - 1 + 0 = at.height
      BY <1>1, <2>1, PlaceType
    <3> HIDE DEF x
    <3> QED BY <2>1, <3>1
  <2>3. Suffices(<<"POP">>, x, ~c.nested)
    <3>1. 1 <= x.height - Floor(x)
      <4> HIDE DEF x
      <4> QED BY <2>1
    <3> HIDE DEF x
    <3> QED BY <3>1, PopEffect DEF Suffices
  <2> HIDE DEF x
  <2>4. Emits(c, Emit(c, <<"POP">>), x, at)
    BY <1>1, <2>1, <2>2, <2>3, PopEffect, EmitOne
  <2> QED BY <2>4 DEF x
<1> QED BY <1>1, PopEffect, EmitGrown

\* Both operands, if the first does not decide: it is dropped before the second.
LEMMA PushedAnd ==
  ASSUME NEW c \in Contexts, NEW d, Pushed(c, d, 1),
         NEW r, Pushed(Emit(EmitJump(d, "JUMP_IF_FALSE"), <<"POP">>), r, 1)
  PROVE  Pushed(c, Patch(r, Here(d)), 1)
<1> DEFINE j == EmitJump(d, "JUMP_IF_FALSE")
           e == Emit(j, <<"POP">>)
           w == Patch(r, Here(d))
<1>0. "JUMP_IF_FALSE" \in Patched /\ 1 \in Nat
  BY DEF Patched
<1>1. d \in Contexts /\ Grown(c, d) /\ d.locals = c.locals /\ d.depth = c.depth
  BY DEF Pushed, Grown
<1>2. j \in Contexts /\ j.locals = c.locals /\ j.depth = c.depth
  BY <1>0, <1>1, EmitJumpGrown
<1>3. /\ Grown(j, e) /\ e \in Contexts /\ e.locals = c.locals /\ e.depth = c.depth
      /\ \A at : Place(at) => Emits(j, e, Raised(at, 1), at)
  BY <1>2, Popped
<1>4. r \in Contexts /\ Grown(j, r) /\ r.locals = c.locals /\ r.depth = c.depth
  BY <1>2, <1>3, GrownOn DEF Pushed, Grown
<1>5. /\ Grown(d, r) /\ Here(d) \in 1 .. Len(r.code) /\ Len(d.code) < Here(d)
      /\ r.code[Here(d)][1] = "JUMP_IF_FALSE"
  BY <1>0, <1>1, <1>4, JumpKept
<1>6. Grown(d, w) /\ w.locals = c.locals /\ w.depth = c.depth
  BY <1>0, <1>1, <1>4, <1>5, PatchGrown, PatchContext
<1> HIDE DEF e
<1>7. ASSUME NEW at, Place(at), Grounded(c, at) PROVE Emits(c, w, at, Raised(at, 1))
  <2> DEFINE x == Raised(at, 1)
  <2>1. Place(x) /\ x.open = at.open /\ 1 <= x.height - Floor(x)
    <3>1. /\ Place(x) /\ x.open = at.open /\ x.height = at.height + 1 /\ Floor(x) = Floor(at)
          /\ at.height \in Nat /\ Floor(at) \in Nat /\ Floor(at) <= at.height
      BY <1>0, <1>7, RaisedPlace, PlaceType
    <3> HIDE DEF x
    <3> QED BY <3>1
  <2>2. Emits(j, e, x, at)
    BY <1>3, <1>7
  <2>3. Emits(e, r, at, x)
    BY <1>3, <1>7 DEF Pushed, Grounded, e
  <2>4. Emits(c, d, at, x)
    BY <1>7 DEF Pushed
  <2> HIDE DEF x
  <2>5. Emits(j, r, x, x)
    BY <1>2, <2>1, <2>2, <2>3, EmitsOn
  <2>6. Emits(d, w, x, x)
    BY <1>1, <2>1, <2>5, SkipEmits
  <2>7. Emits(c, w, at, x)
    BY <2>1, <2>4, <2>6, EmitsOn
  <2> QED BY <2>7 DEF x
<1>8. Grown(c, w)
  BY <1>1, <1>6, GrownOn
<1>9. Pushed(c, w, 1)
  BY <1>6, <1>7, <1>8 DEF Pushed
<1> QED BY <1>9

\* Code that stands for itself.
LEMMA NothingEmitted ==
  ASSUME NEW c \in Contexts
  PROVE  Grown(c, c) /\ \A at : Place(at) => Emits(c, c, at, at)
<1>1. Grown(c, c)
  BY ContextType DEF Grown
<1>2. ASSUME NEW at, Place(at) PROVE Emits(c, c, at, at)
  <2>1. Segment(c, Here(c), Here(c), at, at)
    BY <1>2, NoCode, ContextType
  <2> QED BY <1>1, <2>1 DEF Emits
<1> QED BY <1>1, <1>2

\* The first operand, or it is dropped for the second.
LEMMA PushedOr ==
  ASSUME NEW c \in Contexts, NEW d, Pushed(c, d, 1),
         NEW j, j = EmitJump(d, "JUMP_IF_FALSE"), NEW v, v = Patch(EmitJump(j, "JUMP"), Here(d)),
         NEW r, Pushed(Emit(v, <<"POP">>), r, 1)
  PROVE  /\ v \in Contexts /\ v.locals = c.locals /\ v.depth = c.depth /\ Len(v.code) = Here(j)
         /\ Pushed(c, Patch(r, Here(j)), 1)
<1> DEFINE e == Emit(v, <<"POP">>)
           w == Patch(r, Here(j))
<1>0. "JUMP_IF_FALSE" \in Patched /\ 1 \in Nat
  BY DEF Patched
<1>1. d \in Contexts /\ Grown(c, d) /\ d.locals = c.locals /\ d.depth = c.depth
  BY DEF Pushed, Grown
<1>2. j \in Contexts /\ j.locals = c.locals /\ j.depth = c.depth
  BY <1>0, <1>1, EmitJumpGrown
<1>3. Grown(j, j) /\ \A at : Place(at) => Emits(j, j, at, at)
  BY <1>2, NothingEmitted
<1>4. v \in Contexts /\ v.locals = c.locals /\ v.depth = c.depth /\ Len(v.code) = Here(j)
  BY <1>1, <1>2, <1>3, ForkContext
<1>5. /\ Grown(v, e) /\ e \in Contexts /\ e.locals = c.locals /\ e.depth = c.depth
      /\ \A at : Place(at) => Emits(v, e, Raised(at, 1), at)
  BY <1>4, Popped
<1>6. r \in Contexts /\ Grown(v, r) /\ r.locals = c.locals /\ r.depth = c.depth
  BY <1>4, <1>5, GrownOn DEF Pushed, Grown
<1>7. Grown(d, w) /\ w.locals = c.locals /\ w.depth = c.depth
  BY <1>1, <1>3, <1>6, ForkClosed
<1> HIDE DEF e, w
<1>8. ASSUME NEW at, Place(at), Grounded(c, at) PROVE Emits(c, w, at, Raised(at, 1))
  <2> DEFINE x == Raised(at, 1)
  <2>1. Place(x) /\ x.open = at.open /\ 1 <= x.height - Floor(x)
    <3>1. /\ Place(x) /\ x.open = at.open /\ x.height = at.height + 1 /\ Floor(x) = Floor(at)
          /\ at.height \in Nat /\ Floor(at) \in Nat /\ Floor(at) <= at.height
      BY <1>0, <1>8, RaisedPlace, PlaceType
    <3> HIDE DEF x
    <3> QED BY <3>1
  <2>2. Emits(v, e, x, at)
    BY <1>5, <1>8
  <2>3. Emits(e, r, at, x)
    BY <1>5, <1>8 DEF Pushed, Grounded, e
  <2>4. Emits(c, d, at, x)
    BY <1>8 DEF Pushed
  <2>5. Emits(j, j, x, x)
    BY <1>3, <2>1
  <2> HIDE DEF x
  <2>6. Emits(v, r, x, x)
    BY <1>4, <2>1, <2>2, <2>3, EmitsOn
  <2>7. Emits(d, w, x, x)
    <3>1. Emits(EmitJump(d, "JUMP_IF_FALSE"), j, x, x)
      BY <2>5
    <3> QED BY <1>1, <2>1, <2>6, <3>1, ForkEmits DEF w
  <2>8. Emits(c, w, at, x)
    BY <2>1, <2>4, <2>7, EmitsOn
  <2> QED BY <2>8 DEF x
<1>9. Grown(c, w)
  BY <1>1, <1>7, GrownOn
<1>10. Pushed(c, w, 1)
  BY <1>7, <1>8, <1>9 DEF Pushed
<1> QED BY <1>4, <1>10 DEF w

\* What an instruction without an operand takes and leaves.
LEMMA OpEffect ==
  /\ \A op \in UnaryOps \cup BinaryOps \cup {"NIL", "TRUE", "FALSE", "GET_INDEX", "PRINT", "SET_INDEX", "POP"} :
       /\ <<op>> \in Instructions /\ <<op>>[1] = op
       /\ op \in Straight /\ op \notin Collecting /\ op \notin {"GET_LOCAL", "SET_LOCAL", "CONST"}
  /\ \A op \in UnaryOps : Takes(<<op>>) = 1 /\ Leaves(<<op>>) = 1
  /\ \A op \in BinaryOps \cup {"GET_INDEX"} : Takes(<<op>>) = 2 /\ Leaves(<<op>>) = 1
  /\ \A op \in {"NIL", "TRUE", "FALSE"} : Takes(<<op>>) = 0 /\ Leaves(<<op>>) = 1
  /\ Takes(<<"PRINT">>) = 1 /\ Leaves(<<"PRINT">>) = 0
  /\ Takes(<<"SET_INDEX">>) = 3 /\ Leaves(<<"SET_INDEX">>) = 0
BY DEF UnaryOps, BinaryOps, Instructions, Straight, Opcodes, Takes, Leaves, Pushing, Dropping, Combining, Arithmetic, Division,
       Comparison, Replacing, Peeking, Collecting, Moving

\* What instructions that have the index of a constant take and leave.
LEMMA ConstEffect ==
  /\ \A op \in {"CONST", "GET_GLOBAL", "SET_GLOBAL", "DEFINE_GLOBAL"} :
       op \in Straight \ (Collecting \cup {"GET_LOCAL", "SET_LOCAL"})
  /\ \A k \in Nat : Takes(<<"CONST", k>>) = 0 /\ Leaves(<<"CONST", k>>) = 1
  /\ \A op \in {"GET_LOCAL", "GET_GLOBAL"} : \A k \in Nat : Takes(<<op, k>>) = 0 /\ Leaves(<<op, k>>) = 1
  /\ \A op \in {"SET_LOCAL", "SET_GLOBAL"} : \A k \in Nat : Takes(<<op, k>>) = 1 /\ Leaves(<<op, k>>) = 1
  /\ \A k \in Nat : Takes(<<"DEFINE_GLOBAL", k>>) = 1 /\ Leaves(<<"DEFINE_GLOBAL", k>>) = 0
BY DEF Straight, Opcodes, Takes, Leaves, Pushing, Dropping, Combining, Arithmetic, Division,
       Comparison, Replacing, Peeking, Collecting, Moving

\* An operation on the t values that were left last.
LEMMA PushedOp ==
  ASSUME NEW c \in Contexts, NEW d, NEW n \in Nat, Pushed(c, d, n),
         NEW op \in UnaryOps \cup BinaryOps \cup {"NIL", "TRUE", "FALSE", "GET_INDEX", "PRINT", "SET_INDEX", "POP"},
         NEW t \in 0 .. n, Takes(<<op>>) = t, NEW l \in Nat, Leaves(<<op>>) = l
  PROVE  Pushed(c, Emit(d, <<op>>), n - t + l)
<1> DEFINE i == <<op>>
<1>1. /\ i \in Instructions /\ i[1] \in Straight /\ i[1] \notin Collecting
      /\ i[1] \notin {"GET_LOCAL", "SET_LOCAL", "CONST"} /\ Takes(i) = t /\ Leaves(i) = l
  BY OpEffect
<1> HIDE DEF i
<1>2. Pushed(c, Emit(d, i), n - t + l)
  BY <1>1, PushedThen
<1> QED BY <1>2 DEF i

\* A literal leaves its value.
LEMMA PushedLiteral ==
  ASSUME NEW c \in Contexts, NEW v \in Literals
  PROVE  Pushed(c, Literal(c, v), 1)
<1>0. Pushed(c, c, 0) /\ 0 \in Nat /\ 1 \in Nat /\ 0 \in 0 .. 0 /\ 0 - 0 + 1 = 1
  BY PushedNothing
<1>1. CASE \E op \in {"NIL", "TRUE", "FALSE"} : Literal(c, v) = Emit(c, <<op>>)
  <2>1. PICK op \in {"NIL", "TRUE", "FALSE"} : Literal(c, v) = Emit(c, <<op>>)
    BY <1>1
  <2>2. Takes(<<op>>) = 0 /\ Leaves(<<op>>) = 1
    BY OpEffect
  <2>3. Pushed(c, Emit(c, <<op>>), 0 - 0 + 1)
    BY <1>0, <2>2, PushedOp
  <2> QED BY <1>0, <2>1, <2>3
<1>2. CASE Literal(c, v) = WithConst(c, "CONST", v)
  <2>1. v \in Constants /\ ConstantOf(c, v)
    BY DEF Constants, ConstantOf
  <2>2. Pushed(c, WithConst(c, "CONST", v), 0 - 0 + 1)
    BY <1>0, <2>1, ConstEffect, PushedConst
  <2> QED BY <1>0, <1>2, <2>2
<1>7. Nil # Bool(TRUE) /\ Nil # Bool(FALSE) /\ Bool(TRUE) # Bool(FALSE)
  <2>1. Bool(TRUE)[2] = TRUE /\ Bool(FALSE)[2] = FALSE /\ Bool(TRUE)[1] # Nil[1] /\ Bool(FALSE)[1] # Nil[1]
    BY DEF Bool, Nil
  <2> QED BY <2>1
<1>3. CASE v = Nil
  BY <1>1, <1>3, <1>7 DEF Literal
<1>4. CASE v # Nil /\ v = Bool(TRUE)
  BY <1>1, <1>4, <1>7 DEF Literal
<1>5. CASE v # Nil /\ v # Bool(TRUE) /\ v = Bool(FALSE)
  BY <1>1, <1>5, <1>7 DEF Literal
<1>6. CASE v # Nil /\ v # Bool(TRUE) /\ v # Bool(FALSE)
  BY <1>2, <1>6 DEF Literal
<1> QED BY <1>3, <1>4, <1>5, <1>6

-----------------------------------------------------------------------------
\* Expressions one after the other leave a value each.
LEMMA PushedExprs ==
  ASSUME NEW E, \A c \in Contexts : \A e \in E : Pushed(c, Expr(c, e), 1),
         \A c \in Contexts : \A es \in Seq(E) : Exprs(c, es) = CompileExprs(c, es)
  PROVE  \A c \in Contexts : \A es \in Seq(E) : Pushed(c, Exprs(c, es), Len(es))
<1> DEFINE T == {n \in Nat : \A c \in Contexts : \A es \in Seq(E) : Len(es) = n => Pushed(c, Exprs(c, es), n)}
<1>1. 0 \in T
  <2>1. ASSUME NEW c \in Contexts, NEW es \in Seq(E), Len(es) = 0 PROVE Pushed(c, Exprs(c, es), 0)
    <3>1. es = <<>>
      BY <2>1
    <3>2. Exprs(c, es) = c
      BY <3>1 DEF CompileExprs
    <3> QED BY <3>2, PushedNothing
  <2> QED BY <2>1
<1>2. ASSUME NEW n \in T PROVE n + 1 \in T
  <2>1. ASSUME NEW c \in Contexts, NEW es \in Seq(E), Len(es) = n + 1 PROVE Pushed(c, Exprs(c, es), n + 1)
    <3>1. es # <<>> /\ Head(es) \in E /\ Tail(es) \in Seq(E) /\ Len(Tail(es)) = n
      BY <2>1
    <3>2. Exprs(c, es) = Exprs(Expr(c, Head(es)), Tail(es))
      BY <3>1 DEF CompileExprs
    <3>3. Pushed(c, Expr(c, Head(es)), 1) /\ Expr(c, Head(es)) \in Contexts
      BY <3>1 DEF Pushed, Grown
    <3>4. Pushed(Expr(c, Head(es)), Exprs(Expr(c, Head(es)), Tail(es)), n)
      BY <3>1, <3>3
    <3>5. 1 \in Nat /\ n \in Nat /\ 1 + n = n + 1
      OBVIOUS
    <3>6. Pushed(c, Exprs(Expr(c, Head(es)), Tail(es)), 1 + n)
      BY <3>3, <3>4, <3>5, PushedOn
    <3> QED BY <3>2, <3>5, <3>6
  <2> QED BY <2>1
<1>3. T \in SUBSET Nat
  OBVIOUS
<1>4. T = Nat
  <2> HIDE DEF T
  <2> QED BY <1>1, <1>2, <1>3, SetInduction
<1> QED BY <1>4

\* The parts of an expression, by its kind.
LEMMA ExprKinds ==
  ASSUME NEW E, NEW e \in ExprsOf(E)
  PROVE  \/ e[1] = "lit" /\ e[2] \in Literals
         \/ e[1] = "var" /\ e[2] \in Names
         \/ e[1] = "unary" /\ e[2] \in UnaryOps /\ e[3] \in E
         \/ e[1] = "binary" /\ e[2] \in BinaryOps /\ e[3] \in E /\ e[4] \in E
         \/ e[1] \in {"and", "or", "index"} /\ e[2] \in E /\ e[3] \in E
         \/ e[1] = "call" /\ e[2] \in E /\ e[3] \in Seq(E)
         \/ e[1] = "array" /\ e[2] \in Seq(E)
<1>1. CASE e \in {"lit"} \X Literals
  BY <1>1
<1>2. CASE e \in {"var"} \X Names
  BY <1>2
<1>3. CASE e \in {"unary"} \X UnaryOps \X E
  BY <1>3
<1>4. CASE e \in {"binary"} \X BinaryOps \X E \X E
  BY <1>4
<1>5. CASE e \in {"and", "or", "index"} \X E \X E
  BY <1>5
<1>6. CASE e \in {"call"} \X E \X Seq(E)
  BY <1>6
<1>7. CASE e \in {"array"} \X Seq(E)
  BY <1>7
<1> QED BY <1>1, <1>2, <1>3, <1>4, <1>5, <1>6, <1>7 DEF ExprsOf

\* An expression leaves one value, if its parts do.
LEMMA PushedExpr ==
  ASSUME NEW E, \A c \in Contexts : \A e \in E : Pushed(c, Expr(c, e), 1),
         \A c \in Contexts : \A es \in Seq(E) : Pushed(c, Exprs(c, es), Len(es)),
         NEW c \in Contexts, NEW e \in ExprsOf(E)
  PROVE  Pushed(c, CompileExpr(c, e), 1)
<1>0. /\ Pushed(c, c, 0) /\ 0 \in Nat /\ 1 \in Nat /\ 2 \in Nat /\ 0 \in 0 .. 0 /\ 1 \in 0 .. 1 /\ 2 \in 0 .. 2
      /\ 0 - 0 + 1 = 1 /\ 1 - 1 + 1 = 1 /\ 2 - 2 + 1 = 1 /\ 1 + 1 = 2
  BY PushedNothing
<1>1. ASSUME NEW d \in Contexts, NEW a \in E PROVE Pushed(d, Expr(d, a), 1) /\ Expr(d, a) \in Contexts
  BY DEF Pushed, Grown
<1>2. ASSUME NEW a \in E, NEW b \in E PROVE Pushed(c, Expr(Expr(c, a), b), 2)
  <2>1. Pushed(c, Expr(Expr(c, a), b), 1 + 1)
    BY <1>0, <1>1, PushedOn
  <2> QED BY <1>0, <2>1
<1>3. CASE e[1] = "lit" /\ e[2] \in Literals
  <2>1. CompileExpr(c, e) = Literal(c, e[2])
    BY <1>3 DEF CompileExpr
  <2> QED BY <1>3, <2>1, PushedLiteral
<1>4. CASE e[1] = "var" /\ e[2] \in Names
  <2>1. CompileExpr(c, e) = Access(c, e[2], "GET_LOCAL", "GET_GLOBAL")
    BY <1>4 DEF CompileExpr
  <2>2. Pushed(c, Access(c, e[2], "GET_LOCAL", "GET_GLOBAL"), 0 - 0 + 1)
    BY <1>0, <1>4, ConstEffect, PushedAccess
  <2> QED BY <1>0, <2>1, <2>2
<1>5. CASE e[1] = "unary" /\ e[2] \in UnaryOps /\ e[3] \in E
  <2>1. CompileExpr(c, e) = Emit(Expr(c, e[3]), <<e[2]>>)
    BY <1>5 DEF CompileExpr
  <2>2. Takes(<<e[2]>>) = 1 /\ Leaves(<<e[2]>>) = 1
    BY <1>5, OpEffect
  <2>3. Pushed(c, Emit(Expr(c, e[3]), <<e[2]>>), 1 - 1 + 1)
    BY <1>0, <1>1, <1>5, <2>2, PushedOp
  <2> QED BY <1>0, <2>1, <2>3
<1>6. CASE e[1] = "binary" /\ e[2] \in BinaryOps /\ e[3] \in E /\ e[4] \in E
  <2>1. CompileExpr(c, e) = Emit(Expr(Expr(c, e[3]), e[4]), <<e[2]>>)
    BY <1>6 DEF CompileExpr
  <2>2. Takes(<<e[2]>>) = 2 /\ Leaves(<<e[2]>>) = 1
    BY <1>6, OpEffect
  <2>3. Pushed(c, Emit(Expr(Expr(c, e[3]), e[4]), <<e[2]>>), 2 - 2 + 1)
    BY <1>0, <1>2, <1>6, <2>2, PushedOp
  <2> QED BY <1>0, <2>1, <2>3
<1>7. CASE e[1] = "index" /\ e[2] \in E /\ e[3] \in E
  <2>1. CompileExpr(c, e) = Emit(Expr(Expr(c, e[2]), e[3]), <<"GET_INDEX">>)
    BY <1>7 DEF CompileExpr
  <2>2. Takes(<<"GET_INDEX">>) = 2 /\ Leaves(<<"GET_INDEX">>) = 1
    BY OpEffect
  <2>3. Pushed(c, Emit(Expr(Expr(c, e[2]), e[3]), <<"GET_INDEX">>), 2 - 2 + 1)
    BY <1>0, <1>2, <1>7, <2>2, PushedOp
  <2> QED BY <1>0, <2>1, <2>3
<1>8. CASE e[1] = "and" /\ e[2] \in E /\ e[3] \in E
  <2> DEFINE d == Expr(c, e[2])
             j == EmitJump(d, "JUMP_IF_FALSE")
             r == Expr(Emit(j, <<"POP">>), e[3])
  <2>1. CompileExpr(c, e) = Patch(r, Len(j.code))
    BY <1>8 DEF CompileExpr, JumpOver
  <2>2. Pushed(c, d, 1) /\ d \in Contexts
    BY <1>1, <1>8
  <2>3. j \in Contexts /\ Len(j.code) = Here(d)
    BY <2>2, EmitJumpGrown DEF Patched
  <2> HIDE DEF d, j
  <2>4. Pushed(Emit(j, <<"POP">>), r, 1)
    BY <1>1, <1>8, <2>3, Popped
  <2>5. Pushed(c, Patch(r, Here(d)), 1)
    BY <2>2, <2>4, PushedAnd DEF j
  <2> QED BY <2>1, <2>3, <2>5
<1>9. CASE e[1] = "or" /\ e[2] \in E /\ e[3] \in E
  <2> DEFINE d == Expr(c, e[2])
             j == EmitJump(d, "JUMP_IF_FALSE")
             v == Patch(EmitJump(j, "JUMP"), Len(j.code))
             r == Expr(Emit(v, <<"POP">>), e[3])
  <2>1. CompileExpr(c, e) = Patch(r, Len(v.code))
    BY <1>9 DEF CompileExpr, JumpOver
  <2>2. Pushed(c, d, 1) /\ d \in Contexts
    BY <1>1, <1>9
  <2>3. j \in Contexts /\ Len(j.code) = Here(d) /\ Grown(j, j)
    BY <2>2, EmitJumpGrown, NothingEmitted DEF Patched
  <2>4. v = Patch(EmitJump(j, "JUMP"), Here(d))
    BY <2>3
  <2>5. v \in Contexts /\ Len(v.code) = Here(j)
    BY <2>2, <2>3, <2>4, ForkContext
  <2>6. Pushed(Emit(v, <<"POP">>), r, 1)
    <3> HIDE DEF v
    <3> QED BY <1>1, <1>9, <2>5, Popped
  <2>7. j = EmitJump(d, "JUMP_IF_FALSE")
    OBVIOUS
  <2> HIDE DEF d, j, v, r
  <2>8. Pushed(c, Patch(r, Here(j)), 1)
    BY <2>2, <2>4, <2>6, <2>7, PushedOr
  <2> QED BY <2>1, <2>5, <2>8
<1>10. CASE e[1] = "call" /\ e[2] \in E /\ e[3] \in Seq(E)
  <2> DEFINE n == Len(e[3])
             d == Exprs(Expr(c, e[2]), e[3])
  <2>1. CompileExpr(c, e) = WithCount(d, "CALL", n)
    BY <1>10 DEF CompileExpr
  <2>2. n \in Nat /\ 1 + n = n + 1
    BY <1>10
  <2>3. Pushed(c, Expr(c, e[2]), 1) /\ Pushed(Expr(c, e[2]), d, n)
    BY <1>1, <1>10
  <2> HIDE DEF n, d
  <2>4. Pushed(c, d, 1 + n)
    BY <1>0, <2>2, <2>3, PushedOn
  <2>5. Pushed(c, d, n + 1)
    BY <2>2, <2>4
  <2>6. "CALL" \in Collecting
    BY DEF Collecting
  <2>7. Pushed(c, WithCount(d, "CALL", n), 1)
    BY <2>2, <2>5, <2>6, PushedCount
  <2> QED BY <2>1, <2>7
<1>11. CASE e[1] = "array" /\ e[2] \in Seq(E)
  <2> DEFINE n == Len(e[2])
             d == Exprs(c, e[2])
  <2>1. CompileExpr(c, e) = WithCount(d, "BUILD_ARRAY", n)
    BY <1>11 DEF CompileExpr
  <2>2. n \in Nat /\ Pushed(c, d, n) /\ "BUILD_ARRAY" \in Collecting
    BY <1>11 DEF Collecting
  <2> HIDE DEF n, d
  <2>3. Pushed(c, WithCount(d, "BUILD_ARRAY", n), 1)
    BY <2>2, PushedCount
  <2> QED BY <2>1, <2>3
<1> QED BY <1>3, <1>4, <1>5, <1>6, <1>7, <1>8, <1>9, <1>10, <1>11, ExprKinds

-----------------------------------------------------------------------------
(***************************************************************************)
(* Trees by their depth.                                                   *)
(***************************************************************************)
NoTrees == [expr |-> {}, stmt |-> [k \in Kinds |-> {}]]
UpTo(g, m) == g = [n \in 0 .. m |-> IF n = 0 THEN NoTrees ELSE Deeper(g[n - 1])]
TreesUpTo(m) == CHOOSE g : UpTo(g, m)

\* Some sequence has the trees of each depth up to a bound.
LEMMA UpToSome ==
  \A m \in Nat : UpTo(TreesUpTo(m), m)
<1> DEFINE T == {m \in Nat : \E g : UpTo(g, m)}
<1>1. 0 \in T
  <2> DEFINE g == [n \in 0 .. 0 |-> NoTrees]
  <2>1. UpTo(g, 0)
    BY DEF UpTo
  <2> HIDE DEF g
  <2> QED BY <2>1
<1>2. ASSUME NEW m \in T PROVE m + 1 \in T
  <2>1. PICK g : UpTo(g, m)
    OBVIOUS
  <2>2. m \in Nat
    OBVIOUS
  <2> DEFINE h == [n \in 0 .. m + 1 |-> IF n = 0 THEN NoTrees ELSE Deeper(g[n - 1])]
  <2>3. \A n \in 0 .. m : h[n] = g[n]
    BY <2>1, <2>2 DEF UpTo
  <2>4. \A n \in 0 .. m + 1 : n # 0 => n - 1 \in 0 .. m
    BY <2>2
  <2>5. \A n \in 0 .. m + 1 : h[n] = IF n = 0 THEN NoTrees ELSE Deeper(h[n - 1])
    <3> SUFFICES ASSUME NEW n \in 0 .. m + 1 PROVE h[n] = IF n = 0 THEN NoTrees ELSE Deeper(h[n - 1])
      OBVIOUS
    <3>1. h[n] = IF n = 0 THEN NoTrees ELSE Deeper(g[n - 1])
      OBVIOUS
    <3>2. n # 0 => h[n - 1] = g[n - 1]
      BY <2>3, <2>4
    <3> HIDE DEF h
    <3> QED BY <3>1, <3>2
  <2>6. UpTo(h, m + 1)
    <3>1. h = [n \in 0 .. m + 1 |-> h[n]]
      OBVIOUS
    <3> HIDE DEF h
    <3> QED BY <2>5, <3>1 DEF UpTo
  <2> HIDE DEF h
  <2> QED BY <2>2, <2>6
<1>3. T \in SUBSET Nat
  OBVIOUS
<1>4. T = Nat
  <2> HIDE DEF T
  <2> QED BY <1>1, <1>2, <1>3, SetInduction
<1>5. ASSUME NEW m \in Nat PROVE UpTo(TreesUpTo(m), m)
  <2>1. \E g : UpTo(g, m)
    BY <1>4
  <2> QED BY <2>1 DEF TreesUpTo
<1> QED BY <1>5

\* Only one has them.
LEMMA UpToOne ==
  ASSUME NEW m \in Nat, NEW g, UpTo(g, m), NEW l \in Nat, m <= l, NEW h, UpTo(h, l)
  PROVE  \A n \in 0 .. m : g[n] = h[n]
<1> DEFINE T == {n \in Nat : n <= m => g[n] = h[n]}
<1>1. 0 \in T
  BY DEF UpTo
<1>2. ASSUME NEW n \in T PROVE n + 1 \in T
  <2>1. CASE n + 1 <= m
    <3>1. n \in Nat /\ n \in 0 .. m /\ n + 1 \in 0 .. m /\ n + 1 \in 0 .. l /\ n + 1 # 0 /\ n + 1 - 1 = n
      BY <2>1
    <3>2. g[n + 1] = Deeper(g[n]) /\ h[n + 1] = Deeper(h[n])
      BY <3>1 DEF UpTo
    <3>3. g[n] = h[n]
      BY <3>1
    <3> QED BY <3>1, <3>2, <3>3
  <2>2. CASE ~(n + 1 <= m)
    BY <2>2
  <2> QED BY <2>1, <2>2
<1>3. T \in SUBSET Nat
  OBVIOUS
<1>4. T = Nat
  <2> HIDE DEF T
  <2> QED BY <1>1, <1>2, <1>3, SetInduction
<1> QED BY <1>4

\* Trees, which is defined by recursion, has the trees of each depth.
LEMMA TreesByDepth ==
  Trees[0] = NoTrees /\ \A n \in Nat : Trees[n + 1] = Deeper(Trees[n])
<1> DEFINE G == [n \in Nat |-> TreesUpTo(n)[n]]
<1>1. \A n \in Nat : UpTo(TreesUpTo(n), n)
  BY UpToSome
<1>2. G[0] = NoTrees
  BY <1>1 DEF UpTo
<1>3. ASSUME NEW n \in Nat PROVE G[n + 1] = Deeper(G[n])
  <2>1. PICK g : UpTo(g, n + 1) /\ G[n + 1] = g[n + 1]
    BY <1>1
  <2>2. PICK h : UpTo(h, n) /\ G[n] = h[n]
    BY <1>1
  <2>3. n + 1 \in Nat /\ n <= n + 1 /\ n \in 0 .. n /\ n + 1 \in 0 .. n + 1 /\ n + 1 # 0 /\ n + 1 - 1 = n
    OBVIOUS
  <2>4. h[n] = g[n]
    <3>1. \A i \in 0 .. n : h[i] = g[i]
      BY <2>1, <2>2, <2>3, UpToOne
    <3> QED BY <2>3, <3>1
  <2>5. g[n + 1] = Deeper(g[n])
    BY <2>1, <2>3 DEF UpTo
  <2> QED BY <2>1, <2>2, <2>4, <2>5
<1>4. G = [n \in Nat |-> IF n = 0 THEN NoTrees ELSE Deeper(G[n - 1])]
  <2>1. \A n \in Nat : n # 0 => n - 1 \in Nat /\ n - 1 + 1 = n
    OBVIOUS
  <2>2. \A n \in Nat : G[n] = IF n = 0 THEN NoTrees ELSE Deeper(G[n - 1])
    <3> SUFFICES ASSUME NEW n \in Nat PROVE G[n] = IF n = 0 THEN NoTrees ELSE Deeper(G[n - 1])
      OBVIOUS
    <3> HIDE DEF G
    <3>1. n # 0 => G[n] = Deeper(G[n - 1])
      BY <1>3, <2>1
    <3> QED BY <1>2, <3>1
  <2>3. G = [n \in Nat |-> G[n]]
    OBVIOUS
  <2> HIDE DEF G
  <2> QED BY <2>2, <2>3
<1> HIDE DEF G
<1>5. Trees = CHOOSE T : T = [n \in Nat |-> IF n = 0 THEN NoTrees ELSE Deeper(T[n - 1])]
  BY DEF Trees, NoTrees
<1>6. Trees = [n \in Nat |-> IF n = 0 THEN NoTrees ELSE Deeper(Trees[n - 1])]
  BY <1>4, <1>5
<1>7. \A n \in Nat : n + 1 \in Nat /\ n + 1 # 0 /\ n + 1 - 1 = n
  OBVIOUS
<1>8. Trees[0] = NoTrees
  BY <1>6
<1>9. ASSUME NEW n \in Nat PROVE Trees[n + 1] = Deeper(Trees[n])
  BY <1>6, <1>7
<1> QED BY <1>8, <1>9

\* What compiles the parts of a tree obeys the rules for them.
ByTheRules ==
  \A c \in Contexts : \A n \in Nat :
    /\ \A e \in Trees[n].expr : Expr(c, e) = CompileExpr(c, e)
    /\ \A es \in Seq(Trees[n].expr) : Exprs(c, es) = CompileExprs(c, es)
    /\ \A k \in Kinds :
         /\ \A s \in Trees[n].stmt[k] : Node(c, s) = CompileNode(c, s)
         /\ \A b \in Seq(Trees[n].stmt[k]) : Nodes(c, b) = CompileBlock(c, b)
    /\ \A ps \in Seq(Names) : Params(c, ps) = AddParams(c, ps)

\* An expression leaves one value on the stack, whatever way leads through it.
THEOREM ExpressionsPush ==
  ASSUME ByTheRules
  PROVE  \A n \in Nat : \A c \in Contexts :
           /\ \A e \in Trees[n].expr : Pushed(c, Expr(c, e), 1)
           /\ \A es \in Seq(Trees[n].expr) : Pushed(c, Exprs(c, es), Len(es))
<1> DEFINE T == {n \in Nat : \A c \in Contexts : \A e \in Trees[n].expr : Pushed(c, Expr(c, e), 1)}
<1>1. ASSUME NEW n \in T PROVE \A c \in Contexts : \A es \in Seq(Trees[n].expr) : Pushed(c, Exprs(c, es), Len(es))
  <2>1. n \in Nat /\ \A c \in Contexts : \A e \in Trees[n].expr : Pushed(c, Expr(c, e), 1)
    OBVIOUS
  <2>2. \A c \in Contexts : \A es \in Seq(Trees[n].expr) : Exprs(c, es) = CompileExprs(c, es)
    BY <2>1 DEF ByTheRules
  <2> HIDE DEF T
  <2> QED BY <2>1, <2>2, PushedExprs
<1>2. 0 \in T
  BY TreesByDepth DEF NoTrees
<1>3. ASSUME NEW n \in T PROVE n + 1 \in T
  <2>1. n \in Nat /\ n + 1 \in Nat
    OBVIOUS
  <2>2. Trees[n + 1].expr = ExprsOf(Trees[n].expr)
    <3>1. Trees[n + 1] = Deeper(Trees[n])
      BY <2>1, TreesByDepth
    <3> HIDE DEF T
    <3> QED BY <3>1 DEF Deeper
  <2>3. \A c \in Contexts : \A e \in Trees[n].expr : Pushed(c, Expr(c, e), 1)
    OBVIOUS
  <2>4. ASSUME NEW c \in Contexts, NEW e \in Trees[n + 1].expr PROVE Pushed(c, Expr(c, e), 1)
    <3>1. Pushed(c, CompileExpr(c, e), 1)
      BY <1>1, <2>2, <2>3, PushedExpr
    <3>2. Expr(c, e) = CompileExpr(c, e)
      BY <2>1 DEF ByTheRules
    <3> QED BY <3>1, <3>2
  <2> QED BY <2>1, <2>4
<1>4. T \in SUBSET Nat
  OBVIOUS
<1>5. T = Nat
  <2> HIDE DEF T
  <2> QED BY <1>2, <1>3, <1>4, SetInduction
<1> HIDE DEF T
<1> QED BY <1>1, <1>5 DEF T

-----------------------------------------------------------------------------
(***************************************************************************)
(* Statements: between them the stack of the frame has just the locals.    *)
(***************************************************************************)
Height(c) == IF c.locals = <<>> THEN 1 ELSE Len(c.locals)

\* What a context has of locals where a statement of kind k is compiled.
Stood(c, k) ==
  /\ \A i \in 1 .. Len(c.locals) : c.locals[i].depth <= c.depth
  /\ IF k \in {"free", "guarded"}
       THEN c.locals # <<>> /\ c.locals[1].name = NoName
       ELSE c.locals = <<>> /\ (k = "module" => c.depth = 0)

StandsAt(c, k, at) == Place(at) /\ at.height = Height(c) /\ (k # "guarded" => at.open = <<>>)
InStep(c, at) == [height |-> Height(c), open |-> at.open]

\* A statement that declares no local.
Kept(c, d, k) ==
  /\ Grown(c, d) /\ d.depth = c.depth
  /\ ~d.err /\ Stood(c, k) =>
       /\ d.locals = c.locals
       /\ \A at : StandsAt(c, k, at) => Emits(c, d, at, at)

Done(c, d, k) ==
  /\ Grown(c, d) /\ d.depth = c.depth
  /\ ~d.err /\ Stood(c, k) =>
       /\ Stood(d, k) /\ Begins(c.locals, d.locals)
       /\ \A i \in Len(c.locals) + 1 .. Len(d.locals) : d.locals[i].depth = c.depth
       /\ c.depth = 0 => d.locals = c.locals
       /\ \A at : StandsAt(c, k, at) => Emits(c, d, at, InStep(d, at))

\* The place before a statement.
LEMMA StandsType ==
  ASSUME NEW c \in Contexts, NEW k \in Kinds, NEW at, StandsAt(c, k, at)
  PROVE  /\ Place(at) /\ at.height \in Nat /\ at.height >= 1 /\ at.height = Height(c) /\ at = InStep(c, at)
         /\ Stood(c, k) => Grounded(c, at)
<1>1. Place(at) /\ at.height = Height(c)
  BY DEF StandsAt
<1>2. at.height \in Nat /\ Floor(at) \in Nat /\ Floor(at) >= 1 /\ Floor(at) <= at.height /\ at = [height |-> at.height, open |-> at.open]
  BY <1>1, PlaceType
<1>3. at = InStep(c, at)
  BY <1>1, <1>2 DEF InStep
<1>4. at.height >= 1
  BY <1>2
<1>5. ASSUME Stood(c, k), c.locals # <<>> PROVE c.locals[1].name = NoName /\ Len(c.locals) <= at.height
  <2>1. c.locals[1].name = NoName
    BY <1>5 DEF Stood
  <2>2. Height(c) = Len(c.locals) /\ Len(c.locals) \in Nat
    BY <1>5, ContextType DEF Height
  <2>3. Len(c.locals) <= at.height
    BY <1>1, <1>2, <2>2
  <2> QED BY <2>1, <2>3
<1> QED BY <1>1, <1>2, <1>3, <1>4, <1>5 DEF Grounded

\* A statement that declares no local keeps the stack in step with the locals.
LEMMA KeptDone ==
  ASSUME NEW c \in Contexts, NEW d, NEW k \in Kinds, Kept(c, d, k)
  PROVE  Done(c, d, k)
<1>1. Grown(c, d) /\ d.depth = c.depth
  BY DEF Kept
<1>2. ASSUME ~d.err, Stood(c, k)
      PROVE  /\ Stood(d, k) /\ Begins(c.locals, d.locals)
             /\ \A i \in Len(c.locals) + 1 .. Len(d.locals) : d.locals[i].depth = c.depth
             /\ d.locals = c.locals
             /\ \A at : StandsAt(c, k, at) => Emits(c, d, at, InStep(d, at))
  <2>1. d.locals = c.locals /\ \A at : StandsAt(c, k, at) => Emits(c, d, at, at)
    BY <1>2 DEF Kept
  <2>2. Stood(d, k)
    BY <1>1, <1>2, <2>1 DEF Stood
  <2>3. Len(c.locals) \in Nat
    BY ContextType
  <2>4. Begins(c.locals, d.locals) /\ \A i \in Len(c.locals) + 1 .. Len(d.locals) : d.locals[i].depth = c.depth
    BY <2>1, <2>3 DEF Begins
  <2>5. ASSUME NEW at, StandsAt(c, k, at) PROVE Emits(c, d, at, InStep(d, at))
    <3>1. InStep(d, at) = InStep(c, at)
      BY <2>1 DEF InStep, Height
    <3> QED BY <2>1, <2>5, <3>1, StandsType
  <2> QED BY <2>1, <2>2, <2>4, <2>5
<1> QED BY <1>1, <1>2 DEF Done

\* So does one that leaves no value.
LEMMA PushedKept ==
  ASSUME NEW c \in Contexts, NEW d, NEW k \in Kinds, Pushed(c, d, 0)
  PROVE  Kept(c, d, k)
<1>1. Grown(c, d) /\ d.depth = c.depth /\ d.locals = c.locals
  BY DEF Pushed
<1>2. ASSUME NEW at, StandsAt(c, k, at), Stood(c, k) PROVE Emits(c, d, at, at)
  <2>1. Place(at) /\ Grounded(c, at)
    BY <1>2, StandsType
  <2>2. Raised(at, 0) = at
    BY <2>1, RaisedPlace
  <2> QED BY <2>1, <2>2 DEF Pushed
<1> QED BY <1>1, <1>2 DEF Kept

\* A place with the same trys open, and no fewer locals.
LEMMA AfterPlace ==
  ASSUME NEW c \in Contexts, NEW d \in Contexts, NEW k \in Kinds, NEW at, StandsAt(c, k, at), Begins(c.locals, d.locals)
  PROVE  StandsAt(d, k, InStep(d, at))
<1>1. Len(c.locals) \in Nat /\ Len(d.locals) \in Nat /\ Len(c.locals) <= Len(d.locals)
  BY ContextType DEF Begins
<1>2. (d.locals = <<>> => Len(d.locals) = 0) /\ (c.locals # <<>> => Len(c.locals) # 0) /\ (d.locals # <<>> => Len(d.locals) # 0)
      /\ (c.locals = <<>> => Len(c.locals) = 0)
  BY ContextType
<1>3. Height(c) \in Nat /\ Height(d) \in Nat /\ Height(c) <= Height(d)
  BY <1>1, <1>2 DEF Height
<1>4. Place(at) /\ at.height = Height(c)
  BY DEF StandsAt
<1> DEFINE n == Height(d) - Height(c)
<1>5. n \in Nat /\ at.height + n = Height(d)
  BY <1>3, <1>4
<1>6. InStep(d, at) = [height |-> at.height + n, open |-> at.open]
  BY <1>5 DEF InStep
<1> HIDE DEF n
<1>7. Place(InStep(d, at))
  BY <1>4, <1>5, <1>6, HigherPlace
<1>8. InStep(d, at).height = Height(d) /\ InStep(d, at).open = at.open
  BY DEF InStep
<1> QED BY <1>7, <1>8 DEF StandsAt

\* And so does an empty block.
LEMMA DoneNothing ==
  ASSUME NEW c \in Contexts, NEW k \in Kinds
  PROVE  Done(c, c, k)
<1>1. Kept(c, c, k)
  BY PushedNothing, PushedKept
<1> QED BY <1>1, KeptDone

\* Statements one after the other.
LEMMA DoneOn ==
  ASSUME NEW c \in Contexts, NEW d, NEW e, NEW k \in Kinds, Done(c, d, k), Done(d, e, k)
  PROVE  Done(c, e, k)
<1>1. Grown(c, d) /\ Grown(d, e) /\ Grown(c, e) /\ d \in Contexts /\ e \in Contexts /\ d.depth = c.depth /\ e.depth = c.depth
  BY GrownOn DEF Done, Grown
<1>2. ASSUME ~e.err, Stood(c, k)
      PROVE  /\ Stood(e, k) /\ Begins(c.locals, e.locals)
             /\ \A i \in Len(c.locals) + 1 .. Len(e.locals) : e.locals[i].depth = c.depth
             /\ c.depth = 0 => e.locals = c.locals
             /\ \A at : StandsAt(c, k, at) => Emits(c, e, at, InStep(e, at))
  <2>1. ~d.err
    BY <1>1, <1>2 DEF Grown
  <2>2. /\ Stood(d, k) /\ Begins(c.locals, d.locals)
        /\ \A i \in Len(c.locals) + 1 .. Len(d.locals) : d.locals[i].depth = c.depth
        /\ c.depth = 0 => d.locals = c.locals
        /\ \A at : StandsAt(c, k, at) => Emits(c, d, at, InStep(d, at))
    BY <1>2, <2>1 DEF Done
  <2>3. /\ Stood(e, k) /\ Begins(d.locals, e.locals)
        /\ \A i \in Len(d.locals) + 1 .. Len(e.locals) : e.locals[i].depth = d.depth
        /\ d.depth = 0 => e.locals = d.locals
        /\ \A at : StandsAt(d, k, at) => Emits(d, e, at, InStep(e, at))
    BY <1>2, <2>2 DEF Done
  <2>4. /\ c.locals \in Seq(Locals) /\ d.locals \in Seq(Locals) /\ e.locals \in Seq(Locals)
        /\ Len(c.locals) \in Nat /\ Len(d.locals) \in Nat /\ Len(e.locals) \in Nat
    BY <1>1, ContextType
  <2>5. Begins(c.locals, e.locals)
    BY <2>2, <2>3, <2>4, BeginsOn
  <2>6. ASSUME NEW i \in Len(c.locals) + 1 .. Len(e.locals) PROVE e.locals[i].depth = c.depth
    <3>1. i \in Len(c.locals) + 1 .. Len(d.locals) \/ i \in Len(d.locals) + 1 .. Len(e.locals)
      BY <2>4
    <3>2. CASE i \in Len(d.locals) + 1 .. Len(e.locals)
      BY <1>1, <2>3, <3>2
    <3>3. CASE i \in Len(c.locals) + 1 .. Len(d.locals)
      <4>1. i \in 1 .. Len(d.locals)
        BY <2>4, <3>3
      <4>2. e.locals[i] = d.locals[i]
        BY <2>3, <4>1 DEF Begins
      <4> QED BY <2>2, <3>3, <4>2
    <3> QED BY <3>1, <3>2, <3>3
  <2>7. ASSUME NEW at, StandsAt(c, k, at) PROVE Emits(c, e, at, InStep(e, at))
    <3>1. Emits(c, d, at, InStep(d, at)) /\ StandsAt(d, k, InStep(d, at))
      BY <1>1, <2>2, <2>7, AfterPlace
    <3>2. Emits(d, e, InStep(d, at), InStep(e, InStep(d, at)))
      BY <2>3, <3>1
    <3>3. InStep(e, InStep(d, at)) = InStep(e, at) /\ InStep(d, at).open = at.open
      BY DEF InStep
    <3> QED BY <3>1, <3>2, <3>3, EmitsOn
  <2> QED BY <1>1, <2>2, <2>3, <2>5, <2>6, <2>7
<1> QED BY <1>1, <1>2 DEF Done

\* A block stops where there is an error.
LEMMA DoneBlock ==
  ASSUME NEW S, NEW k \in Kinds, \A c \in Contexts : \A s \in S : Done(c, Node(c, s), k),
         \A c \in Contexts : \A b \in Seq(S) : Nodes(c, b) = CompileBlock(c, b)
  PROVE  \A c \in Contexts : \A b \in Seq(S) : Done(c, Nodes(c, b), k)
<1> DEFINE T == {n \in Nat : \A c \in Contexts : \A b \in Seq(S) : Len(b) = n => Done(c, Nodes(c, b), k)}
<1>1. 0 \in T
  <2>1. ASSUME NEW c \in Contexts, NEW b \in Seq(S), Len(b) = 0 PROVE Done(c, Nodes(c, b), k)
    <3>1. b = <<>>
      BY <2>1
    <3>2. Nodes(c, b) = c
      BY <3>1 DEF CompileBlock
    <3> QED BY <3>2, DoneNothing
  <2> QED BY <2>1
<1>2. ASSUME NEW n \in T PROVE n + 1 \in T
  <2>1. ASSUME NEW c \in Contexts, NEW b \in Seq(S), Len(b) = n + 1 PROVE Done(c, Nodes(c, b), k)
    <3>1. b # <<>> /\ Head(b) \in S /\ Tail(b) \in Seq(S) /\ Len(Tail(b)) = n
      BY <2>1
    <3>2. CASE c.err
      <4>1. Nodes(c, b) = c
        BY <3>2 DEF CompileBlock
      <4> QED BY <4>1, DoneNothing
    <3>3. CASE ~c.err
      <4>1. Nodes(c, b) = Nodes(Node(c, Head(b)), Tail(b))
        BY <3>1, <3>3 DEF CompileBlock
      <4>2. Done(c, Node(c, Head(b)), k) /\ Node(c, Head(b)) \in Contexts
        BY <3>1 DEF Done, Grown
      <4>3. Done(Node(c, Head(b)), Nodes(Node(c, Head(b)), Tail(b)), k)
        BY <3>1, <4>2
      <4> HIDE DEF T
      <4>4. Done(c, Nodes(Node(c, Head(b)), Tail(b)), k)
        BY <4>2, <4>3, DoneOn
      <4> QED BY <4>1, <4>4
    <3> QED BY <3>2, <3>3
  <2> QED BY <2>1
<1>3. T \in SUBSET Nat
  OBVIOUS
<1>4. T = Nat
  <2> HIDE DEF T
  <2> QED BY <1>1, <1>2, <1>3, SetInduction
<1> QED BY <1>4

-----------------------------------------------------------------------------
(***************************************************************************)
(* Scopes and locals.                                                      *)
(***************************************************************************)
LEMMA BeginScopeGrown ==
  ASSUME NEW c \in Contexts
  PROVE  /\ Grown(c, BeginScope(c)) /\ BeginScope(c) \in Contexts
         /\ BeginScope(c).code = c.code /\ Here(BeginScope(c)) = Here(c)
         /\ BeginScope(c).locals = c.locals /\ BeginScope(c).depth = c.depth + 1
         /\ BeginScope(c).err = c.err /\ BeginScope(c).pool = c.pool
<1> DEFINE d == BeginScope(c)
<1>1. /\ d.code = c.code /\ d.pool = c.pool /\ d.locals = c.locals /\ d.depth = c.depth + 1
      /\ d.nested = c.nested /\ d.script = c.script /\ d.fns = c.fns /\ d.err = c.err
  BY DEF BeginScope, Contexts
<1>2. d \in Contexts
  <2>1. c.depth + 1 \in Nat
    BY ContextType
  <2> QED BY <2>1 DEF BeginScope, Contexts
<1> HIDE DEF d
<1>3. AllFit(c) => AllFit(d)
  BY <1>1 DEF AllFit
<1>4. Grown(c, d)
  BY <1>1, <1>2, <1>3, ContextType DEF Grown
<1>5. Here(d) = Here(c)
  BY <1>1 DEF Here
<1> QED BY <1>1, <1>2, <1>4, <1>5 DEF d

\* A local more, or an error where there is no slot for it.
LEMMA AddLocalGrown ==
  ASSUME NEW c \in Contexts, NEW x \in Labels
  PROVE  /\ Grown(c, AddLocal(c, x)) /\ AddLocal(c, x) \in Contexts
         /\ AddLocal(c, x).code = c.code /\ Here(AddLocal(c, x)) = Here(c) /\ AddLocal(c, x).depth = c.depth
         /\ AddLocal(c, x).pool = c.pool
         /\ ~AddLocal(c, x).err => AddLocal(c, x).locals = Append(c.locals, [name |-> x, depth |-> c.depth])
         /\ ~c.err /\ Len(c.locals) < LocalsMax => ~AddLocal(c, x).err
<1> DEFINE d == AddLocal(c, x)
           l == [name |-> x, depth |-> c.depth]
<1>0. Len(c.locals) \in Nat /\ c.err \in BOOLEAN /\ c.depth \in Nat /\ c.locals \in Seq(Locals)
  BY ContextType
<1>1. CASE Len(c.locals) >= LocalsMax
  <2>1. /\ d.code = c.code /\ d.pool = c.pool /\ d.locals = c.locals /\ d.depth = c.depth
        /\ d.nested = c.nested /\ d.script = c.script /\ d.fns = c.fns /\ d.err = TRUE
    BY <1>1 DEF AddLocal, Contexts
  <2>2. d \in Contexts
    BY <1>1 DEF AddLocal, Contexts
  <2>5. ~(Len(c.locals) < LocalsMax)
    BY <1>0, <1>1, LimitsAssumption
  <2> HIDE DEF d
  <2>3. Grown(c, d)
    BY <2>1, <2>2, ContextType DEF Grown
  <2>4. Here(d) = Here(c)
    BY <2>1 DEF Here
  <2> QED BY <2>1, <2>2, <2>3, <2>4, <2>5 DEF d
<1>2. CASE ~(Len(c.locals) >= LocalsMax)
  <2>1. /\ d.code = c.code /\ d.pool = c.pool /\ d.locals = Append(c.locals, l) /\ d.depth = c.depth
        /\ d.nested = c.nested /\ d.script = c.script /\ d.fns = c.fns /\ d.err = c.err
    BY <1>2 DEF AddLocal, Contexts
  <2>2. d \in Contexts
    <3>1. l \in Locals
      BY <1>0 DEF Locals
    <3>2. Append(c.locals, l) \in Seq(Locals)
      <4> HIDE DEF l
      <4> QED BY <1>0, <3>1
    <3>3. d = [c EXCEPT !.locals = Append(c.locals, l)]
      BY <1>2 DEF AddLocal
    <3> HIDE DEF d, l
    <3> QED BY <3>2, <3>3 DEF Contexts
  <2> HIDE DEF d
  <2>3. AllFit(c) => AllFit(d)
    BY <2>1 DEF AllFit
  <2>4. Grown(c, d)
    BY <2>1, <2>2, <2>3, ContextType DEF Grown
  <2>5. Here(d) = Here(c)
    BY <2>1 DEF Here
  <2> QED BY <2>1, <2>2, <2>4, <2>5 DEF d, l
<1> QED BY <1>1, <1>2

\* What EndScope keeps of the locals.
LEMMA KeptLocals ==
  ASSUME NEW h \in Contexts
  PROVE  \E n \in 0 .. Len(h.locals) :
           /\ EndScope(h) = [h EXCEPT !.depth = @ - 1, !.locals = SubSeq(@, 1, n),
                                      !.code = @ \o [i \in 1 .. Len(h.locals) - n |-> <<"POP">>]]
           /\ \A i \in n + 1 .. Len(h.locals) : h.locals[i].depth >= h.depth
           /\ \A m \in 0 .. Len(h.locals) :
                (\A i \in m + 1 .. Len(h.locals) : h.locals[i].depth >= h.depth) => n <= m
<1> DEFINE L == Len(h.locals)
           ends == {n \in 0 .. L : \A i \in n + 1 .. L : h.locals[i].depth >= h.depth}
           n == CHOOSE n \in ends : \A m \in ends : n <= m
<1>1. L \in Nat
  BY ContextType
<1>2. L \in ends
  <2>1. L \in 0 .. L /\ ~\E i \in L + 1 .. L : TRUE
    <3> HIDE DEF L
    <3> QED BY <1>1
  <2> QED BY <2>1
<1>3. ends \in SUBSET Nat
  OBVIOUS
<1>4. \E x \in ends : \A y \in ends : x <= y
  <2> HIDE DEF ends
  <2> QED BY <1>2, <1>3, LeastNatural
<1>5. n \in ends /\ \A m \in ends : n <= m
  <2> HIDE DEF ends
  <2> QED BY <1>4
<1>6. EndScope(h) = [h EXCEPT !.depth = @ - 1, !.locals = SubSeq(@, 1, n),
                              !.code = @ \o [i \in 1 .. L - n |-> <<"POP">>]]
  BY DEF EndScope
<1> HIDE DEF n
<1>7. /\ n \in 0 .. L /\ (\A i \in n + 1 .. L : h.locals[i].depth >= h.depth)
      /\ \A m \in 0 .. L : (\A i \in m + 1 .. L : h.locals[i].depth >= h.depth) => n <= m
  BY <1>5
<1> QED BY <1>6, <1>7

\* A sequence begins what is joined to it.
LEMMA BeginsJoined ==
  ASSUME NEW S, NEW s \in Seq(S), NEW t \in Seq(S)
  PROVE  /\ s \o t \in Seq(S) /\ Begins(s, s \o t) /\ Len(s \o t) = Len(s) + Len(t)
         /\ \A i \in 1 .. Len(t) : (s \o t)[Len(s) + i] = t[i]
BY DEF Begins

\* EndScope emits POPs, and forgets locals.
LEMMA EndScopeGrown ==
  ASSUME NEW h \in Contexts, h.depth # 0
  PROVE  /\ Grown(h, EndScope(h)) /\ EndScope(h) \in Contexts /\ EndScope(h).depth = h.depth - 1
         /\ EndScope(h).pool = h.pool /\ EndScope(h).err = h.err
<1>1. PICK n \in 0 .. Len(h.locals) :
        EndScope(h) = [h EXCEPT !.depth = @ - 1, !.locals = SubSeq(@, 1, n),
                                !.code = @ \o [i \in 1 .. Len(h.locals) - n |-> <<"POP">>]]
  BY KeptLocals
<1> DEFINE w == EndScope(h)
           pops == [i \in 1 .. Len(h.locals) - n |-> <<"POP">>]
<1>2. /\ Len(h.locals) \in Nat /\ n \in Nat /\ h.depth \in Nat /\ h.locals \in Seq(Locals) /\ h.code \in Seq(Instructions)
      /\ Len(h.locals) - n \in Nat
  BY <1>1, ContextType
<1>3. pops \in Seq(Instructions)
  <2>1. <<"POP">> \in Instructions
    BY OpEffect
  <2> QED BY <1>2, <2>1
<1>4. h.code \o pops \in Seq(Instructions) /\ Begins(h.code, h.code \o pops)
  <2> HIDE DEF pops
  <2> QED BY <1>2, <1>3, BeginsJoined
<1>5. SubSeq(h.locals, 1, n) \in Seq(Locals)
  BY <1>2
<1>6. h.depth - 1 \in Nat
  BY <1>2
<1>7. w = [h EXCEPT !.depth = h.depth - 1, !.locals = SubSeq(h.locals, 1, n), !.code = h.code \o pops]
  BY <1>1
<1> HIDE DEF w, pops
<1>8. /\ w.code = h.code \o pops /\ w.pool = h.pool /\ w.depth = h.depth - 1
      /\ w.nested = h.nested /\ w.script = h.script /\ w.fns = h.fns /\ w.err = h.err
  BY <1>7 DEF Contexts
<1>9. w \in Contexts
  BY <1>4, <1>5, <1>6, <1>7 DEF Contexts
<1>10. AllFit(h) => AllFit(w)
  BY <1>8 DEF AllFit
<1>11. Grown(h, w)
  BY <1>4, <1>8, <1>9, <1>10, ContextType DEF Grown
<1> QED BY <1>8, <1>9, <1>11 DEF w

\* The locals that were declared since the scope began are popped.
LEMMA EndScopeEmits ==
  ASSUME NEW c \in Contexts, NEW h \in Contexts, h.depth = c.depth + 1, Begins(c.locals, h.locals),
         \A i \in 1 .. Len(c.locals) : c.locals[i].depth <= c.depth,
         \A i \in Len(c.locals) + 1 .. Len(h.locals) : h.locals[i].depth = h.depth,
         c.locals = <<>> => h.locals = <<>>,
         NEW at, Place(at), at.height = Height(c)
  PROVE  EndScope(h).locals = c.locals /\ Emits(h, EndScope(h), InStep(h, at), at)
<1> DEFINE w == EndScope(h)
           L == Len(h.locals)
           l == Len(c.locals)
<1>0. /\ L \in Nat /\ l \in Nat /\ l <= L /\ c.depth \in Nat /\ h.depth \in Nat /\ h.code \in Seq(Instructions)
      /\ c.locals \in Seq(Locals) /\ h.locals \in Seq(Locals)
  BY ContextType DEF Begins
<1>1. PICK n \in 0 .. L :
        /\ w = [h EXCEPT !.depth = @ - 1, !.locals = SubSeq(@, 1, n),
                         !.code = @ \o [i \in 1 .. L - n |-> <<"POP">>]]
        /\ \A i \in n + 1 .. L : h.locals[i].depth >= h.depth
        /\ \A m \in 0 .. L : (\A i \in m + 1 .. L : h.locals[i].depth >= h.depth) => n <= m
  BY KeptLocals
<1>2. n = l
  <2>1. n <= l
    <3>1. l \in 0 .. L /\ \A i \in l + 1 .. L : h.locals[i].depth >= h.depth
      BY <1>0
    <3> HIDE DEF L, l, w
    <3> QED BY <1>1, <3>1
  <2>2. CASE n < l
    <3>1. l \in n + 1 .. L /\ l \in 1 .. l
      <4> HIDE DEF L, l
      <4> QED BY <1>0, <2>2
    <3>2. h.locals[l].depth >= h.depth
      <4> HIDE DEF L, l, w
      <4> QED BY <1>1, <3>1
    <3>3. h.locals[l] = c.locals[l] /\ c.locals[l].depth <= c.depth
      BY <3>1 DEF Begins
    <3>4. c.locals[l].depth \in Nat
      <4>1. c.locals[l] \in Locals
        BY <1>0, <3>1
      <4> QED BY <4>1 DEF Locals
    <3> HIDE DEF l, L, w
    <3> QED BY <1>0, <3>2, <3>3, <3>4
  <2> HIDE DEF l, L, w
  <2> QED BY <1>0, <2>1, <2>2
<1> DEFINE k == L - l
           pops == [i \in 1 .. k |-> <<"POP">>]
<1>3. k \in Nat
  <2> HIDE DEF L, l
  <2> QED BY <1>0
<1>4. pops \in Seq(Instructions) /\ Len(pops) = k /\ \A i \in 1 .. k : pops[i] = <<"POP">>
  <2>1. <<"POP">> \in Instructions
    BY OpEffect
  <2>2. PICK I : I = <<"POP">>
    OBVIOUS
  <2>3. I \in Instructions /\ pops = [i \in 1 .. k |-> I]
    BY <2>1, <2>2
  <2> HIDE DEF k, pops
  <2>4. pops \in [1 .. k -> Instructions] /\ \A i \in 1 .. k : pops[i] = I
    BY <2>3
  <2> QED BY <1>3, <2>2, <2>4
<1>5. w = [h EXCEPT !.depth = h.depth - 1, !.locals = SubSeq(h.locals, 1, l), !.code = h.code \o pops]
  BY <1>1, <1>2
<1>6. /\ w.code = h.code \o pops /\ w.locals = SubSeq(h.locals, 1, l) /\ w.nested = h.nested
  BY <1>5 DEF Contexts
<1>7. SubSeq(h.locals, 1, l) = c.locals
  BY <1>0 DEF Begins
<1> HIDE DEF w
<1>8. Grown(h, w) /\ w \in Contexts
  <2>1. h.depth # 0
    BY <1>0
  <2> QED BY <2>1, EndScopeGrown DEF w
<1>9. Here(h) = Len(h.code) + 1 /\ Len(h.code) \in Nat /\ Here(h) \in Nat
  BY ContextType
<1>9a. Len(h.code \o pops) = Len(h.code) + Len(pops) /\ \A i \in 1 .. Len(pops) : (h.code \o pops)[Len(h.code) + i] = pops[i]
  <2>1. pops \in Seq(Instructions) /\ h.code \in Seq(Instructions)
    BY <1>0, <1>4
  <2> HIDE DEF pops, k
  <2> QED BY <2>1
<1>10. \A i \in 1 .. k : w.code[Len(h.code) + i] = <<"POP">>
  <2> DEFINE q == h.code \o pops
  <2>1. w.code = q /\ Len(pops) = k /\ (\A i \in 1 .. Len(pops) : q[Len(h.code) + i] = pops[i])
        /\ \A i \in 1 .. k : pops[i] = <<"POP">>
    BY <1>4, <1>6, <1>9a
  <2> HIDE DEF pops, k, q
  <2> QED BY <2>1
<1>11. Here(w) = Here(h) + k
  <2>1. Len(w.code) = Len(h.code) + k
    <3> HIDE DEF pops, k
    <3> QED BY <1>4, <1>6, <1>9a
  <2> HIDE DEF k
  <2> QED BY <1>3, <1>9, <2>1 DEF Here
<1>12. Height(c) \in Nat /\ Height(h) = Height(c) + k
  <2>1. (c.locals = <<>> <=> l = 0) /\ (h.locals = <<>> <=> L = 0)
    BY <1>0
  <2>2. CASE c.locals = <<>>
    <3>1. Height(c) = 1 /\ Height(h) = 1 /\ l = 0 /\ L = 0
      BY <2>1, <2>2 DEF Height
    <3> QED BY <3>1
  <2>3. CASE c.locals # <<>>
    <3>1. Height(c) = l /\ Height(h) = L
      <4>1. h.locals # <<>>
        <5> HIDE DEF L, l
        <5> QED BY <1>0, <2>1, <2>3
      <4> QED BY <2>3, <4>1 DEF Height
    <3> HIDE DEF l, L
    <3> QED BY <1>0, <3>1
  <2> QED BY <2>2, <2>3
<1> HIDE DEF k, pops, L, l
<1>13. Place(InStep(h, at)) /\ InStep(h, at).height = Height(c) + k /\ InStep(h, at).open = at.open
       /\ Floor(InStep(h, at)) = Floor(at)
  BY <1>3, <1>12, HigherPlace DEF InStep
<1>14. Floor(InStep(h, at)) <= InStep(h, at).height - k
  <2>1. Floor(at) <= at.height /\ at.height \in Nat /\ Floor(at) \in Nat
    BY PlaceType
  <2>2. PICK y : y = InStep(h, at)
    OBVIOUS
  <2>3. y.height = Height(c) + k /\ Floor(y) = Floor(at)
    BY <1>13, <2>2
  <2>4. y.height - k = at.height
    BY <1>3, <1>12, <2>3
  <2>5. Floor(y) <= y.height - k
    BY <2>1, <2>3, <2>4
  <2> QED BY <2>2, <2>5
<1>15. \A ip \in Here(h) .. Here(h) + k - 1 : w.code[ip] = <<"POP">>
  <2>1. PICK m \in Nat : m = Len(h.code)
    BY <1>9
  <2>2. Here(h) = m + 1 /\ \A i \in 1 .. k : w.code[m + i] = <<"POP">>
    BY <1>9, <1>10, <2>1
  <2>3. \A ip \in m + 1 .. m + 1 + k - 1 : ip - m \in 1 .. k /\ m + (ip - m) = ip
    BY <1>3
  <2> QED BY <2>2, <2>3
<1>16. at = [height |-> InStep(h, at).height - k, open |-> InStep(h, at).open]
  <2>1. InStep(h, at).height - k = at.height
    BY <1>3, <1>12, <1>13
  <2>2. at = [height |-> at.height, open |-> at.open]
    BY PlaceType
  <2> QED BY <1>13, <2>1, <2>2
<1>17. Segment(w, Here(h), Here(h) + k, InStep(h, at), at)
  BY <1>3, <1>9, <1>13, <1>14, <1>15, <1>16, PopSegment
<1>18. Emits(h, w, InStep(h, at), at)
  BY <1>8, <1>11, <1>17 DEF Emits
<1> QED BY <1>6, <1>7, <1>18 DEF w

\* What emits nothing leads from a place to the same.
LEMMA SameCode ==
  ASSUME NEW c \in Contexts, NEW d, Grown(c, d), d.code = c.code, NEW at, Place(at)
  PROVE  Emits(c, d, at, at)
<1>1. Here(d) = Here(c) /\ Here(c) \in Nat
  BY ContextType DEF Here
<1>2. Segment(d, Here(c), Here(d), at, at)
  BY <1>1, NoCode
<1> QED BY <1>2 DEF Emits

\* Where a statement stands depends on locals and depth only.
LEMMA StoodSame ==
  ASSUME NEW c, NEW d, d.locals = c.locals, d.depth = c.depth, NEW k
  PROVE  /\ Stood(c, k) => Stood(d, k)
         /\ \A at : StandsAt(c, k, at) <=> StandsAt(d, k, at)
BY DEF Stood, StandsAt, Height

\* A block in a scope of its own.
LEMMA ScopedKept ==
  ASSUME NEW c \in Contexts, NEW k \in Kinds, NEW b, \A d \in Contexts : Done(d, Nodes(d, b), Inside(k))
  PROVE  Kept(c, Scoped(c, b), k)
<1> DEFINE d == BeginScope(c)
           h == Nodes(d, b)
           w == EndScope(h)
<1>1. /\ Grown(c, d) /\ d \in Contexts /\ d.code = c.code /\ d.locals = c.locals /\ d.depth = c.depth + 1
      /\ c.depth \in Nat /\ Inside(k) \in Kinds
  <2>1. Inside(k) \in Kinds
    BY DEF Inside, Kinds
  <2> QED BY <2>1, BeginScopeGrown, ContextType
<1>2. Scoped(c, b) = w
  BY DEF Scoped
<1> HIDE DEF d
<1>3. Done(d, h, Inside(k))
  BY <1>1
<1>4. Grown(d, h) /\ h \in Contexts /\ h.depth = c.depth + 1
  BY <1>1, <1>3 DEF Done, Grown
<1>5. h.depth # 0
  BY <1>1, <1>4
<1> HIDE DEF h
<1>6. Grown(h, w) /\ w \in Contexts /\ w.depth = h.depth - 1 /\ w.err = h.err
  BY <1>4, <1>5, EndScopeGrown
<1> HIDE DEF w
<1>7. Grown(c, w) /\ w.depth = c.depth
  <2>1. Grown(c, w)
    BY <1>1, <1>4, <1>6, GrownOn
  <2> QED BY <1>1, <1>4, <1>6, <2>1
<1>8. ASSUME ~w.err, Stood(c, k)
      PROVE  w.locals = c.locals /\ \A at : StandsAt(c, k, at) => Emits(c, w, at, at)
  <2>1. Stood(d, Inside(k))
    <3>1. \A i \in 1 .. Len(c.locals) : c.locals[i].depth <= c.depth + 1
      <4>1. ASSUME NEW i \in 1 .. Len(c.locals) PROVE c.locals[i].depth <= c.depth + 1
        <5>1. c.locals[i] \in Locals
          BY ContextType
        <5>2. c.locals[i].depth \in Nat /\ c.locals[i].depth <= c.depth
          BY <1>8, <5>1 DEF Stood, Locals
        <5> QED BY <1>1, <5>2
      <4> QED BY <4>1
    <3>2. /\ k \in {"free", "guarded"} => Inside(k) = k
          /\ k \notin {"free", "guarded"} => Inside(k) = "inner"
      BY DEF Inside, Kinds
    <3>3. CASE k \in {"free", "guarded"}
      <4>1. c.locals # <<>> /\ c.locals[1].name = NoName
        BY <1>8, <3>3 DEF Stood
      <4> QED BY <1>1, <3>1, <3>2, <3>3, <4>1 DEF Stood
    <3>4. CASE k \notin {"free", "guarded"}
      <4>1. c.locals = <<>>
        BY <1>8, <3>4 DEF Stood
      <4> QED BY <1>1, <3>1, <3>2, <3>4, <4>1 DEF Stood
    <3> QED BY <3>3, <3>4
  <2>2. /\ Begins(c.locals, h.locals) /\ Stood(h, Inside(k))
        /\ \A i \in Len(c.locals) + 1 .. Len(h.locals) : h.locals[i].depth = h.depth
        /\ \A at : StandsAt(d, Inside(k), at) => Emits(d, h, at, InStep(h, at))
    BY <1>1, <1>3, <1>4, <1>6, <1>8, <2>1 DEF Done
  <2>3. c.locals = <<>> => h.locals = <<>>
    <3>1. c.locals = <<>> => Inside(k) = "inner"
      BY <1>8 DEF Stood, Inside, Kinds
    <3> QED BY <2>2, <3>1 DEF Stood
  <2>4. \A i \in 1 .. Len(c.locals) : c.locals[i].depth <= c.depth
    BY <1>8 DEF Stood
  <2>5. ASSUME NEW at, Place(at), at.height = Height(c)
        PROVE  w.locals = c.locals /\ Emits(h, w, InStep(h, at), at)
    BY <1>4, <2>2, <2>3, <2>4, <2>5, EndScopeEmits DEF w
  <2>6. w.locals = c.locals
    <3> DEFINE at == [height |-> Height(c), open |-> <<>>]
    <3>1. Height(c) \in Nat /\ Height(c) >= 1
      <4>1. Len(c.locals) \in Nat /\ (c.locals # <<>> => Len(c.locals) # 0)
        BY ContextType
      <4> QED BY <4>1 DEF Height
    <3>2. at \in Places /\ Floor(at) = 1 /\ at.open = <<>>
      BY <3>1 DEF Places, Floor
    <3>3. Orderly(at.open)
      BY <3>2 DEF Orderly
    <3>4. Place(at) /\ at.height = Height(c)
      BY <3>1, <3>2, <3>3 DEF Place
    <3> HIDE DEF at
    <3> QED BY <2>5, <3>4
  <2>7. ASSUME NEW at, StandsAt(c, k, at) PROVE Emits(c, w, at, at)
    <3>1. Place(at) /\ at.height = Height(c) /\ (k # "guarded" => at.open = <<>>)
      BY <2>7 DEF StandsAt
    <3>2. StandsAt(d, Inside(k), at)
      BY <1>1, <3>1 DEF StandsAt, Height, Inside
    <3>3. Emits(c, d, at, at)
      BY <1>1, <3>1, SameCode
    <3>4. Emits(d, h, at, InStep(h, at)) /\ Emits(h, w, InStep(h, at), at) /\ InStep(h, at).open = at.open
      BY <2>2, <2>5, <3>1, <3>2 DEF InStep
    <3>5. Emits(c, h, at, InStep(h, at))
      BY <3>3, <3>4, EmitsOn
    <3> QED BY <3>4, <3>5, EmitsOn
  <2> QED BY <2>6, <2>7
<1>9. Kept(c, w, k)
  BY <1>7, <1>8 DEF Kept
<1> QED BY <1>2, <1>9

\* One block or the other.
LEMMA ForkKept ==
  ASSUME NEW c \in Contexts, NEW k \in Kinds, NEW t, Pushed(c, t, 1),
         NEW j, j = EmitJump(t, "JUMP_IF_FALSE"), NEW r, Kept(Emit(j, <<"POP">>), r, k),
         NEW v, v = Patch(EmitJump(r, "JUMP"), Here(t)), NEW s, Kept(Emit(v, <<"POP">>), s, k)
  PROVE  v \in Contexts /\ Len(v.code) = Here(r) /\ Kept(c, Patch(s, Here(r)), k)
<1> DEFINE e == Emit(j, <<"POP">>)
           f == Emit(v, <<"POP">>)
           w == Patch(s, Here(r))
<1>0. "JUMP_IF_FALSE" \in Patched /\ 1 \in Nat
  BY DEF Patched
<1>1. t \in Contexts /\ Grown(c, t) /\ t.locals = c.locals /\ t.depth = c.depth
  BY DEF Pushed, Grown
<1>2. j \in Contexts /\ j.locals = c.locals /\ j.depth = c.depth
  BY <1>0, <1>1, EmitJumpGrown
<1>3. /\ Grown(j, e) /\ e \in Contexts /\ e.locals = c.locals /\ e.depth = c.depth
      /\ \A at : Place(at) => Emits(j, e, Raised(at, 1), at)
  BY <1>2, Popped
<1>4. Grown(e, r) /\ r.depth = c.depth /\ Grown(j, r)
  BY <1>2, <1>3, GrownOn DEF Kept
<1>5. v \in Contexts /\ Len(v.code) = Here(r) /\ v.locals = r.locals /\ v.depth = c.depth /\ v.err = r.err
  BY <1>1, <1>4, ForkContext
<1>6. /\ Grown(v, f) /\ f \in Contexts /\ f.locals = r.locals /\ f.depth = c.depth
      /\ \A at : Place(at) => Emits(v, f, Raised(at, 1), at)
  BY <1>5, Popped
<1>7. Grown(f, s) /\ s.depth = c.depth /\ Grown(v, s)
  BY <1>5, <1>6, GrownOn DEF Kept
<1>8. Grown(t, w) /\ w.locals = s.locals /\ w.depth = c.depth /\ w.err = s.err
  BY <1>1, <1>4, <1>7, ForkClosed
<1>9. Grown(c, w)
  BY <1>1, <1>8, GrownOn
<1> HIDE DEF e, f, w
<1>10. ASSUME ~w.err, Stood(c, k)
       PROVE  w.locals = c.locals /\ \A at : StandsAt(c, k, at) => Emits(c, w, at, at)
  <2>1. ~s.err /\ ~v.err /\ ~r.err
    BY <1>5, <1>7, <1>8, <1>10 DEF Grown
  <2>2. Stood(e, k) /\ \A at : StandsAt(c, k, at) <=> StandsAt(e, k, at)
    BY <1>3, <1>10, StoodSame
  <2>3. r.locals = c.locals /\ \A at : StandsAt(e, k, at) => Emits(e, r, at, at)
    BY <1>3, <2>1, <2>2 DEF Kept, e
  <2>4. f.locals = c.locals
    BY <1>6, <2>3
  <2>5. Stood(f, k) /\ \A at : StandsAt(c, k, at) <=> StandsAt(f, k, at)
    BY <1>6, <1>10, <2>4, StoodSame
  <2>6. s.locals = c.locals /\ \A at : StandsAt(f, k, at) => Emits(f, s, at, at)
    BY <2>1, <2>4, <2>5 DEF Kept, f
  <2>7. ASSUME NEW at, StandsAt(c, k, at) PROVE Emits(c, w, at, at)
    <3> DEFINE x == Raised(at, 1)
    <3>1. Place(at) /\ Grounded(c, at)
      BY <1>10, <2>7, StandsType
    <3>2. Place(x) /\ x.open = at.open /\ 1 <= x.height - Floor(x)
      <4>1. /\ Place(x) /\ x.open = at.open /\ x.height = at.height + 1 /\ Floor(x) = Floor(at)
            /\ at.height \in Nat /\ Floor(at) \in Nat /\ Floor(at) <= at.height
        BY <1>0, <3>1, RaisedPlace, PlaceType
      <4> HIDE DEF x
      <4> QED BY <4>1
    <3>3. Emits(j, e, x, at) /\ Emits(v, f, x, at) /\ Emits(e, r, at, at) /\ Emits(f, s, at, at)
      BY <1>3, <1>6, <2>2, <2>3, <2>5, <2>6, <2>7, <3>1
    <3>4. Emits(c, t, at, x)
      BY <3>1 DEF Pushed
    <3> HIDE DEF x
    <3>5. Emits(j, r, x, at) /\ Emits(v, s, x, at)
      BY <1>2, <1>5, <3>2, <3>3, EmitsOn
    <3>6. Emits(t, w, x, at)
      <4>1. Emits(EmitJump(t, "JUMP_IF_FALSE"), r, x, at)
        BY <3>5
      <4> QED BY <1>1, <3>1, <3>2, <3>5, <4>1, ForkEmits DEF w
    <3> QED BY <3>2, <3>4, <3>6, EmitsOn
  <2> QED BY <1>8, <2>6, <2>7
<1>11. Kept(c, w, k)
  BY <1>8, <1>9, <1>10 DEF Kept
<1> QED BY <1>5, <1>11 DEF w
\* A test and a block, again and again.
LEMMA LoopKept ==
  ASSUME NEW c \in Contexts, NEW k \in Kinds, NEW t, Pushed(c, t, 1),
         NEW j, j = EmitJump(t, "JUMP_IF_FALSE"), NEW r, Kept(Emit(j, <<"POP">>), r, k),
         NEW w, w = Patch(Emit(r, <<"LOOP", Here(c)>>), Here(t))
  PROVE  Kept(c, Emit(w, <<"POP">>), k)
<1> DEFINE e == Emit(j, <<"POP">>)
           l == Emit(r, <<"LOOP", Here(c)>>)
           z == Emit(w, <<"POP">>)
<1>0. "JUMP_IF_FALSE" \in Patched /\ 1 \in Nat
  BY DEF Patched
<1>1. t \in Contexts /\ Grown(c, t) /\ t.locals = c.locals /\ t.depth = c.depth
  BY DEF Pushed, Grown
<1>2. j \in Contexts /\ j.locals = c.locals /\ j.depth = c.depth
  BY <1>0, <1>1, EmitJumpGrown
<1>3. /\ Grown(j, e) /\ e \in Contexts /\ e.locals = c.locals /\ e.depth = c.depth
      /\ \A at : Place(at) => Emits(j, e, Raised(at, 1), at)
  BY <1>2, Popped
<1>4. Grown(e, r) /\ r \in Contexts /\ r.depth = c.depth /\ Grown(j, r)
  BY <1>2, <1>3, GrownOn DEF Kept, Grown
<1>5. <<"LOOP", Here(c)>> \in Instructions
  BY ContextType DEF Instructions, Opcodes, Moving
<1>6. Grown(r, l) /\ l \in Contexts /\ l.locals = r.locals /\ l.depth = c.depth /\ l.err = r.err
  BY <1>4, <1>5, EmitGrown
<1>7. Grown(j, l)
  BY <1>2, <1>4, <1>6, GrownOn
<1>8. Grown(t, l) /\ Here(t) \in 1 .. Len(l.code) /\ Len(t.code) < Here(t) /\ l.code[Here(t)][1] = "JUMP_IF_FALSE"
  BY <1>0, <1>1, <1>7, JumpKept
<1>9. w \in Contexts /\ w.locals = r.locals /\ w.depth = c.depth /\ w.err = r.err /\ Grown(t, w)
  BY <1>0, <1>1, <1>6, <1>8, PatchContext, PatchGrown
<1>10. /\ Grown(w, z) /\ z.locals = r.locals /\ z.depth = c.depth /\ z.err = r.err
       /\ \A at : Place(at) => Emits(w, z, Raised(at, 1), at)
  BY <1>9, Popped
<1>11. Grown(c, w) /\ Grown(c, z)
  BY <1>1, <1>9, <1>10, GrownOn
<1> HIDE DEF e, z
<1>12. ASSUME ~z.err, Stood(c, k)
       PROVE  z.locals = c.locals /\ \A at : StandsAt(c, k, at) => Emits(c, z, at, at)
  <2>1. ~r.err
    BY <1>10, <1>12
  <2>2. Stood(e, k) /\ \A at : StandsAt(c, k, at) <=> StandsAt(e, k, at)
    BY <1>3, <1>12, StoodSame
  <2>3. r.locals = c.locals /\ \A at : StandsAt(e, k, at) => Emits(e, r, at, at)
    BY <1>3, <2>1, <2>2 DEF Kept, e
  <2>4. ASSUME NEW at, StandsAt(c, k, at) PROVE Emits(c, z, at, at)
    <3> DEFINE x == Raised(at, 1)
    <3>1. Place(at) /\ Grounded(c, at)
      BY <1>12, <2>4, StandsType
    <3>2. Place(x) /\ x.open = at.open /\ 1 <= x.height - Floor(x)
      <4>1. /\ Place(x) /\ x.open = at.open /\ x.height = at.height + 1 /\ Floor(x) = Floor(at)
            /\ at.height \in Nat /\ Floor(at) \in Nat /\ Floor(at) <= at.height
        BY <1>0, <3>1, RaisedPlace, PlaceType
      <4> HIDE DEF x
      <4> QED BY <4>1
    <3>3. Emits(j, e, x, at) /\ Emits(w, z, x, at) /\ Emits(e, r, at, at)
      BY <1>3, <1>10, <2>2, <2>3, <2>4, <3>1
    <3>4. Emits(c, t, at, x)
      BY <3>1 DEF Pushed
    <3> HIDE DEF x
    <3>5. Emits(j, r, x, at)
      BY <1>2, <3>2, <3>3, EmitsOn
    <3>6. Emits(c, w, at, x)
      <4>1. Emits(EmitJump(t, "JUMP_IF_FALSE"), r, x, at)
        BY <3>5
      <4> QED BY <3>1, <3>2, <3>4, <4>1, LoopEmits
    <3> QED BY <3>2, <3>3, <3>6, EmitsOn
  <2> QED BY <1>10, <2>3, <2>4
<1>13. Kept(c, z, k)
  BY <1>10, <1>11, <1>12 DEF Kept
<1> QED BY <1>13 DEF z

\* A value becomes a local, or a global outside every scope.
LEMMA DeclareDone ==
  ASSUME NEW c \in Contexts, NEW k \in Kinds, k # "inner", NEW d, Pushed(c, d, 1), NEW x \in Names
  PROVE  Done(c, Declare(d, x), k)
<1>0. d \in Contexts /\ Grown(c, d) /\ d.locals = c.locals /\ d.depth = c.depth /\ c.depth \in Nat /\ x \in Labels
      /\ 1 \in Nat
  BY ContextType DEF Pushed, Grown, Labels
<1>1. CASE c.depth = 0
  <2>1. Declare(d, x) = WithConst(d, "DEFINE_GLOBAL", x)
    BY <1>0, <1>1 DEF Declare
  <2>2. x \in Constants /\ 1 \in 0 .. 1 /\ 0 \in Nat /\ 1 - 1 + 0 = 0
    BY DEF Constants, Names
  <2>3. Pushed(c, WithConst(d, "DEFINE_GLOBAL", x), 1 - 1 + 0)
    BY <1>0, <2>2, ConstEffect, PushedConst
  <2>4. Pushed(c, Declare(d, x), 0)
    BY <2>1, <2>2, <2>3
  <2> QED BY <2>4, PushedKept, KeptDone
<1>2. CASE c.depth > 0
  <2> DEFINE a == AddLocal(d, x)
             l == [name |-> x, depth |-> c.depth]
  <2>1. Declare(d, x) = a
    BY <1>0, <1>2 DEF Declare
  <2>2. /\ Grown(d, a) /\ a \in Contexts /\ a.code = d.code /\ a.depth = c.depth
        /\ ~a.err => a.locals = Append(c.locals, l)
    BY <1>0, AddLocalGrown
  <2> HIDE DEF a
  <2>3. Grown(c, a)
    BY <1>0, <2>2, GrownOn
  <2>4. ASSUME ~a.err, Stood(c, k)
        PROVE  /\ Stood(a, k) /\ Begins(c.locals, a.locals)
               /\ \A i \in Len(c.locals) + 1 .. Len(a.locals) : a.locals[i].depth = c.depth
               /\ \A at : StandsAt(c, k, at) => Emits(c, a, at, InStep(a, at))
    <3>1. k \in {"free", "guarded"}
      <4>1. k = "module" => c.depth = 0
        BY <2>4 DEF Stood
      <4>2. c.depth # 0
        BY <1>2
      <4> QED BY <4>1, <4>2 DEF Kinds
    <3>2. c.locals # <<>> /\ c.locals[1].name = NoName /\ \A i \in 1 .. Len(c.locals) : c.locals[i].depth <= c.depth
      BY <2>4, <3>1 DEF Stood
    <3>3. Len(c.locals) \in Nat /\ Len(c.locals) >= 1
      <4>1. c.locals \in Seq(Locals) /\ Len(c.locals) \in Nat
        BY ContextType
      <4>2. Len(c.locals) # 0
        <5>1. c.locals # <<>>
          BY <3>2
        <5> QED BY <4>1, <5>1
      <4> QED BY <4>1, <4>2
    <3>4. /\ l \in Locals /\ c.locals \in Seq(Locals) /\ l.depth = c.depth
      BY <1>0, ContextType DEF Locals
    <3>5. /\ Begins(c.locals, a.locals) /\ Len(a.locals) = Len(c.locals) + 1 /\ a.locals[Len(c.locals) + 1] = l
      <4>1. a.locals = Append(c.locals, l)
        BY <2>2, <2>4
      <4> HIDE DEF l
      <4>2. /\ Begins(c.locals, Append(c.locals, l)) /\ Len(Append(c.locals, l)) = Len(c.locals) + 1
            /\ Append(c.locals, l)[Len(c.locals) + 1] = l
        BY <3>4, BeginsAppend
      <4> QED BY <4>1, <4>2
    <3>6. \A i \in 1 .. Len(c.locals) : a.locals[i] = c.locals[i]
      BY <3>5 DEF Begins
    <3>7. \A i \in Len(c.locals) + 1 .. Len(a.locals) : a.locals[i].depth = c.depth
      <4>1. \A i \in Len(c.locals) + 1 .. Len(a.locals) : i = Len(c.locals) + 1
        BY <3>3, <3>5
      <4> HIDE DEF l
      <4> QED BY <3>4, <3>5, <4>1
    <3>8. \A i \in 1 .. Len(a.locals) : a.locals[i].depth <= a.depth
      <4>1. \A i \in 1 .. Len(a.locals) : i \in 1 .. Len(c.locals) \/ i \in Len(c.locals) + 1 .. Len(a.locals)
        BY <3>3, <3>5
      <4>2. c.depth <= c.depth
        BY <1>0
      <4> QED BY <2>2, <3>2, <3>6, <3>7, <4>1, <4>2
    <3>9. Stood(a, k)
      <4>1. a.locals # <<>> /\ a.locals[1].name = NoName
        <5>1. 1 \in 1 .. Len(c.locals) /\ Len(a.locals) # 0
          BY <3>3, <3>5
        <5>2. a.locals[1] = c.locals[1]
          BY <3>6, <5>1
        <5>3. a.locals # <<>>
          <6>1. a.locals = <<>> => Len(a.locals) = 0
            OBVIOUS
          <6> QED BY <5>1, <6>1
        <5> QED BY <3>2, <5>2, <5>3
      <4> QED BY <3>1, <3>8, <4>1 DEF Stood
    <3>10. ASSUME NEW at, StandsAt(c, k, at) PROVE Emits(c, a, at, InStep(a, at))
      <4> DEFINE y == Raised(at, 1)
      <4>1. Place(at) /\ at.height = Len(c.locals) /\ Grounded(c, at)
        BY <2>4, <3>2, <3>10, StandsType DEF Height
      <4>2. InStep(a, at) = y
        <5>1. Height(a) = Len(c.locals) + 1
          BY <3>3, <3>5 DEF Height
        <5> QED BY <4>1, <5>1 DEF InStep, Raised
      <4>3. Place(y) /\ y.open = at.open
        BY <1>0, <4>1, RaisedPlace
      <4>4. Emits(c, d, at, y)
        BY <4>1 DEF Pushed
      <4> HIDE DEF y
      <4>5. Emits(d, a, y, y)
        BY <1>0, <2>2, <4>3, SameCode
      <4> QED BY <4>2, <4>3, <4>4, <4>5, EmitsOn
    <3> QED BY <3>5, <3>7, <3>9, <3>10
  <2>5. Done(c, a, k)
    <3>1. c.depth # 0
      BY <1>2
    <3> QED BY <2>2, <2>3, <2>4, <3>1 DEF Done
  <2> QED BY <2>1, <2>5
<1> QED BY <1>0, <1>1, <1>2

-----------------------------------------------------------------------------
(***************************************************************************)
(* Functions and modules: each is compiled in a context of its own.        *)
(***************************************************************************)
LEMMA NestedContext ==
  ASSUME NEW c \in Contexts, NEW level \in Nat
  PROVE  /\ Nested(c, level) \in Contexts /\ Nested(c, level).code = <<>> /\ Nested(c, level).pool = <<>>
         /\ Nested(c, level).locals = <<>> /\ Nested(c, level).depth = level /\ Nested(c, level).nested
         /\ Nested(c, level).script = c.script /\ Nested(c, level).fns = c.fns /\ Nested(c, level).err = c.err
BY DEF Nested, Contexts

\* Numbers up to one more than another.
LEMMA OneMore ==
  ASSUME NEW a \in Nat, NEW n \in Nat, NEW b, b = a + 1, NEW e, e = b + n
  PROVE  /\ e = a + (n + 1) /\ a + 1 \in 1 .. b
         /\ \A i \in a + 1 .. e : i = a + 1 \/ i \in b + 1 .. e
OBVIOUS

\* The parameters are locals, or there is an error.
LEMMA ParamsAdded ==
  ASSUME \A c \in Contexts : \A ps \in Seq(Names) : Params(c, ps) = AddParams(c, ps)
  PROVE  \A c \in Contexts : \A ps \in Seq(Names) :
           /\ Grown(c, Params(c, ps)) /\ Params(c, ps).code = c.code /\ Params(c, ps).depth = c.depth
           /\ ~Params(c, ps).err =>
                /\ Begins(c.locals, Params(c, ps).locals)
                /\ Len(Params(c, ps).locals) = Len(c.locals) + Len(ps)
                /\ \A i \in Len(c.locals) + 1 .. Len(Params(c, ps).locals) : Params(c, ps).locals[i].depth = c.depth
<1> DEFINE Added(c, d, n) ==
             /\ Grown(c, d) /\ d.code = c.code /\ d.depth = c.depth
             /\ ~d.err =>
                  /\ Begins(c.locals, d.locals)
                  /\ Len(d.locals) = Len(c.locals) + n
                  /\ \A i \in Len(c.locals) + 1 .. Len(d.locals) : d.locals[i].depth = c.depth
           T == {n \in Nat : \A c \in Contexts : \A ps \in Seq(Names) : Len(ps) = n => Added(c, Params(c, ps), n)}
<1>1. 0 \in T
  <2>1. ASSUME NEW c \in Contexts, NEW ps \in Seq(Names), Len(ps) = 0 PROVE Added(c, Params(c, ps), 0)
    <3>1. ps = <<>>
      BY <2>1
    <3>2. Params(c, ps) = c
      BY <3>1 DEF AddParams
    <3>3. Grown(c, c) /\ Len(c.locals) \in Nat
      BY NothingEmitted, ContextType
    <3>4. Begins(c.locals, c.locals) /\ Len(c.locals) = Len(c.locals) + 0 /\ ~\E i \in Len(c.locals) + 1 .. Len(c.locals) : TRUE
      BY <3>3 DEF Begins
    <3> QED BY <3>2, <3>3, <3>4
  <2> QED BY <2>1
<1>2. ASSUME NEW n \in T PROVE n + 1 \in T
  <2>0. n \in Nat /\ n + 1 \in Nat
    OBVIOUS
  <2>1. ASSUME NEW c \in Contexts, NEW ps \in Seq(Names), Len(ps) = n + 1 PROVE Added(c, Params(c, ps), n + 1)
    <3>1. ps # <<>> /\ Head(ps) \in Names /\ Tail(ps) \in Seq(Names) /\ Len(Tail(ps)) = n
      BY <2>0, <2>1
    <3> DEFINE d == AddLocal(c, Head(ps))
               e == Params(d, Tail(ps))
               l == [name |-> Head(ps), depth |-> c.depth]
    <3>2. Params(c, ps) = e
      BY <3>1 DEF AddParams
    <3>3. Head(ps) \in Labels
      BY <3>1 DEF Labels
    <3>4. /\ Grown(c, d) /\ d \in Contexts /\ d.code = c.code /\ d.depth = c.depth
          /\ ~d.err => d.locals = Append(c.locals, l)
      BY <3>3, AddLocalGrown
    <3> HIDE DEF d
    <3>5. Added(d, e, n)
      BY <3>1, <3>4
    <3> HIDE DEF e
    <3>6. Grown(c, e) /\ e.code = c.code /\ e.depth = c.depth /\ e \in Contexts
      <4>1. Grown(d, e) /\ e.code = d.code /\ e.depth = d.depth
        BY <3>5
      <4> HIDE DEF Added, T
      <4> QED BY <3>4, <4>1, GrownOn DEF Grown
    <3>7. ASSUME ~e.err
          PROVE  /\ Begins(c.locals, e.locals) /\ Len(e.locals) = Len(c.locals) + (n + 1)
                 /\ \A i \in Len(c.locals) + 1 .. Len(e.locals) : e.locals[i].depth = c.depth
      <4>1. /\ Begins(d.locals, e.locals) /\ Len(e.locals) = Len(d.locals) + n
            /\ \A i \in Len(d.locals) + 1 .. Len(e.locals) : e.locals[i].depth = c.depth
        BY <3>4, <3>5, <3>7
      <4>2. ~d.err /\ d.locals = Append(c.locals, l)
        BY <3>4, <3>5, <3>7 DEF Grown
      <4>3. l \in Locals /\ c.locals \in Seq(Locals) /\ l.depth = c.depth /\ Len(c.locals) \in Nat
        BY <3>3, ContextType DEF Locals
      <4> HIDE DEF Added, T, l
      <4>4. Begins(c.locals, d.locals) /\ Len(d.locals) = Len(c.locals) + 1 /\ d.locals[Len(c.locals) + 1] = l
            /\ d.locals \in Seq(Locals)
        <5>1. /\ Begins(c.locals, Append(c.locals, l)) /\ Len(Append(c.locals, l)) = Len(c.locals) + 1
              /\ Append(c.locals, l)[Len(c.locals) + 1] = l /\ Append(c.locals, l) \in Seq(Locals)
          BY <4>3, BeginsAppend
        <5> QED BY <4>2, <5>1
      <4>5. e.locals \in Seq(Locals)
        BY <3>6, ContextType
      <4>6. Begins(c.locals, e.locals)
        BY <4>1, <4>3, <4>4, <4>5, BeginsOn
      <4>7. /\ Len(e.locals) = Len(c.locals) + (n + 1) /\ Len(c.locals) + 1 \in 1 .. Len(d.locals)
            /\ \A i \in Len(c.locals) + 1 .. Len(e.locals) : i = Len(c.locals) + 1 \/ i \in Len(d.locals) + 1 .. Len(e.locals)
        BY <2>0, <4>1, <4>3, <4>4, OneMore
      <4>8. e.locals[Len(c.locals) + 1] = l
        BY <4>1, <4>4, <4>7 DEF Begins
      <4>10. \A i \in Len(c.locals) + 1 .. Len(e.locals) : e.locals[i].depth = c.depth
        BY <4>1, <4>3, <4>7, <4>8
      <4> QED BY <4>6, <4>7, <4>10
    <3> HIDE DEF T
    <3> QED BY <3>2, <3>6, <3>7
  <2> HIDE DEF Added
  <2> QED BY <2>0, <2>1
<1>3. T \in SUBSET Nat
  OBVIOUS
<1>4. T = Nat
  <2> HIDE DEF T
  <2> QED BY <1>1, <1>2, <1>3, SetInduction
<1>5. ASSUME NEW c \in Contexts, NEW ps \in Seq(Names) PROVE Added(c, Params(c, ps), Len(ps))
  <2>1. Len(ps) \in T
    <3> HIDE DEF T
    <3> QED BY <1>4
  <2> HIDE DEF Added
  <2> QED BY <2>1
<1> HIDE DEF T
<1> QED BY <1>5

\* The code of a function begins with nothing, and ends in a return.
LEMMA EndFunctionFits ==
  ASSUME NEW i \in Contexts, i.nested, i.code = <<>>, NEW u, NEW arity \in Nat,
         NEW x, x = [height |-> arity + 1, open |-> <<>>], NEW y, Place(y), y.open = <<>>, Emits(i, u, x, y)
  PROVE  /\ Emits(i, EndFunction(u), x, y) /\ EndFunction(u) \in Contexts /\ EndFunction(u).err = u.err
         /\ \A f : /\ f.code = EndFunction(u).code /\ f.pool = EndFunction(u).pool /\ f.arity = arity
                   /\ ~EndFunction(u).err /\ Len(f.pool) <= ByteRange
                   => Fit(f, i.script, Len(EndFunction(u).fns))
<1> DEFINE n == Emit(u, <<"NIL">>)
           z == Emit(n, <<"RETURN">>)
           r == Raised(y, 1)
<1>0. 1 \in Nat /\ 0 \in Nat
  OBVIOUS
<1>1. u \in Contexts /\ Grown(i, u)
  BY DEF Emits, Grown
<1>2. /\ <<"NIL">> \in Instructions /\ <<"NIL">>[1] \in Straight /\ Takes(<<"NIL">>) = 0 /\ Leaves(<<"NIL">>) = 1
      /\ <<"NIL">>[1] \notin Collecting /\ <<"NIL">>[1] \notin {"GET_LOCAL", "SET_LOCAL", "CONST"}
  BY OpEffect
<1>3. /\ Place(r) /\ r.open = <<>> /\ Floor(r) = Floor(y) /\ r.height = y.height + 1 /\ Floor(y) <= y.height
      /\ Floor(y) \in Nat /\ y.height \in Nat
  BY <1>0, RaisedPlace, PlaceType
<1>4. Emits(u, n, y, r)
  <2>1. r = [height |-> y.height - Takes(<<"NIL">>) + Leaves(<<"NIL">>), open |-> y.open]
    <3>1. y.height - 0 + 1 = y.height + 1
      BY <1>3
    <3> QED BY <1>2, <3>1 DEF Raised
  <2>2. Suffices(<<"NIL">>, y, ~u.nested)
    <3>1. Takes(<<"NIL">>) <= y.height - Floor(y)
      BY <1>2, <1>3
    <3> HIDE DEF r
    <3> QED BY <1>2, <3>1 DEF Suffices, Straight
  <2> HIDE DEF r
  <2> QED BY <1>1, <1>2, <1>3, <2>1, <2>2, EmitOne
<1>5. /\ <<"RETURN">> \in Instructions
  BY DEF Instructions, Opcodes
<1>6. n \in Contexts /\ Grown(u, n) /\ n.err = u.err
  BY <1>1, <1>2, EmitGrown
<1>7. /\ z \in Contexts /\ Grown(n, z) /\ Len(z.code) = Here(n) /\ Here(z) = Here(n) + 1 /\ z.code[Here(n)] = <<"RETURN">>
      /\ z.err = n.err /\ z.pool = n.pool
  <2>1. Here(n) = Len(n.code) + 1
    BY <1>6, ContextType
  <2> HIDE DEF n
  <2> QED BY <1>5, <1>6, <2>1, EmitGrown
<1> HIDE DEF n, z, r
<1>8. z.nested /\ z.script = i.script
  BY <1>1, <1>6, <1>7 DEF Grown
<1>9. Runs(z, Here(n), r) /\ Targets(z.code[Here(n)], Here(n)) = {}
  <2>1. Takes(<<"RETURN">>) = 1
    BY DEF Takes, Leaves, Pushing, Dropping, Combining, Arithmetic, Division, Comparison, Replacing, Peeking, Collecting, Moving
  <2>2. Suffices(<<"RETURN">>, r, ~z.nested)
    <3>1. Takes(<<"RETURN">>) <= r.height - Floor(r)
      BY <1>3, <2>1
    <3> QED BY <1>3, <1>8, <3>1 DEF Suffices, Collecting
  <2>3. Runs(z, Here(n), r)
    BY <1>5, <1>7, <2>2 DEF Runs
  <2> QED BY <1>7, <2>3 DEF Targets
<1>10. Here(n) \in Nat /\ Here(n) >= 1
  BY <1>6, ContextType
<1>11. Emits(n, z, r, y)
  <2>1. Segment(z, Here(n), Here(n) + 1, r, y)
    BY <1>3, <1>9, <1>10, OneInstruction
  <2> QED BY <1>7, <2>1 DEF Emits
<1>12. x.open = <<>>
  OBVIOUS
<1>13. Emits(i, n, x, r)
  BY <1>3, <1>4, <1>12, EmitsOn
<1>14. Emits(i, z, x, y)
  BY <1>3, <1>11, <1>12, <1>13, EmitsOn
<1>15. ASSUME NEW f, f.code = z.code, f.pool = z.pool, f.arity = arity, ~z.err, Len(f.pool) <= ByteRange
       PROVE  Fit(f, i.script, Len(z.fns))
  <2>1. Segment(n, Here(i), Here(n), x, r)
    BY <1>7, <1>13, <1>15 DEF Emits
  <2>2. Here(i) = 1
    BY DEF Here
  <2>3. 1 \in Nat /\ 1 <= 1 /\ Here(n) <= Here(n)
    BY <1>10
  <2>4. Segment(z, 1, Here(n), x, r)
    BY <1>6, <1>7, <1>10, <2>1, <2>2, <2>3, SegmentGrown
  <2>5. Segment(z, 1, Len(z.code), [height |-> f.arity + 1, open |-> <<>>], r)
    BY <1>7, <1>15, <2>4
  <2>6. Runs(z, Len(z.code), r) /\ Targets(z.code[Len(z.code)], Len(z.code)) = {} /\ Len(z.code) >= 1
    BY <1>7, <1>9, <1>10
  <2>7. Len(z.fns) <= Len(z.fns)
    <3>1. Len(z.fns) \in Nat
      BY <1>7, ContextType
    <3> QED BY <3>1
  <2> QED BY <1>7, <1>8, <1>15, <2>5, <2>6, <2>7 DEF Fit
<1>16. z = EndFunction(u)
  BY DEF z, n, EndFunction
<1> QED BY <1>6, <1>7, <1>14, <1>15, <1>16

\* A function fits among more functions.
LEMMA FitHigher ==
  ASSUME NEW f, NEW id, NEW m \in Nat, NEW n \in Nat, m <= n, Fit(f, id, m)
  PROVE  Fit(f, id, n)
<1>1. PICK u \in Contexts : \E end :
        /\ u.code = f.code /\ u.pool = f.pool /\ u.nested /\ u.script = id /\ Len(u.fns) <= m
        /\ Len(u.code) >= 1
        /\ Segment(u, 1, Len(u.code), [height |-> f.arity + 1, open |-> <<>>], end)
        /\ Runs(u, Len(u.code), end) /\ Targets(u.code[Len(u.code)], Len(u.code)) = {}
  BY DEF Fit
<1>2. Len(u.fns) <= n
  <2>1. Len(u.fns) \in Nat
    BY ContextType
  <2> QED BY <1>1, <2>1
<1> QED BY <1>1, <1>2 DEF Fit

\* The constant for a function that has been added.
LEMMA LatestFunction ==
  ASSUME NEW d \in Contexts, Len(d.fns) >= 1
  PROVE  Fn(d.script, Len(d.fns)) \in Constants /\ ConstantOf(d, Fn(d.script, Len(d.fns)))
<1>1. PICK n \in Nat : n = Len(d.fns)
  BY ContextType
<1>2. n \in 1 .. Len(d.fns)
  BY <1>1
<1>3. PICK id \in DOMAIN Code : id = d.script
  BY ContextType
<1>4. Fn(id, n) \in {"fn"} \X (DOMAIN Code) \X Nat
  <2>1. id \in DOMAIN Code /\ n \in Nat
    BY <1>1, <1>3
  <2> QED BY <2>1 DEF Fn
<1>5. Fn(id, n) \in Constants
  BY <1>4 DEF Constants
<1>6. ConstantOf(d, Fn(id, n))
  BY <1>2, <1>3 DEF ConstantOf
<1> QED BY <1>1, <1>3, <1>5, <1>6

\* A finished function is added to those of the context it is in.
LEMMA FinishGrown ==
  ASSUME NEW c \in Contexts, NEW level \in Nat, NEW u, Grown(Nested(c, level), u), NEW name \in Labels, NEW arity \in Nat,
         \A f : f.code = u.code /\ f.pool = u.pool /\ f.arity = arity /\ ~u.err /\ Len(f.pool) <= ByteRange
                => Fit(f, c.script, Len(u.fns))
  PROVE  Pushed(c, FunctionConst(Finish(c, u, name, arity)), 1)
<1> DEFINE i == Nested(c, level)
           f == [name |-> name, arity |-> arity, code |-> u.code, pool |-> u.pool]
           d == Finish(c, u, name, arity)
           n == Len(u.fns)
<1>1. u \in Contexts /\ i \in Contexts /\ i.script = c.script /\ i.fns = c.fns /\ i.err = c.err
  BY NestedContext DEF Grown
<1>2. /\ u.code \in Seq(Instructions) /\ u.pool \in Seq(Constants) /\ u.fns \in Seq(Functions) /\ u.err \in BOOLEAN
      /\ n \in Nat /\ c.fns \in Seq(Functions)
  BY <1>1, ContextType
<1>3. f \in Functions
  BY <1>2 DEF Functions
<1>4. f.code = u.code /\ f.pool = u.pool /\ f.arity = arity
  OBVIOUS
<1>5. d = [c EXCEPT !.fns = Append(u.fns, f), !.err = u.err]
  BY DEF Finish
<1> HIDE DEF d, f
<1>6. /\ Append(u.fns, f) \in Seq(Functions) /\ Begins(u.fns, Append(u.fns, f)) /\ Len(Append(u.fns, f)) = n + 1
      /\ Append(u.fns, f)[n + 1] = f
  BY <1>2, <1>3, BeginsAppend
<1>7. /\ d.code = c.code /\ d.pool = c.pool /\ d.locals = c.locals /\ d.depth = c.depth
      /\ d.nested = c.nested /\ d.script = c.script /\ d.fns = Append(u.fns, f) /\ d.err = u.err
  BY <1>5 DEF Contexts
<1>8. d \in Contexts
  BY <1>2, <1>5, <1>6 DEF Contexts
<1>9. Begins(c.fns, d.fns)
  <2>1. Begins(c.fns, u.fns)
    BY <1>1 DEF Grown
  <2>2. PICK g : g = d.fns
    OBVIOUS
  <2>3. g \in Seq(Functions) /\ Begins(u.fns, g)
    BY <1>6, <1>7, <2>2
  <2>4. Begins(c.fns, g)
    BY <1>2, <2>1, <2>3, BeginsOn
  <2> QED BY <2>2, <2>4
<1>10. c.err => d.err
  BY <1>1, <1>7 DEF Grown
<1>11. ASSUME ~d.err, AllFit(c) PROVE AllFit(d)
  <2>1. AllFit(i)
    BY <1>1, <1>11 DEF AllFit
  <2>2. AllFit(u) /\ u.script = c.script
    BY <1>1, <1>7, <1>11, <2>1 DEF Grown
  <2>3. ASSUME NEW k \in 1 .. Len(d.fns), Len(d.fns[k].pool) <= ByteRange
        PROVE  Fit(d.fns[k], d.script, Len(d.fns))
    <3>1. k \in 1 .. n \/ k = n + 1
      BY <1>2, <1>6, <1>7
    <3>2. n \in Nat /\ n + 1 \in Nat /\ n <= n + 1
      BY <1>2
    <3>3. CASE k \in 1 .. n
      <4>1. d.fns[k] = u.fns[k]
        BY <1>6, <1>7, <3>3 DEF Begins
      <4>2. Fit(u.fns[k], c.script, n)
        BY <2>2, <2>3, <3>3, <4>1 DEF AllFit
      <4>3. Fit(u.fns[k], c.script, n + 1)
        BY <3>2, <4>2, FitHigher
      <4> QED BY <1>6, <1>7, <4>1, <4>3
    <3>4. CASE k = n + 1
      <4>1. d.fns[k] = f
        BY <1>6, <1>7, <3>4
      <4>2. Fit(f, c.script, n)
        BY <1>4, <1>7, <1>11, <2>3, <4>1
      <4>3. Fit(f, c.script, n + 1)
        BY <3>2, <4>2, FitHigher
      <4> QED BY <1>6, <1>7, <4>1, <4>3
    <3> QED BY <3>1, <3>3, <3>4
  <2> QED BY <2>3 DEF AllFit
<1>12. Grown(c, d)
  BY <1>7, <1>8, <1>9, <1>10, <1>11, ContextType DEF Grown
<1>13. Pushed(c, d, 0)
  <2>1. ASSUME NEW at, Place(at) PROVE Emits(c, d, at, Raised(at, 0))
    <3>1. Raised(at, 0) = at /\ Emits(c, d, at, at)
      BY <1>7, <1>12, <2>1, SameCode, RaisedPlace
    <3> QED BY <3>1
  <2> QED BY <1>7, <1>12, <2>1 DEF Pushed
<1> DEFINE v == Fn(d.script, Len(d.fns))
<1>14. v \in Constants /\ ConstantOf(d, v)
  <2>1. Len(d.fns) = n + 1
    BY <1>6, <1>7
  <2>2. Len(d.fns) >= 1
    BY <1>2, <2>1
  <2> QED BY <1>8, <2>2, LatestFunction
<1>15. FunctionConst(d) = Emit(AddConstant(d, v), <<"CONST", Len(d.pool) % ByteRange>>)
  BY DEF FunctionConst
<1>16. 0 \in Nat /\ 1 \in Nat /\ 0 \in 0 .. 0 /\ 0 - 0 + 1 = 1
  OBVIOUS
<1> HIDE DEF v
<1>17. Pushed(c, Emit(AddConstant(d, v), <<"CONST", Len(d.pool) % ByteRange>>), 0 - 0 + 1)
  BY <1>13, <1>14, <1>16, ConstEffect, PushedConst
<1> QED BY <1>15, <1>16, <1>17 DEF d

\* The place where the code of a function with n parameters starts.
LEMMA StartPlace ==
  ASSUME NEW n \in Nat, NEW x, x = [height |-> n + 1, open |-> <<>>]
  PROVE  Place(x) /\ x.open = <<>> /\ x.height = n + 1
<1>1. <<>> \in Seq(Trys) /\ n + 1 \in Nat /\ 1 <= n + 1
  OBVIOUS
<1>2. x.open = <<>> /\ x.height = n + 1
  OBVIOUS
<1>3. x \in Places
  BY <1>1 DEF Places
<1>4. Floor(x) = 1 /\ Orderly(x.open)
  BY <1>2 DEF Floor, Orderly
<1> QED BY <1>1, <1>2, <1>3, <1>4 DEF Place

\* The slots of a frame as a function is entered.
LEMMA FrameLocals ==
  ASSUME NEW i \in Contexts, NEW n \in Nat, i.depth = 1, Len(i.locals) = n + 1,
         i.locals[1] = [name |-> NoName, depth |-> 1],
         \A m \in 2 .. Len(i.locals) : i.locals[m].depth = 1
  PROVE  Stood(i, "free") /\ Height(i) = n + 1
<1>1. i.locals[1].name = NoName /\ i.locals[1].depth = 1
  OBVIOUS
<1>2. \A m \in 1 .. Len(i.locals) : m = 1 \/ m \in 2 .. Len(i.locals)
  OBVIOUS
<1>3. \A m \in 1 .. Len(i.locals) : i.locals[m].depth <= i.depth
  BY <1>1, <1>2
<1>4. Len(i.locals) # 0
  OBVIOUS
<1>5. i.locals # <<>>
  BY <1>4
<1> QED BY <1>1, <1>3, <1>5 DEF Stood, Height

\* A frame as its function is entered: slot 0 and the parameters.
LEMMA FrameOpened ==
  ASSUME \A d \in Contexts : \A ps \in Seq(Names) : Params(d, ps) = AddParams(d, ps),
         NEW o \in Contexts, o.code = <<>>, o.locals = <<>>, o.depth = 1,
         NEW params \in Seq(Names), NEW n \in Nat, n = Len(params), NEW i, i = Params(AddLocal(o, NoName), params),
         NEW x, x = [height |-> n + 1, open |-> <<>>]
  PROVE  /\ Grown(o, i) /\ i \in Contexts /\ i.code = <<>>
         /\ ~i.err => Stood(i, "free") /\ StandsAt(i, "free", x)
<1>1. PICK l : l = AddLocal(o, NoName)
  OBVIOUS
<1>2. /\ Grown(o, l) /\ l \in Contexts /\ l.code = <<>> /\ l.depth = 1
      /\ ~l.err => l.locals = Append(o.locals, [name |-> NoName, depth |-> 1])
  <2>1. NoName \in Labels
    BY DEF Labels
  <2>2. PICK name \in Labels : name = NoName
    BY <2>1
  <2>3. /\ Grown(o, AddLocal(o, name)) /\ AddLocal(o, name) \in Contexts
        /\ AddLocal(o, name).code = o.code /\ AddLocal(o, name).depth = o.depth
        /\ ~AddLocal(o, name).err => AddLocal(o, name).locals = Append(o.locals, [name |-> name, depth |-> o.depth])
    BY <2>2, AddLocalGrown
  <2> QED BY <1>1, <2>2, <2>3
<1>3. /\ Grown(l, i) /\ i.code = <<>> /\ i.depth = 1
      /\ ~i.err => /\ Begins(l.locals, i.locals) /\ Len(i.locals) = Len(l.locals) + n
                   /\ \A m \in Len(l.locals) + 1 .. Len(i.locals) : i.locals[m].depth = 1
  BY <1>1, <1>2, ParamsAdded
<1>4. i \in Contexts
  BY <1>3 DEF Grown
<1>5. Grown(o, i)
  BY <1>2, <1>3, <1>4, GrownOn
<1>6. ASSUME ~i.err PROVE Stood(i, "free") /\ StandsAt(i, "free", x)
  <2>1. ~l.err
    BY <1>3, <1>6 DEF Grown
  <2>2. l.locals = <<[name |-> NoName, depth |-> 1]>>
    BY <1>2, <2>1
  <2>3. Len(l.locals) = 1 /\ l.locals[1] = [name |-> NoName, depth |-> 1]
    BY <2>2
  <2>4. /\ Begins(l.locals, i.locals) /\ Len(i.locals) = Len(l.locals) + n
        /\ \A m \in Len(l.locals) + 1 .. Len(i.locals) : i.locals[m].depth = 1
    BY <1>3, <1>6
  <2>5. 1 \in 1 .. Len(l.locals)
    BY <2>3
  <2>6. i.locals[1] = l.locals[1]
    BY <2>4, <2>5 DEF Begins
  <2>7. Len(i.locals) = n + 1
    BY <2>3, <2>4
  <2>8. \A m \in 2 .. Len(i.locals) : i.locals[m].depth = 1
    BY <2>3, <2>4
  <2>9. Stood(i, "free") /\ Height(i) = n + 1
    BY <1>3, <1>4, <2>3, <2>6, <2>7, <2>8, FrameLocals
  <2> QED BY <2>9, StartPlace DEF StandsAt
<1> QED BY <1>3, <1>4, <1>5, <1>6

\* The code of a body, up to where the return is added that closes it.
LEMMA BodyEmits ==
  ASSUME NEW i \in Contexts, NEW u, NEW k \in Kinds, k # "guarded", NEW x, Place(x), x.open = <<>>, Done(i, u, k),
         ~i.err => Stood(i, k) /\ StandsAt(i, k, x)
  PROVE  \E y : Place(y) /\ y.open = <<>> /\ Emits(i, u, x, y)
<1>1. Grown(i, u) /\ u \in Contexts
  BY DEF Done, Grown
<1>2. CASE u.err
  <2>1. Emits(i, u, x, x)
    BY <1>1, <1>2 DEF Emits
  <2> QED BY <2>1
<1>3. CASE ~u.err
  <2>1. ~i.err
    BY <1>1, <1>3 DEF Grown
  <2>2. Emits(i, u, x, InStep(u, x)) /\ Begins(i.locals, u.locals)
    BY <1>3, <2>1 DEF Done
  <2>3. StandsAt(u, k, InStep(u, x))
    BY <1>1, <2>1, <2>2, AfterPlace
  <2>4. Place(InStep(u, x)) /\ InStep(u, x).open = <<>>
    BY <2>3 DEF StandsAt
  <2> QED BY <2>2, <2>4
<1> QED BY <1>2, <1>3

\* A function is a constant that its name is bound to.
LEMMA FunctionKept ==
  ASSUME NEW S, \A d \in Contexts : \A b \in Seq(S) : Done(d, Nodes(d, b), "free"),
         \A d \in Contexts : \A ps \in Seq(Names) : Params(d, ps) = AddParams(d, ps),
         NEW c \in Contexts, NEW k \in Kinds, NEW f \in Names, NEW params \in Seq(Names), NEW body \in Seq(S)
  PROVE  Kept(c, CompileFunction(c, f, params, body), k)
<1>1. PICK n \in Nat : n = Len(params)
  OBVIOUS
<1>2. PICK x : x = [height |-> n + 1, open |-> <<>>]
  OBVIOUS
<1>3. PICK o : o = Nested(c, 1)
  OBVIOUS
<1>4. PICK i : i = Params(AddLocal(o, NoName), params)
  OBVIOUS
<1>5. PICK u : u = Nodes(i, body)
  OBVIOUS
<1>6. PICK z : z = EndFunction(u)
  OBVIOUS
<1>7. PICK d : d = FunctionConst(Finish(c, z, f, n))
  OBVIOUS
<1>8. CompileFunction(c, f, params, body) = WithConst(d, "DEFINE_GLOBAL", f)
  BY <1>1, <1>3, <1>4, <1>5, <1>6, <1>7 DEF CompileFunction
<1>9. f \in Labels /\ f \in Constants /\ "free" \in Kinds /\ "free" # "guarded"
  BY DEF Names, Labels, Constants, Kinds
<1>10. /\ o \in Contexts /\ o.code = <<>> /\ o.locals = <<>> /\ o.depth = 1 /\ o.nested /\ o.script = c.script
  <2>1. 1 \in Nat
    OBVIOUS
  <2> QED BY <1>3, <2>1, NestedContext
<1>11. /\ Grown(o, i) /\ i \in Contexts /\ i.code = <<>>
       /\ ~i.err => Stood(i, "free") /\ StandsAt(i, "free", x)
  BY <1>1, <1>2, <1>4, <1>10, FrameOpened
<1>12. i.nested /\ i.script = c.script
  BY <1>10, <1>11 DEF Grown
<1>13. Done(i, u, "free")
  BY <1>5, <1>11
<1>14. Place(x) /\ x.open = <<>>
  BY <1>2, StartPlace
<1>15. PICK y : Place(y) /\ y.open = <<>> /\ Emits(i, u, x, y)
  BY <1>9, <1>11, <1>13, <1>14, BodyEmits
<1>16. /\ Emits(i, z, x, y) /\ z \in Contexts
       /\ \A g : g.code = z.code /\ g.pool = z.pool /\ g.arity = n /\ ~z.err /\ Len(g.pool) <= ByteRange
                 => Fit(g, c.script, Len(z.fns))
  BY <1>2, <1>6, <1>11, <1>12, <1>15, EndFunctionFits
<1>17. Grown(o, z)
  <2>1. Grown(i, z)
    BY <1>16 DEF Emits
  <2> QED BY <1>10, <1>11, <1>16, <2>1, GrownOn
<1>18. Pushed(c, d, 1)
  <2>1. 1 \in Nat
    OBVIOUS
  <2>2. Grown(Nested(c, 1), z)
    BY <1>3, <1>17
  <2> QED BY <1>7, <1>9, <1>16, <2>1, <2>2, FinishGrown
<1>19. 1 \in Nat /\ 1 \in 0 .. 1 /\ 0 \in Nat /\ 1 - 1 + 0 = 0
  OBVIOUS
<1>20. "DEFINE_GLOBAL" \in Straight \ (Collecting \cup {"GET_LOCAL", "SET_LOCAL"}) /\ "DEFINE_GLOBAL" # "CONST"
       /\ \A m \in Nat : Takes(<<"DEFINE_GLOBAL", m>>) = 1 /\ Leaves(<<"DEFINE_GLOBAL", m>>) = 0
  BY ConstEffect
<1>21. Pushed(c, WithConst(d, "DEFINE_GLOBAL", f), 1 - 1 + 0)
  BY <1>9, <1>18, <1>19, <1>20, PushedConst
<1> QED BY <1>8, <1>19, <1>21, PushedKept

\* The call of a function that an import makes.
LEMMA CallEffect ==
  /\ <<"CALL", 0>> \in Instructions /\ <<"CALL", 0>>[1] = "CALL" /\ <<"CALL", 0>>[2] = 0
  /\ Takes(<<"CALL", 0>>) = 1 /\ Leaves(<<"CALL", 0>>) = 1
  /\ "CALL" \in Straight /\ "CALL" \notin {"GET_LOCAL", "SET_LOCAL", "CONST"}
BY DEF Instructions, Straight, Opcodes, Takes, Leaves, Pushing, Dropping, Combining, Arithmetic, Division, Comparison,
       Replacing, Peeking, Collecting, Moving

\* A module is a function that is called at once.
LEMMA ImportKept ==
  ASSUME NEW S, \A d \in Contexts : \A b \in Seq(S) : Done(d, Nodes(d, b), "module"),
         NEW c \in Contexts, NEW k \in Kinds, NEW body \in Seq(S)
  PROVE  Kept(c, CompileImport(c, body), k)
<1>1. PICK x : x = [height |-> 0 + 1, open |-> <<>>]
  OBVIOUS
<1>2. PICK i : i = Nested(c, 0)
  OBVIOUS
<1>3. PICK u : u = Nodes(i, body)
  OBVIOUS
<1>4. PICK a : a = EndFunction(u)
  OBVIOUS
<1>5. PICK z : z = EndFunction(a)
  OBVIOUS
<1>6. PICK d : d = FunctionConst(Finish(c, z, "module", 0))
  OBVIOUS
<1>7. PICK e : e = Emit(d, <<"CALL", 0>>)
  OBVIOUS
<1>8. CompileImport(c, body) = Emit(e, <<"POP">>)
  BY <1>2, <1>3, <1>4, <1>5, <1>6, <1>7 DEF CompileImport
<1>9. "module" \in Kinds /\ "module" # "guarded" /\ "module" \in Labels /\ 0 \in Nat
  BY DEF Kinds, Labels
<1>10. /\ i \in Contexts /\ i.code = <<>> /\ i.locals = <<>> /\ i.depth = 0 /\ i.nested /\ i.script = c.script
  BY <1>2, <1>9, NestedContext
<1>11. Place(x) /\ x.open = <<>> /\ x.height = 0 + 1
  BY <1>1, <1>9, StartPlace
<1>12. Stood(i, "module") /\ StandsAt(i, "module", x)
  <2>1. \A m \in 1 .. Len(i.locals) : i.locals[m].depth <= i.depth
    BY <1>10
  <2>2. Stood(i, "module")
    BY <1>10, <2>1 DEF Stood
  <2>3. Height(i) = 0 + 1
    BY <1>10 DEF Height
  <2> QED BY <1>11, <2>2, <2>3 DEF StandsAt
<1>13. Done(i, u, "module")
  BY <1>3, <1>10
<1>14. PICK y : Place(y) /\ y.open = <<>> /\ Emits(i, u, x, y)
  BY <1>9, <1>10, <1>11, <1>12, <1>13, BodyEmits
<1>15. Emits(i, a, x, y) /\ a \in Contexts
  BY <1>1, <1>4, <1>9, <1>10, <1>14, EndFunctionFits
<1>16. /\ Emits(i, z, x, y) /\ z \in Contexts
       /\ \A g : g.code = z.code /\ g.pool = z.pool /\ g.arity = 0 /\ ~z.err /\ Len(g.pool) <= ByteRange
                 => Fit(g, c.script, Len(z.fns))
  BY <1>1, <1>5, <1>9, <1>10, <1>14, <1>15, EndFunctionFits
<1>17. Grown(Nested(c, 0), z)
  BY <1>2, <1>16 DEF Emits
<1>18. Pushed(c, d, 1)
  BY <1>6, <1>9, <1>16, <1>17, FinishGrown
<1>19. 1 \in Nat /\ 1 \in 0 .. 1 /\ 0 \in Nat /\ 1 - 1 + 0 = 0 /\ 1 - 1 + 1 = 1
  OBVIOUS
<1>20. Pushed(c, e, 1)
  <2>1. PICK n \in Instructions : n = <<"CALL", 0>>
    BY CallEffect
  <2>2. n[1] = "CALL" /\ n[2] = 0 /\ Takes(n) = 1 /\ Leaves(n) = 1
    BY <2>1, CallEffect
  <2>3. Pushed(c, Emit(d, n), 1 - 1 + 1)
    BY <1>18, <1>19, <2>2, CallEffect, PushedThen
  <2> QED BY <1>7, <1>19, <2>1, <2>3
<1>21. Pushed(c, Emit(e, <<"POP">>), 1 - 1 + 0)
  BY <1>19, <1>20, PopEffect, PushedOp
<1> QED BY <1>8, <1>19, <1>21, PushedKept

-----------------------------------------------------------------------------
(***************************************************************************)
(* A try: the block, and the handler that its value goes to.               *)
(***************************************************************************)
LEMMA TryPatched ==
  ASSUME NEW c \in Contexts, NEW b, Grown(EmitJump(c, "TRY"), b),
         NEW v, v = Patch(EmitJump(Emit(b, <<"TRY_END">>), "JUMP"), Here(c))
  PROVE  /\ v \in Contexts /\ Grown(c, v) /\ Len(v.code) = Here(b) + 1 /\ v.code[Here(b) + 1] = <<"JUMP", 0>>
         /\ v.locals = b.locals /\ v.depth = b.depth /\ v.err = b.err
         /\ Here(b) + 1 \in Nat /\ Here(b) + 1 \in 1 .. Len(v.code) /\ Len(c.code) < Here(b) + 1
<1>0. "TRY" \in Patched /\ "JUMP" \in Patched /\ <<"TRY_END">> \in Instructions
  BY DEF Patched, Instructions, Opcodes, Moving
<1>1. PICK j : j = EmitJump(c, "TRY")
  OBVIOUS
<1>2. PICK d : d = Emit(b, <<"TRY_END">>)
  OBVIOUS
<1>3. PICK r : r = EmitJump(d, "JUMP")
  OBVIOUS
<1>4. PICK p : p = Here(c)
  OBVIOUS
<1>5. PICK q : q = Here(b) + 1
  OBVIOUS
<1>6. b \in Contexts /\ j \in Contexts
  BY <1>0, <1>1, EmitJumpGrown DEF Grown
<1>7. /\ d \in Contexts /\ Grown(b, d) /\ Here(d) = q /\ d.locals = b.locals /\ d.depth = b.depth /\ d.err = b.err
  BY <1>0, <1>2, <1>5, <1>6, EmitGrown
<1>8. /\ r \in Contexts /\ Grown(d, r) /\ Len(r.code) = q /\ r.code[q] = <<"JUMP", 0>>
      /\ r.locals = b.locals /\ r.depth = b.depth /\ r.err = b.err
  BY <1>0, <1>3, <1>7, EmitJumpGrown
<1>9. Grown(j, r)
  <2>1. Grown(b, r)
    BY <1>6, <1>7, <1>8, GrownOn
  <2> QED BY <1>1, <1>6, <2>1, GrownOn
<1>10. Grown(c, r) /\ p \in 1 .. Len(r.code) /\ Len(c.code) < p /\ r.code[p] = <<"TRY", 0>> /\ r.code[p][1] = "TRY"
  BY <1>0, <1>1, <1>4, <1>9, JumpKept
<1>11. p # q
  <2>1. p + 1 <= Here(b)
    BY <1>0, <1>4, JumpKept
  <2>2. p \in Nat /\ Here(b) \in Nat
    BY <1>4, <1>6, ContextType
  <2> QED BY <1>5, <2>1, <2>2
<1>12. q \in Nat /\ q \in 1 .. Len(r.code)
  <2>1. Here(b) \in Nat
    BY <1>6, ContextType
  <2> QED BY <1>5, <1>8, <2>1
<1>13. v = Patch(r, p)
  BY <1>2, <1>3, <1>4
<1>14. /\ v \in Contexts /\ Len(v.code) = q /\ v.code[q] = <<"JUMP", 0>>
       /\ v.locals = b.locals /\ v.depth = b.depth /\ v.err = b.err
  BY <1>0, <1>8, <1>10, <1>11, <1>12, <1>13, PatchContext
<1>15. Grown(c, v)
  BY <1>0, <1>8, <1>10, <1>13, PatchGrown
<1>16. Len(c.code) < q
  <2>1. Len(c.code) \in Nat /\ p \in Nat /\ Len(c.code) < p /\ p <= q
    BY <1>8, <1>10, ContextType
  <2> QED BY <1>12, <2>1
<1> QED BY <1>5, <1>8, <1>12, <1>14, <1>15, <1>16

\* A try, up to its catch, grows out of what was there before it.
LEMMA TryContext ==
  ASSUME NEW c \in Contexts, NEW b, Grown(EmitJump(c, "TRY"), b),
         NEW v, v = Patch(EmitJump(Emit(b, <<"TRY_END">>), "JUMP"), Here(c)), NEW s, Grown(v, s)
  PROVE  /\ v \in Contexts /\ Grown(c, v) /\ Len(v.code) = Here(b) + 1
         /\ v.locals = b.locals /\ v.depth = b.depth /\ v.err = b.err
         /\ Grown(c, Patch(s, Here(b) + 1)) /\ Patch(s, Here(b) + 1).locals = s.locals
         /\ Patch(s, Here(b) + 1).depth = s.depth /\ Patch(s, Here(b) + 1).err = s.err
<1>1. PICK q : q = Here(b) + 1
  OBVIOUS
<1>2. /\ v \in Contexts /\ Grown(c, v) /\ Len(v.code) = q /\ v.code[q] = <<"JUMP", 0>>
      /\ v.locals = b.locals /\ v.depth = b.depth /\ v.err = b.err
      /\ q \in Nat /\ q \in 1 .. Len(v.code) /\ Len(c.code) < q
  BY <1>1, TryPatched
<1>3. s \in Contexts /\ Begins(v.code, s.code) /\ Grown(c, s)
  BY <1>2, GrownOn DEF Grown
<1>4. q \in 1 .. Len(s.code) /\ s.code[q] = <<"JUMP", 0>>
  <2>1. Len(v.code) <= Len(s.code) /\ Len(s.code) \in Nat
    BY <1>3, ContextType DEF Begins
  <2> QED BY <1>2, <1>3, <2>1 DEF Begins
<1>5. s.code[q][1] = "JUMP" /\ "JUMP" \in Patched
  BY <1>4 DEF Patched
<1>6. /\ Patch(s, q).locals = s.locals /\ Patch(s, q).depth = s.depth /\ Patch(s, q).err = s.err
      /\ Grown(c, Patch(s, q))
  BY <1>2, <1>3, <1>4, <1>5, PatchContext, PatchGrown
<1> QED BY <1>1, <1>2, <1>6

\* One local more.
LEMMA OneLocal ==
  ASSUME NEW c \in Contexts, NEW k \in {"free", "guarded"}, Stood(c, k), NEW a \in Contexts,
         NEW l \in Locals, l.depth = a.depth, c.depth <= a.depth, a.locals = Append(c.locals, l)
  PROVE  /\ Stood(a, k) /\ Begins(c.locals, a.locals) /\ Height(a) = Height(c) + 1 /\ c.locals # <<>>
         /\ \A i \in Len(c.locals) + 1 .. Len(a.locals) : a.locals[i].depth = a.depth
<1>1. PICK n \in Nat : n = Len(c.locals)
  BY ContextType
<1>2. c.depth \in Nat /\ a.depth \in Nat /\ c.locals \in Seq(Locals) /\ a.locals \in Seq(Locals) /\ n \in Nat
  BY <1>1, ContextType
<1>3. Begins(c.locals, a.locals) /\ Len(a.locals) = n + 1 /\ a.locals[n + 1] = l
  BY <1>1, <1>2, BeginsAppend
<1>4. c.locals # <<>> /\ c.locals[1].name = NoName /\ \A i \in 1 .. n : c.locals[i].depth <= c.depth
  BY <1>1 DEF Stood
<1>5. n # 0
  BY <1>1, <1>2, <1>4
<1>6. \A i \in 1 .. n : a.locals[i] = c.locals[i]
  BY <1>1, <1>3 DEF Begins
<1>7. \A i \in n + 1 .. Len(a.locals) : a.locals[i].depth = a.depth
  <2>1. \A i \in n + 1 .. Len(a.locals) : i = n + 1
    BY <1>2, <1>3
  <2> QED BY <1>3, <2>1
<1>8. \A i \in 1 .. Len(a.locals) : a.locals[i].depth <= a.depth
  <2>1. ASSUME NEW i \in 1 .. n PROVE a.locals[i].depth <= a.depth
    <3>1. c.locals[i] \in Locals
      BY <1>1, <1>2
    <3>2. PICK m \in Nat : m = c.locals[i].depth
      BY <3>1 DEF Locals
    <3>3. m <= c.depth
      BY <1>4, <3>2
    <3>4. m <= a.depth
      BY <1>2, <3>2, <3>3
    <3> QED BY <1>6, <3>2, <3>4
  <2>2. \A i \in 1 .. Len(a.locals) : i \in 1 .. n \/ i \in n + 1 .. Len(a.locals)
    BY <1>2, <1>3
  <2>3. a.depth <= a.depth
    BY <1>2
  <2> QED BY <1>7, <2>1, <2>2, <2>3
<1>9. a.locals # <<>> /\ a.locals[1].name = NoName
  <2>1. 1 \in 1 .. n /\ Len(a.locals) # 0
    BY <1>2, <1>3, <1>5
  <2>2. a.locals[1] = c.locals[1]
    BY <1>6, <2>1
  <2>3. a.locals # <<>>
    <3>1. a.locals = <<>> => Len(a.locals) = 0
      OBVIOUS
    <3> QED BY <2>1, <3>1
  <2> QED BY <1>4, <2>2, <2>3
<1>10. Stood(a, k)
  BY <1>8, <1>9 DEF Stood
<1>11. Height(a) = Height(c) + 1
  BY <1>1, <1>3, <1>4, <1>9 DEF Height
<1> QED BY <1>1, <1>3, <1>4, <1>7, <1>10, <1>11

\* The handler finds the value that was thrown as its first local.
LEMMA HandlerKept ==
  ASSUME NEW v \in Contexts, NEW k \in {"free", "guarded"}, k \in Kinds, NEW x \in Names, NEW b,
         NEW a, a = AddLocal(BeginScope(v), x), NEW h, Done(a, h, k), NEW s, s = EndScope(h)
  PROVE  /\ Grown(v, s) /\ s.depth = v.depth
         /\ ~s.err /\ Stood(v, k) =>
              /\ s.locals = v.locals
              /\ \A at : StandsAt(v, k, at) => Emits(v, s, Up(at), at)
<1>1. PICK d : d = BeginScope(v)
  OBVIOUS
<1>2. /\ Grown(v, d) /\ d \in Contexts /\ d.code = v.code /\ d.locals = v.locals /\ d.depth = v.depth + 1
      /\ v.depth \in Nat /\ x \in Labels
  BY <1>1, BeginScopeGrown, ContextType DEF Labels
<1>3. /\ Grown(d, a) /\ a \in Contexts /\ a.code = v.code /\ a.depth = v.depth + 1
      /\ ~a.err => a.locals = Append(v.locals, [name |-> x, depth |-> v.depth + 1])
  BY <1>1, <1>2, AddLocalGrown
<1>4. Grown(a, h) /\ h \in Contexts /\ h.depth = v.depth + 1
  BY <1>3 DEF Done, Grown
<1>5. h.depth # 0
  BY <1>2, <1>4
<1>6. Grown(h, s) /\ s \in Contexts /\ s.depth = h.depth - 1 /\ s.err = h.err
  BY <1>4, <1>5, EndScopeGrown
<1>7. Grown(v, a)
  BY <1>2, <1>3, GrownOn
<1>8. Grown(v, s) /\ s.depth = v.depth
  <2>1. Grown(v, h)
    BY <1>3, <1>4, <1>7, GrownOn
  <2>2. Grown(v, s)
    BY <1>4, <1>6, <2>1, GrownOn
  <2> QED BY <1>2, <1>4, <1>6, <2>2
<1>9. ASSUME ~s.err, Stood(v, k)
      PROVE  s.locals = v.locals /\ \A at : StandsAt(v, k, at) => Emits(v, s, Up(at), at)
  <2>1. ~h.err /\ ~a.err
    BY <1>4, <1>6, <1>9 DEF Grown
  <2>2. /\ Stood(a, k) /\ Begins(v.locals, a.locals) /\ Height(a) = Height(v) + 1 /\ v.locals # <<>>
        /\ \A i \in Len(v.locals) + 1 .. Len(a.locals) : a.locals[i].depth = v.depth + 1
    <3>1. PICK l : l = [name |-> x, depth |-> v.depth + 1]
      OBVIOUS
    <3>2. l \in Locals /\ l.depth = a.depth
      BY <1>2, <1>3, <3>1 DEF Locals
    <3>3. v.depth <= a.depth /\ a.locals = Append(v.locals, l)
      BY <1>2, <1>3, <2>1, <3>1
    <3>4. /\ Stood(a, k) /\ Begins(v.locals, a.locals) /\ Height(a) = Height(v) + 1 /\ v.locals # <<>>
          /\ \A i \in Len(v.locals) + 1 .. Len(a.locals) : a.locals[i].depth = a.depth
      BY <1>3, <1>9, <3>2, <3>3, OneLocal
    <3>5. a.depth = v.depth + 1
      BY <1>3
    <3> QED BY <3>4, <3>5
  <2>3. /\ Begins(a.locals, h.locals) /\ Stood(h, k)
        /\ \A i \in Len(a.locals) + 1 .. Len(h.locals) : h.locals[i].depth = v.depth + 1
        /\ \A at : StandsAt(a, k, at) => Emits(a, h, at, InStep(h, at))
    BY <1>3, <2>1, <2>2 DEF Done
  <2>4. v.locals \in Seq(Locals) /\ a.locals \in Seq(Locals) /\ h.locals \in Seq(Locals)
    BY <1>3, <1>4, ContextType
  <2>5. Begins(v.locals, h.locals)
    BY <2>2, <2>3, <2>4, BeginsOn
  <2>6. \A i \in Len(v.locals) + 1 .. Len(h.locals) : h.locals[i].depth = h.depth
    <3>1. PICK l \in Nat, m \in Nat, n \in Nat : l = Len(v.locals) /\ m = Len(a.locals) /\ n = Len(h.locals)
      BY <2>4
    <3>2. \A i \in l + 1 .. n : i \in l + 1 .. m \/ i \in m + 1 .. n
      BY <3>1
    <3>3. \A i \in l + 1 .. m : h.locals[i] = a.locals[i]
      <4>1. \A i \in l + 1 .. m : i \in 1 .. m
        BY <3>1
      <4> QED BY <2>3, <3>1, <4>1 DEF Begins
    <3> QED BY <1>4, <2>2, <2>3, <3>1, <3>2, <3>3
  <2>7. \A i \in 1 .. Len(v.locals) : v.locals[i].depth <= v.depth
    BY <1>9 DEF Stood
  <2>8. ASSUME NEW at, Place(at), at.height = Height(v)
        PROVE  s.locals = v.locals /\ Emits(h, s, InStep(h, at), at)
    BY <1>4, <2>2, <2>5, <2>6, <2>7, <2>8, EndScopeEmits
  <2>9. s.locals = v.locals
    <3>1. Height(v) \in Nat /\ Height(v) >= 1
      <4>1. Len(v.locals) \in Nat /\ (v.locals # <<>> => Len(v.locals) # 0)
        BY ContextType
      <4> QED BY <4>1 DEF Height
    <3>2. PICK n \in Nat : Height(v) = n + 1
      <4>1. Height(v) - 1 \in Nat /\ Height(v) = (Height(v) - 1) + 1
        BY <3>1
      <4> QED BY <4>1
    <3>3. PICK at : at = [height |-> n + 1, open |-> <<>>]
      OBVIOUS
    <3>4. Place(at) /\ at.height = Height(v)
      BY <3>2, <3>3, StartPlace
    <3> QED BY <2>8, <3>4
  <2>10. ASSUME NEW at, StandsAt(v, k, at) PROVE Emits(v, s, Up(at), at)
    <3>1. Place(at) /\ at.height = Height(v) /\ at.height \in Nat
      BY <2>10, StandsType
    <3>2. Place(Up(at)) /\ Up(at).open = at.open /\ Up(at).height = Height(a)
      <4>1. 1 \in Nat
        OBVIOUS
      <4>2. Place(Raised(at, 1)) /\ Raised(at, 1).open = at.open /\ Raised(at, 1).height = at.height + 1 /\ Up(at) = Raised(at, 1)
        BY <3>1, <4>1, RaisedPlace
      <4> QED BY <2>2, <3>1, <4>2
    <3>3. StandsAt(a, k, Up(at))
      BY <2>10, <3>2 DEF StandsAt
    <3>4. Emits(a, h, Up(at), InStep(h, at))
      <4>1. InStep(h, Up(at)) = InStep(h, at)
        BY <3>2 DEF InStep
      <4> QED BY <2>3, <3>3, <4>1
    <3>5. Emits(v, a, Up(at), Up(at))
      BY <1>3, <1>7, <3>2, SameCode
    <3>6. Emits(h, s, InStep(h, at), at) /\ InStep(h, at).open = at.open
      BY <2>8, <3>1 DEF InStep
    <3>7. Emits(v, h, Up(at), InStep(h, at))
      BY <3>2, <3>4, <3>5, <3>6, EmitsOn
    <3> QED BY <3>2, <3>6, <3>7, EmitsOn
  <2> QED BY <2>9, <2>10
<1> QED BY <1>8, <1>9

\* The place inside a try.
LEMMA OpenedPlace ==
  ASSUME NEW x, Place(x), NEW n \in Nat
  PROVE  Place(Opened(x, n)) /\ Opened(x, n).height = x.height
<1>1. PICK y : y = Opened(x, n)
  OBVIOUS
<1>2. PICK t : t = [catch |-> n, height |-> x.height]
  OBVIOUS
<1>3. /\ x.height \in Nat /\ x.open \in Seq(Trys) /\ Floor(x) \in Nat /\ Floor(x) >= 1 /\ Floor(x) <= x.height
      /\ Orderly(x.open) /\ x \in Places
  BY PlaceType DEF Place, Places
<1>4. y.height = x.height /\ y.open = Append(x.open, t)
  BY <1>1, <1>2 DEF Opened
<1>5. y \in Places /\ t \in Trys /\ t.height = x.height
  BY <1>1, <1>2, <1>3 DEF Opened, Places, Trys
<1>6. PICK m \in Nat : m = Len(x.open)
  BY <1>3
<1>7. Len(y.open) = m + 1 /\ y.open[m + 1] = t /\ \A i \in 1 .. m : y.open[i] = x.open[i]
  BY <1>3, <1>4, <1>5, <1>6
<1>8. \A i \in 1 .. m : x.open[i] \in Trys /\ x.open[i].height \in Nat /\ x.open[i].height <= x.height
        /\ x.open[i].height >= 1
  <2>1. ASSUME NEW i \in 1 .. m
        PROVE  x.open[i] \in Trys /\ x.open[i].height \in Nat /\ x.open[i].height <= x.height /\ x.open[i].height >= 1
    <3>1. x.open[i] \in Trys /\ x.open[i].height \in Nat
      <4>1. x.open[i] \in Trys
        BY <1>3, <1>6
      <4> QED BY <4>1 DEF Trys
    <3>2. m \in 1 .. m /\ m # 0
      OBVIOUS
    <3>3. x.open[i].height <= x.open[m].height /\ x.open[i].height >= 1
      BY <1>3, <1>6, <2>1, <3>2 DEF Orderly
    <3>4. Floor(x) = x.open[m].height
      <4>1. x.open # <<>>
        BY <1>6, <3>2
      <4> QED BY <1>6, <4>1 DEF Floor
    <3> QED BY <1>3, <3>1, <3>3, <3>4
  <2> QED BY <2>1
<1>9. Floor(y) = x.height
  <2>1. y.open # <<>>
    <3>1. y.open = <<>> => Len(y.open) = 0
      OBVIOUS
    <3>2. m + 1 # 0
      BY <1>6
    <3> QED BY <1>7, <3>1, <3>2
  <2> QED BY <1>5, <1>7, <2>1 DEF Floor
<1>10. Orderly(y.open)
  <2>1. ASSUME NEW i \in 1 .. m + 1
        PROVE  y.open[i].height >= 1 /\ \A l \in 1 .. i : y.open[l].height <= y.open[i].height
    <3>1. CASE i \in 1 .. m
      <4>1. \A l \in 1 .. i : l \in 1 .. m
        BY <3>1
      <4>2. x.open[i].height >= 1 /\ \A l \in 1 .. i : x.open[l].height <= x.open[i].height
        BY <1>3, <1>6, <3>1 DEF Orderly
      <4> QED BY <1>7, <3>1, <4>1, <4>2
    <3>2. CASE i = m + 1
      <4>1. y.open[i].height = x.height
        BY <1>5, <1>7, <3>2
      <4>2. \A l \in 1 .. i : l \in 1 .. m \/ l = m + 1
        BY <3>2
      <4>3. x.height >= 1 /\ x.height <= x.height
        BY <1>3
      <4> QED BY <1>5, <1>7, <1>8, <4>1, <4>2, <4>3
    <3>3. i \in 1 .. m \/ i = m + 1
      BY <1>6
    <3> QED BY <3>1, <3>2, <3>3
  <2> QED BY <1>7, <2>1 DEF Orderly
<1>11. Place(y)
  <2>1. Floor(y) <= y.height
    BY <1>3, <1>4, <1>9
  <2> QED BY <1>5, <1>10, <2>1 DEF Place
<1> QED BY <1>1, <1>4, <1>11

\* Whatever is thrown between the two ends of a try, its handler finds the frame as it was.
LEMMA TryKept ==
  ASSUME NEW c \in Contexts, NEW k \in {"free", "guarded"}, k \in Kinds, NEW x \in Names,
         NEW b, Kept(EmitJump(c, "TRY"), b, "guarded"),
         NEW v, v = Patch(EmitJump(Emit(b, <<"TRY_END">>), "JUMP"), Here(c)),
         NEW a, a = AddLocal(BeginScope(v), x), NEW h, v \in Contexts => Done(a, h, k), NEW s, s = EndScope(h)
  PROVE  v \in Contexts /\ Len(v.code) = Here(b) + 1 /\ Kept(c, Patch(s, Here(b) + 1), k)
<1>1. PICK j : j = EmitJump(c, "TRY")
  OBVIOUS
<1>2. PICK w : w = Patch(s, Here(b) + 1)
  OBVIOUS
<1>3. "TRY" \in Patched
  BY DEF Patched
<1>4. j \in Contexts /\ Grown(c, j) /\ j.locals = c.locals /\ j.depth = c.depth
  BY <1>1, <1>3, EmitJumpGrown
<1>5. /\ Grown(j, b) /\ b.depth = c.depth
      /\ ~b.err /\ Stood(j, "guarded") =>
           b.locals = j.locals /\ \A at : StandsAt(j, "guarded", at) => Emits(j, b, at, at)
  BY <1>1, <1>4 DEF Kept
<1>6. v \in Contexts
  BY <1>1, <1>5, TryPatched
<1>7. /\ Grown(v, s) /\ s.depth = v.depth
      /\ ~s.err /\ Stood(v, k) =>
           /\ s.locals = v.locals
           /\ \A at : StandsAt(v, k, at) => Emits(v, s, Up(at), at)
  BY <1>6, HandlerKept
<1>8. /\ Grown(c, v) /\ Len(v.code) = Here(b) + 1 /\ v.locals = b.locals /\ v.depth = b.depth /\ v.err = b.err
      /\ Grown(c, w) /\ w.locals = s.locals /\ w.depth = s.depth /\ w.err = s.err
  BY <1>1, <1>2, <1>5, <1>7, TryContext
<1>9. ASSUME ~w.err, Stood(c, k)
      PROVE  w.locals = c.locals /\ \A at : StandsAt(c, k, at) => Emits(c, w, at, at)
  <2>1. ~s.err /\ ~v.err /\ ~b.err
    BY <1>7, <1>8, <1>9 DEF Grown
  <2>2. Stood(j, "guarded")
    BY <1>4, <1>9 DEF Stood
  <2>3. b.locals = c.locals /\ \A at : StandsAt(j, "guarded", at) => Emits(j, b, at, at)
    BY <1>4, <1>5, <2>1, <2>2
  <2>4. Stood(v, k) /\ \A at : StandsAt(c, k, at) <=> StandsAt(v, k, at)
    BY <1>5, <1>8, <1>9, <2>3, StoodSame
  <2>5. s.locals = c.locals /\ \A at : StandsAt(v, k, at) => Emits(v, s, Up(at), at)
    BY <1>7, <1>8, <2>1, <2>3, <2>4
  <2>6. ASSUME NEW at, StandsAt(c, k, at) PROVE Emits(c, w, at, at)
    <3>1. Place(at) /\ at.height = Height(c)
      BY <2>6 DEF StandsAt
    <3>2. \A n \in Nat : Emits(EmitJump(c, "TRY"), b, Opened(at, n), Opened(at, n))
      <4>1. ASSUME NEW n \in Nat PROVE Emits(j, b, Opened(at, n), Opened(at, n))
        <5>1. Place(Opened(at, n)) /\ Opened(at, n).height = Height(j)
          BY <1>4, <3>1, OpenedPlace DEF Height
        <5>2. StandsAt(j, "guarded", Opened(at, n))
          BY <5>1 DEF StandsAt
        <5> QED BY <2>3, <5>2
      <4> QED BY <1>1, <4>1
    <3>3. Emits(v, s, Up(at), at)
      BY <2>4, <2>5, <2>6
    <3> QED BY <1>2, <3>1, <3>2, <3>3, TryEmits
  <2> QED BY <1>8, <2>5, <2>6
<1>10. Kept(c, w, k)
  BY <1>5, <1>7, <1>8, <1>9 DEF Kept
<1> QED BY <1>2, <1>6, <1>8, <1>10

-----------------------------------------------------------------------------
(***************************************************************************)
(* The statements, one by one.                                             *)
(***************************************************************************)
\* What is not to be compiled is an error.
LEMMA RefusedKept ==
  ASSUME NEW c \in Contexts, NEW k \in Kinds
  PROVE  Kept(c, [c EXCEPT !.err = TRUE], k)
<1>1. [c EXCEPT !.err = TRUE] = Checked(c, FALSE)
  BY DEF Checked
<1>2. PICK d : d = [c EXCEPT !.err = TRUE]
  OBVIOUS
<1>3. Grown(c, d) /\ d.depth = c.depth
  BY <1>1, <1>2, CheckedGrown
<1>4. d.err
  BY <1>2 DEF Contexts
<1> QED BY <1>2, <1>3, <1>4 DEF Kept

\* A return goes nowhere from here, whatever comes next.
LEMMA ReturnKept ==
  ASSUME NEW c \in Contexts, c.nested, NEW k \in Kinds, k # "guarded", NEW t, Pushed(c, t, 1)
  PROVE  Kept(c, Emit(t, <<"RETURN">>), k)
<1>1. PICK d : d = Emit(t, <<"RETURN">>)
  OBVIOUS
<1>2. PICK i : i = <<"RETURN">>
  OBVIOUS
<1>3. i \in Instructions /\ i[1] = "RETURN" /\ Takes(i) = 1
  BY <1>2 DEF Instructions, Opcodes, Takes, Leaves, Pushing, Dropping, Combining, Arithmetic, Division, Comparison,
              Replacing, Peeking, Collecting, Moving
<1>4. Grown(c, t) /\ t \in Contexts /\ t.locals = c.locals /\ t.depth = c.depth /\ t.nested
  BY DEF Pushed, Grown
<1>5. /\ Grown(t, d) /\ d \in Contexts /\ Here(d) = Here(t) + 1 /\ d.code[Here(t)] = i
      /\ d.locals = c.locals /\ d.depth = c.depth /\ d.nested /\ Here(t) \in Nat
  <2>1. /\ Grown(t, d) /\ d \in Contexts /\ Here(d) = Here(t) + 1 /\ d.code[Here(t)] = i
        /\ d.locals = t.locals /\ d.depth = t.depth
    BY <1>1, <1>2, <1>3, <1>4, EmitGrown
  <2>2. d.nested = t.nested
    BY <2>1 DEF Grown
  <2>3. Here(t) \in Nat
    BY <1>4, ContextType
  <2> QED BY <1>4, <2>1, <2>2, <2>3
<1>6. Grown(c, d)
  BY <1>4, <1>5, GrownOn
<1>7. ASSUME Stood(c, k), NEW at, StandsAt(c, k, at) PROVE Emits(c, d, at, at)
  <2>1. Place(at) /\ at.open = <<>> /\ Grounded(c, at)
    BY <1>7, StandsType DEF StandsAt
  <2>2. PICK x : x = Raised(at, 1)
    OBVIOUS
  <2>3. /\ Place(x) /\ x.open = <<>> /\ Floor(x) = Floor(at) /\ x.height = at.height + 1
        /\ at.height \in Nat /\ Floor(at) \in Nat /\ Floor(at) <= at.height
    <3>1. 1 \in Nat
      OBVIOUS
    <3> QED BY <2>1, <2>2, <3>1, RaisedPlace, PlaceType
  <2>4. Emits(c, t, at, x)
    BY <2>1, <2>2 DEF Pushed
  <2>5. 1 <= x.height - Floor(x)
    BY <2>3
  <2>6. Suffices(i, x, ~d.nested)
    BY <1>3, <1>5, <2>3, <2>5 DEF Suffices, Collecting
  <2>7. Runs(d, Here(t), x) /\ Targets(d.code[Here(t)], Here(t)) = {}
    BY <1>3, <1>5, <2>6 DEF Runs, Targets
  <2>8. Segment(d, Here(t), Here(t) + 1, x, at)
    BY <1>5, <2>1, <2>3, <2>7, OneInstruction
  <2>9. Emits(t, d, x, at)
    BY <1>5, <2>8 DEF Emits
  <2> QED BY <2>1, <2>3, <2>4, <2>9, EmitsOn
<1>8. Kept(c, d, k)
  BY <1>5, <1>6, <1>7 DEF Kept
<1> QED BY <1>1, <1>8

\* The parts of a statement, by its kind.
LEMMA StmtKinds ==
  ASSUME NEW E, NEW S, NEW k \in Kinds, NEW s \in StmtsOf(E, S, k)
  PROVE  \/ s[1] = "let" /\ s[2] \in Names /\ s[3] \in E /\ k # "inner"
         \/ s[1] = "assign" /\ s[2] \in Names /\ s[3] \in E
         \/ s[1] \in {"print", "expr"} /\ s[2] \in E
         \/ s[1] = "setindex" /\ s[2] \in E /\ s[3] \in E /\ s[4] \in E
         \/ s[1] = "if" /\ s[2] \in E /\ s[3] \in Seq(S[Inside(k)]) /\ s[4] \in Seq(S[Inside(k)])
         \/ s[1] = "loop" /\ s[2] \in E /\ s[3] \in Seq(S[Inside(k)])
         \/ s[1] = "function" /\ s[2] \in Names /\ s[3] \in Seq(Names) /\ s[4] \in Seq(S["free"])
         \/ s[1] = "import" /\ s[2] \in Seq(S["module"])
         \/ s[1] = "return" /\ s[2] \in E /\ k # "guarded"
         \/ s[1] = "try" /\ s[2] \in Seq(S["guarded"]) /\ s[3] \in Names /\ s[4] \in Seq(S[k]) /\ k \in {"free", "guarded"}
<1>1. CASE s \in {"let"} \X Names \X E /\ k # "inner"
  BY <1>1
<1>2. CASE s \in {"assign"} \X Names \X E
  BY <1>2
<1>3. CASE s \in {"print", "expr"} \X E
  BY <1>3
<1>4. CASE s \in {"setindex"} \X E \X E \X E
  BY <1>4
<1>5. CASE s \in {"if"} \X E \X Seq(S[Inside(k)]) \X Seq(S[Inside(k)])
  BY <1>5
<1>6. CASE s \in {"loop"} \X E \X Seq(S[Inside(k)])
  BY <1>6
<1>7. CASE s \in {"function"} \X Names \X Seq(Names) \X Seq(S["free"])
  BY <1>7
<1>8. CASE s \in {"import"} \X Seq(S["module"])
  BY <1>8
<1>9. CASE s \in {"return"} \X E /\ k # "guarded"
  BY <1>9
<1>10. CASE s \in {"try"} \X Seq(S["guarded"]) \X Names \X Seq(S[k]) /\ k \in {"free", "guarded"}
  BY <1>10
<1>11. \/ s \in {"let"} \X Names \X E /\ k # "inner"
       \/ s \in {"assign"} \X Names \X E
       \/ s \in {"print", "expr"} \X E
       \/ s \in {"setindex"} \X E \X E \X E
       \/ s \in {"if"} \X E \X Seq(S[Inside(k)]) \X Seq(S[Inside(k)])
       \/ s \in {"loop"} \X E \X Seq(S[Inside(k)])
       \/ s \in {"function"} \X Names \X Seq(Names) \X Seq(S["free"])
       \/ s \in {"import"} \X Seq(S["module"])
       \/ s \in {"return"} \X E /\ k # "guarded"
       \/ s \in {"try"} \X Seq(S["guarded"]) \X Names \X Seq(S[k]) /\ k \in {"free", "guarded"}
  BY Zenon DEF StmtsOf
<1> QED BY <1>1, <1>2, <1>3, <1>4, <1>5, <1>6, <1>7, <1>8, <1>9, <1>10, <1>11

\* A statement keeps the stack in step with the locals, if its parts do.
LEMMA DoneStmt ==
  ASSUME NEW E, \A d \in Contexts : \A e \in E : Pushed(d, Expr(d, e), 1),
         NEW S, \A l \in Kinds : \A d \in Contexts : \A b \in Seq(S[l]) : Done(d, Nodes(d, b), l),
         \A d \in Contexts : \A ps \in Seq(Names) : Params(d, ps) = AddParams(d, ps),
         NEW c \in Contexts, NEW k \in Kinds, NEW s \in StmtsOf(E, S, k)
  PROVE  Done(c, CompileNode(c, s), k)
<1>0. /\ 0 \in Nat /\ 1 \in Nat /\ 2 \in Nat /\ 3 \in Nat /\ 1 \in 0 .. 1 /\ 3 \in 0 .. 3
      /\ 1 - 1 + 0 = 0 /\ 1 - 1 + 1 = 1 /\ 3 - 3 + 0 = 0 /\ 1 + 1 = 2 /\ 2 + 1 = 3
      /\ "free" \in Kinds /\ "guarded" \in Kinds /\ "module" \in Kinds
  BY DEF Kinds
<1>1. ASSUME NEW d \in Contexts, NEW e \in E PROVE Pushed(d, Expr(d, e), 1) /\ Expr(d, e) \in Contexts
  BY DEF Pushed, Grown
<1>2. ASSUME NEW d \in Contexts, NEW b \in Seq(S[Inside(k)]) PROVE Kept(d, Scoped(d, b), k)
  <2>1. Inside(k) \in Kinds
    BY DEF Inside, Kinds
  <2> QED BY <2>1, ScopedKept
<1>3. CASE s[1] = "let" /\ s[2] \in Names /\ s[3] \in E /\ k # "inner"
  <2>1. CompileNode(c, s) = Declare(Expr(c, s[3]), s[2])
    BY <1>3 DEF CompileNode
  <2> QED BY <1>1, <1>3, <2>1, DeclareDone
<1>4. CASE s[1] = "assign" /\ s[2] \in Names /\ s[3] \in E
  <2>1. PICK d : d = Access(Expr(c, s[3]), s[2], "SET_LOCAL", "SET_GLOBAL")
    OBVIOUS
  <2>2. CompileNode(c, s) = Emit(d, <<"POP">>)
    BY <1>4, <2>1 DEF CompileNode
  <2>3. Pushed(c, d, 1 - 1 + 1)
    BY <1>0, <1>1, <1>4, <2>1, ConstEffect, PushedAccess
  <2>4. Pushed(c, Emit(d, <<"POP">>), 1 - 1 + 0)
    BY <1>0, <2>3, PopEffect, PushedOp
  <2> QED BY <1>0, <2>2, <2>4, PushedKept, KeptDone
<1>5. CASE s[1] = "print" /\ s[2] \in E
  <2>1. CompileNode(c, s) = Emit(Expr(c, s[2]), <<"PRINT">>)
    BY <1>5 DEF CompileNode
  <2>2. Pushed(c, Emit(Expr(c, s[2]), <<"PRINT">>), 1 - 1 + 0)
    BY <1>0, <1>1, <1>5, OpEffect, PushedOp
  <2> QED BY <1>0, <2>1, <2>2, PushedKept, KeptDone
<1>6. CASE s[1] = "expr" /\ s[2] \in E
  <2>1. CompileNode(c, s) = Emit(Expr(c, s[2]), <<"POP">>)
    BY <1>6 DEF CompileNode
  <2>2. Pushed(c, Emit(Expr(c, s[2]), <<"POP">>), 1 - 1 + 0)
    BY <1>0, <1>1, <1>6, PopEffect, PushedOp
  <2> QED BY <1>0, <2>1, <2>2, PushedKept, KeptDone
<1>7. CASE s[1] = "setindex" /\ s[2] \in E /\ s[3] \in E /\ s[4] \in E
  <2>1. PICK a : a = Expr(c, s[2])
    OBVIOUS
  <2>2. PICK b : b = Expr(a, s[3])
    OBVIOUS
  <2>3. PICK d : d = Expr(b, s[4])
    OBVIOUS
  <2>4. CompileNode(c, s) = Emit(d, <<"SET_INDEX">>)
    BY <1>7, <2>1, <2>2, <2>3 DEF CompileNode
  <2>5. Pushed(c, a, 1) /\ a \in Contexts
    BY <1>1, <1>7, <2>1
  <2>6. Pushed(a, b, 1) /\ b \in Contexts
    BY <1>1, <1>7, <2>2, <2>5
  <2>7. Pushed(b, d, 1)
    BY <1>1, <1>7, <2>3, <2>6
  <2>8. Pushed(c, b, 1 + 1)
    BY <1>0, <2>5, <2>6, PushedOn
  <2>9. Pushed(c, d, 2 + 1)
    BY <1>0, <2>7, <2>8, PushedOn
  <2>10. Pushed(c, Emit(d, <<"SET_INDEX">>), 3 - 3 + 0)
    BY <1>0, <2>9, OpEffect, PushedOp
  <2> QED BY <1>0, <2>4, <2>10, PushedKept, KeptDone
<1>8. CASE s[1] = "if" /\ s[2] \in E /\ s[3] \in Seq(S[Inside(k)]) /\ s[4] \in Seq(S[Inside(k)])
  <2>1. PICK t : t = Expr(c, s[2])
    OBVIOUS
  <2>2. PICK j : j = EmitJump(t, "JUMP_IF_FALSE")
    OBVIOUS
  <2>3. PICK r : r = Scoped(Emit(j, <<"POP">>), s[3])
    OBVIOUS
  <2>4. PICK v : v = Patch(EmitJump(r, "JUMP"), Len(j.code))
    OBVIOUS
  <2>5. PICK z : z = Scoped(Emit(v, <<"POP">>), s[4])
    OBVIOUS
  <2>6. CompileNode(c, s) = Patch(z, Len(v.code))
    <3>1. CompileNode(c, s) = CompileIf(c, s[2], s[3], s[4])
      BY <1>8 DEF CompileNode
    <3> QED BY <2>1, <2>2, <2>3, <2>4, <2>5, <3>1 DEF CompileIf, JumpOver, Test
  <2>7. Pushed(c, t, 1) /\ t \in Contexts
    BY <1>1, <1>8, <2>1
  <2>8. j \in Contexts /\ Len(j.code) = Here(t)
    BY <2>2, <2>7, EmitJumpGrown DEF Patched
  <2>9. Kept(Emit(j, <<"POP">>), r, k)
    BY <1>2, <1>8, <2>3, <2>8, Popped
  <2>10. v \in Contexts
    <3>1. Grown(j, r)
      <4>1. Grown(j, Emit(j, <<"POP">>)) /\ Emit(j, <<"POP">>) \in Contexts
        BY <2>8, Popped
      <4>2. Grown(Emit(j, <<"POP">>), r)
        BY <2>9 DEF Kept
      <4> QED BY <2>8, <4>1, <4>2, GrownOn
    <3> QED BY <2>2, <2>4, <2>7, <2>8, <3>1, ForkContext
  <2>11. Kept(Emit(v, <<"POP">>), z, k)
    BY <1>2, <1>8, <2>5, <2>10, Popped
  <2>12. Len(v.code) = Here(r) /\ Kept(c, Patch(z, Here(r)), k)
    BY <2>2, <2>4, <2>7, <2>8, <2>9, <2>11, ForkKept
  <2> QED BY <2>6, <2>12, KeptDone
<1>9. CASE s[1] = "loop" /\ s[2] \in E /\ s[3] \in Seq(S[Inside(k)])
  <2>1. PICK t : t = Expr(c, s[2])
    OBVIOUS
  <2>2. PICK j : j = EmitJump(t, "JUMP_IF_FALSE")
    OBVIOUS
  <2>3. PICK r : r = Scoped(Emit(j, <<"POP">>), s[3])
    OBVIOUS
  <2>4. PICK w : w = Patch(Emit(r, <<"LOOP", Here(c)>>), Len(j.code))
    OBVIOUS
  <2>5. CompileNode(c, s) = Emit(w, <<"POP">>)
    <3>1. CompileNode(c, s) = CompileLoop(c, s[2], s[3])
      BY <1>9 DEF CompileNode
    <3> QED BY <2>1, <2>2, <2>3, <2>4, <3>1 DEF CompileLoop, JumpOver, Test
  <2>6. Pushed(c, t, 1) /\ t \in Contexts
    BY <1>1, <1>9, <2>1
  <2>7. j \in Contexts /\ Len(j.code) = Here(t)
    BY <2>2, <2>6, EmitJumpGrown DEF Patched
  <2>8. Kept(Emit(j, <<"POP">>), r, k)
    BY <1>2, <1>9, <2>3, <2>7, Popped
  <2>9. Kept(c, Emit(w, <<"POP">>), k)
    BY <2>2, <2>4, <2>6, <2>7, <2>8, LoopKept
  <2> QED BY <2>5, <2>9, KeptDone
<1>10. CASE s[1] = "function" /\ s[2] \in Names /\ s[3] \in Seq(Names) /\ s[4] \in Seq(S["free"])
  <2>1. CompileNode(c, s) = CompileFunction(c, s[2], s[3], s[4])
    BY <1>10 DEF CompileNode
  <2>2. \A d \in Contexts : \A b \in Seq(S["free"]) : Done(d, Nodes(d, b), "free")
    BY <1>0
  <2>3. Kept(c, CompileFunction(c, s[2], s[3], s[4]), k)
    BY <1>10, <2>2, FunctionKept
  <2> QED BY <2>1, <2>3, KeptDone
<1>11. CASE s[1] = "import" /\ s[2] \in Seq(S["module"])
  <2>1. CompileNode(c, s) = CompileImport(c, s[2])
    BY <1>11 DEF CompileNode
  <2>2. \A d \in Contexts : \A b \in Seq(S["module"]) : Done(d, Nodes(d, b), "module")
    BY <1>0
  <2>3. Kept(c, CompileImport(c, s[2]), k)
    BY <1>11, <2>2, ImportKept
  <2> QED BY <2>1, <2>3, KeptDone
<1>12. CASE s[1] = "return" /\ s[2] \in E /\ k # "guarded"
  <2>1. CASE c.nested
    <3>1. CompileNode(c, s) = Emit(Expr(c, s[2]), <<"RETURN">>)
      BY <1>12, <2>1 DEF CompileNode
    <3> QED BY <1>1, <1>12, <2>1, <3>1, ReturnKept, KeptDone
  <2>2. CASE ~c.nested
    <3>1. CompileNode(c, s) = [c EXCEPT !.err = TRUE]
      BY <1>12, <2>2 DEF CompileNode
    <3> QED BY <3>1, RefusedKept, KeptDone
  <2> QED BY <2>1, <2>2
<1>13. CASE s[1] = "try" /\ s[2] \in Seq(S["guarded"]) /\ s[3] \in Names /\ s[4] \in Seq(S[k]) /\ k \in {"free", "guarded"}
  <2>1. PICK j : j = EmitJump(c, "TRY")
    OBVIOUS
  <2>2. PICK b : b = Scoped(j, s[2])
    OBVIOUS
  <2>3. PICK v : v = Patch(EmitJump(Emit(b, <<"TRY_END">>), "JUMP"), Len(j.code))
    OBVIOUS
  <2>4. PICK a : a = AddLocal(BeginScope(v), s[3])
    OBVIOUS
  <2>5. PICK h : h = Nodes(a, s[4])
    OBVIOUS
  <2>6. PICK z : z = EndScope(h)
    OBVIOUS
  <2>7. CompileNode(c, s) = Patch(z, Len(v.code))
    <3>1. CompileNode(c, s) = CompileTry(c, s[2], s[3], s[4])
      BY <1>13 DEF CompileNode
    <3> QED BY <2>1, <2>2, <2>3, <2>4, <2>5, <2>6, <3>1 DEF CompileTry, JumpOver
  <2>8. j \in Contexts /\ Len(j.code) = Here(c)
    BY <2>1, EmitJumpGrown DEF Patched
  <2>9. Kept(j, b, "guarded")
    <3>1. Inside("guarded") = "guarded"
      BY DEF Inside
    <3>2. \A d \in Contexts : Done(d, Nodes(d, s[2]), Inside("guarded"))
      BY <1>0, <1>13, <3>1
    <3> QED BY <1>0, <2>2, <2>8, <3>2, ScopedKept
  <2>10. v \in Contexts => Done(a, h, k)
    <3>1. ASSUME v \in Contexts PROVE a \in Contexts
      <4>1. s[3] \in Labels /\ BeginScope(v) \in Contexts
        BY <1>13, <3>1, BeginScopeGrown DEF Labels
      <4> QED BY <2>4, <4>1, AddLocalGrown
    <3> QED BY <1>13, <2>5, <3>1
  <2>11. Len(v.code) = Here(b) + 1 /\ Kept(c, Patch(z, Here(b) + 1), k)
    BY <1>13, <2>1, <2>3, <2>4, <2>6, <2>8, <2>9, <2>10, TryKept
  <2> QED BY <2>7, <2>11, KeptDone
<1> QED BY <1>3, <1>4, <1>5, <1>6, <1>7, <1>8, <1>9, <1>10, <1>11, <1>12, <1>13, StmtKinds

\* Statements less than one deep, and one deeper.
LEMMA StmtDepths ==
  /\ \A k \in Kinds : Trees[0].stmt[k] = {}
  /\ \A n \in Nat : \A k \in Kinds : Trees[n + 1].stmt[k] = StmtsOf(Trees[n].expr, Trees[n].stmt, k)
<1>1. ASSUME NEW k \in Kinds PROVE Trees[0].stmt[k] = {}
  <2>1. Trees[0].stmt = [j \in Kinds |-> {}]
    BY TreesByDepth DEF NoTrees
  <2> QED BY <2>1
<1>2. ASSUME NEW n \in Nat, NEW k \in Kinds PROVE Trees[n + 1].stmt[k] = StmtsOf(Trees[n].expr, Trees[n].stmt, k)
  <2>1. Trees[n + 1] = Deeper(Trees[n])
    BY TreesByDepth
  <2>2. Trees[n + 1].stmt = [j \in Kinds |-> StmtsOf(Trees[n].expr, Trees[n].stmt, j)]
    BY <2>1 DEF Deeper
  <2> QED BY <2>2
<1> QED BY <1>1, <1>2

\* Whatever way leads through a statement, or through a block, it leaves on
\* the stack of the frame what was there and the locals that it declares, and
\* no try open that was not; and the functions compiled for it fit.
THEOREM StatementsKeepStep ==
  ASSUME ByTheRules
  PROVE  \A n \in Nat : \A c \in Contexts : \A k \in Kinds :
           /\ \A s \in Trees[n].stmt[k] : Done(c, Node(c, s), k)
           /\ \A b \in Seq(Trees[n].stmt[k]) : Done(c, Nodes(c, b), k)
<1> DEFINE Stmts(n) == \A k \in Kinds : \A c \in Contexts : \A s \in Trees[n].stmt[k] : Done(c, Node(c, s), k)
           T == {n \in Nat : Stmts(n)}
<1>1. ASSUME NEW n \in Nat, Stmts(n)
      PROVE  \A k \in Kinds : \A c \in Contexts : \A b \in Seq(Trees[n].stmt[k]) : Done(c, Nodes(c, b), k)
  <2>1. ASSUME NEW k \in Kinds PROVE \A c \in Contexts : \A b \in Seq(Trees[n].stmt[k]) : Done(c, Nodes(c, b), k)
    <3>1. PICK S : S = Trees[n].stmt[k]
      OBVIOUS
    <3>2. \A c \in Contexts : \A b \in Seq(S) : Nodes(c, b) = CompileBlock(c, b)
      BY <3>1 DEF ByTheRules
    <3>3. \A c \in Contexts : \A s \in S : Done(c, Node(c, s), k)
      BY <1>1, <3>1
    <3> HIDE DEF Stmts
    <3>4. \A c \in Contexts : \A b \in Seq(S) : Done(c, Nodes(c, b), k)
      BY <3>2, <3>3, DoneBlock
    <3> QED BY <3>1, <3>4
  <2> HIDE DEF Stmts
  <2> QED BY <2>1
<1>2. 0 \in T
  <2>1. Stmts(0)
    BY StmtDepths
  <2> HIDE DEF Stmts
  <2> QED BY <2>1
<1>3. ASSUME NEW n \in T PROVE n + 1 \in T
  <2>1. n \in Nat /\ n + 1 \in Nat /\ Stmts(n)
    OBVIOUS
  <2>2. PICK E : E = Trees[n].expr
    OBVIOUS
  <2>3. PICK S : S = Trees[n].stmt
    OBVIOUS
  <2>4. \A d \in Contexts : \A e \in E : Pushed(d, Expr(d, e), 1)
    BY <2>1, <2>2, ExpressionsPush
  <2>5. \A l \in Kinds : \A d \in Contexts : \A b \in Seq(S[l]) : Done(d, Nodes(d, b), l)
    BY <1>1, <2>1, <2>3
  <2>6. \A d \in Contexts : \A ps \in Seq(Names) : Params(d, ps) = AddParams(d, ps)
    BY <2>1 DEF ByTheRules
  <2> HIDE DEF T
  <2>7. ASSUME NEW k \in Kinds, NEW c \in Contexts, NEW s \in Trees[n + 1].stmt[k] PROVE Done(c, Node(c, s), k)
    <3>1. s \in StmtsOf(E, S, k)
      BY <2>1, <2>2, <2>3, <2>7, StmtDepths
    <3>2. Done(c, CompileNode(c, s), k)
      BY <2>4, <2>5, <2>6, <3>1, DoneStmt
    <3>3. Node(c, s) = CompileNode(c, s)
      BY <2>1, <2>7 DEF ByTheRules
    <3> QED BY <3>2, <3>3
  <2>8. Stmts(n + 1)
    BY <2>7
  <2> HIDE DEF Stmts
  <2> QED BY <2>1, <2>8 DEF T
<1>4. T \in SUBSET Nat
  OBVIOUS
<1>5. T = Nat
  <2> HIDE DEF T
  <2> QED BY <1>2, <1>3, <1>4, SetInduction
<1>6. ASSUME NEW n \in Nat, NEW c \in Contexts, NEW k \in Kinds
      PROVE  /\ \A s \in Trees[n].stmt[k] : Done(c, Node(c, s), k)
             /\ \A b \in Seq(Trees[n].stmt[k]) : Done(c, Nodes(c, b), k)
  <2>1. n \in T
    <3> HIDE DEF T
    <3> QED BY <1>5
  <2>2. Stmts(n)
    BY <2>1
  <2>3. \A b \in Seq(Trees[n].stmt[k]) : Done(c, Nodes(c, b), k)
    <3> HIDE DEF Stmts, T
    <3> QED BY <1>1, <2>2
  <2> QED BY <2>2, <2>3
<1> HIDE DEF T
<1> QED BY <1>6

-----------------------------------------------------------------------------
(***************************************************************************)
(* One pass over the code, in its order, finds the places that fit: what   *)
(* jumps back goes to what the pass had found before it came there.        *)
(***************************************************************************)
Beginning(f) == [t \in {1} |-> [height |-> f.arity + 1, open |-> <<>>]]
Passed(f, S, m) ==
  S = [ip \in 0 .. m |-> IF ip = 0 THEN Beginning(f) ELSE Onward(f, ip, S[ip - 1])]

\* There is something that the pass finds, however far it comes.
LEMMA PassGoesOn ==
  ASSUME NEW f
  PROVE  \A m \in Nat : \E S : Passed(f, S, m)
<1> DEFINE T == {m \in Nat : \E S : Passed(f, S, m)}
<1>1. 0 \in T
  <2> DEFINE S == [ip \in 0 .. 0 |-> Beginning(f)]
  <2>1. Passed(f, S, 0)
    BY DEF Passed
  <2> HIDE DEF S
  <2> QED BY <2>1
<1>2. ASSUME NEW m \in T PROVE m + 1 \in T
  <2>1. PICK S : Passed(f, S, m)
    OBVIOUS
  <2>2. m \in Nat
    OBVIOUS
  <2> DEFINE R == [ip \in 0 .. m + 1 |-> IF ip = 0 THEN Beginning(f) ELSE Onward(f, ip, S[ip - 1])]
  <2>3. \A ip \in 0 .. m : R[ip] = S[ip]
    <3> SUFFICES ASSUME NEW ip \in 0 .. m PROVE R[ip] = S[ip]
      OBVIOUS
    <3>1. R[ip] = IF ip = 0 THEN Beginning(f) ELSE Onward(f, ip, S[ip - 1])
      BY <2>2
    <3>2. S[ip] = IF ip = 0 THEN Beginning(f) ELSE Onward(f, ip, S[ip - 1])
      BY <2>1 DEF Passed
    <3> QED BY <3>1, <3>2
  <2>4. \A ip \in 0 .. m + 1 : ip # 0 => ip - 1 \in 0 .. m
    BY <2>2
  <2>5. ASSUME NEW ip \in 0 .. m + 1 PROVE R[ip] = IF ip = 0 THEN Beginning(f) ELSE Onward(f, ip, R[ip - 1])
    <3>1. R[ip] = IF ip = 0 THEN Beginning(f) ELSE Onward(f, ip, S[ip - 1])
      OBVIOUS
    <3>2. ip # 0 => R[ip - 1] = S[ip - 1]
      BY <2>3, <2>4
    <3> HIDE DEF R
    <3> QED BY <3>1, <3>2
  <2>6. Passed(f, R, m + 1)
    <3>1. R = [ip \in 0 .. m + 1 |-> R[ip]]
      OBVIOUS
    <3> HIDE DEF R
    <3> QED BY <2>5, <3>1 DEF Passed
  <2> HIDE DEF R
  <2> QED BY <2>2, <2>6
<1>3. T \in SUBSET Nat
  OBVIOUS
<1>4. T = Nat
  <2> HIDE DEF T
  <2> QED BY <1>1, <1>2, <1>3, SetInduction
<1> QED BY <1>4

\* ShapeOf, which is defined by recursion, is what the pass over all of the code finds.
LEMMA ShapePassed ==
  ASSUME NEW f, Len(f.code) \in Nat
  PROVE  \E S : Passed(f, S, Len(f.code)) /\ ShapeOf(f) = S[Len(f.code)]
<1> DEFINE S == CHOOSE s : s = [ip \in 0 .. Len(f.code) |->
                             IF ip = 0 THEN [t \in {1} |-> [height |-> f.arity + 1, open |-> <<>>]]
                             ELSE Onward(f, ip, s[ip - 1])]
<1>1. ShapeOf(f) = S[Len(f.code)]
  BY DEF ShapeOf
<1>2. \E s : s = [ip \in 0 .. Len(f.code) |->
                    IF ip = 0 THEN [t \in {1} |-> [height |-> f.arity + 1, open |-> <<>>]]
                    ELSE Onward(f, ip, s[ip - 1])]
  <2>1. PICK R : Passed(f, R, Len(f.code))
    BY PassGoesOn
  <2>2. R = [ip \in 0 .. Len(f.code) |->
               IF ip = 0 THEN [t \in {1} |-> [height |-> f.arity + 1, open |-> <<>>]]
               ELSE Onward(f, ip, R[ip - 1])]
    BY <2>1 DEF Passed, Beginning
  <2> QED BY <2>2
<1>3. Passed(f, S, Len(f.code))
  BY <1>2 DEF Passed, Beginning
<1> HIDE DEF S
<1> QED BY <1>1, <1>3

\* A pass over 1 to N that goes on from what it has found goes on from all that it
\* finds, if what is jumped back to from p is the only way into what the jump goes over.
LEMMA FoundInTime ==
  ASSUME NEW N \in Nat, NEW E, NEW D, D[0] = {1},
         \A p \in 1 .. N : D[p] = D[p - 1] \cup (IF p \in D[p - 1] THEN E[p] ELSE {}),
         \A p \in 1 .. N : \A t \in E[p] :
           t \in 1 .. N /\ (t > p \/ \A j \in 1 .. t - 1 : \A e \in E[j] : e <= t \/ e > p)
  PROVE  \A p \in D[N] : p \in 1 .. N => E[p] \subseteq D[N]
<1>0. ASSUME NEW i \in Nat, i + 1 <= N
      PROVE  /\ i \in 0 .. N /\ i + 1 \in 1 .. N /\ i + 1 \in 0 .. N
             /\ D[i + 1] = D[i] \cup (IF i + 1 \in D[i] THEN E[i + 1] ELSE {})
  <2>1. i + 1 \in 1 .. N /\ i + 1 - 1 = i
    BY <1>0
  <2>2. D[i + 1] = D[i + 1 - 1] \cup (IF i + 1 \in D[i + 1 - 1] THEN E[i + 1] ELSE {})
    BY <2>1
  <2> QED BY <1>0, <2>1, <2>2
<1>1. ASSUME NEW i \in 0 .. N PROVE \A j \in i .. N : D[i] \subseteq D[j]
  <2> DEFINE T == {j \in Nat : j \in i .. N => D[i] \subseteq D[j]}
  <2>1. 0 \in T
    BY <1>1
  <2>2. ASSUME NEW j \in T PROVE j + 1 \in T
    <3>1. j \in Nat /\ (j \in i .. N => D[i] \subseteq D[j])
      OBVIOUS
    <3>2. SUFFICES ASSUME j + 1 \in i .. N PROVE D[i] \subseteq D[j + 1]
      BY <3>1
    <3>3. CASE j + 1 = i
      BY <3>3
    <3>4. CASE j + 1 # i
      <4>1. j \in i .. N /\ j + 1 <= N
        BY <1>1, <3>1, <3>2, <3>4
      <4>2. D[j] \subseteq D[j + 1]
        BY <1>0, <3>1, <4>1
      <4> QED BY <3>1, <4>1, <4>2
    <3> QED BY <3>3, <3>4
  <2>3. T \in SUBSET Nat
    OBVIOUS
  <2>4. T = Nat
    <3> HIDE DEF T
    <3> QED BY <2>1, <2>2, <2>3, SetInduction
  <2> QED BY <2>4
<1>2. \A i \in 0 .. N : \A e \in D[i] : e = 1 \/ \E j \in 1 .. i : e \in E[j]
  <2> DEFINE T == {i \in Nat : i <= N => \A e \in D[i] : e = 1 \/ \E j \in 1 .. i : e \in E[j]}
  <2>1. 0 \in T
    OBVIOUS
  <2>2. ASSUME NEW i \in T PROVE i + 1 \in T
    <3>1. i \in Nat /\ (i <= N => \A e \in D[i] : e = 1 \/ \E j \in 1 .. i : e \in E[j])
      OBVIOUS
    <3>2. SUFFICES ASSUME i + 1 <= N, NEW e \in D[i + 1] PROVE e = 1 \/ \E j \in 1 .. i + 1 : e \in E[j]
      BY <3>1
    <3>3. e \in D[i] \/ e \in E[i + 1]
      BY <1>0, <3>1, <3>2
    <3>4. i + 1 \in 1 .. i + 1 /\ \A j \in 1 .. i : j \in 1 .. i + 1
      BY <3>1
    <3>5. i <= N
      BY <3>1, <3>2
    <3> QED BY <3>1, <3>3, <3>4, <3>5
  <2>3. T \in SUBSET Nat
    OBVIOUS
  <2>4. T = Nat
    <3> HIDE DEF T
    <3> QED BY <2>1, <2>2, <2>3, SetInduction
  <2> QED BY <2>4
<1>3. \A i \in 0 .. N : 1 \in D[i]
  BY <1>1
<1>4. ASSUME NEW p \in 1 .. N, p \in D[p - 1], NEW t \in E[p], t < p PROVE t \in D[t - 1]
  <2>1. SUFFICES ASSUME t \notin D[t - 1] PROVE FALSE
    OBVIOUS
  <2>2. t \in 1 .. N /\ \A j \in 1 .. t - 1 : \A e \in E[j] : e \in Nat /\ (e <= t \/ e > p)
    BY <1>4
  <2> DEFINE T == {i \in Nat : t - 1 + i <= p - 1 => \A e \in D[t - 1 + i] : e \notin t .. p}
  <2>3. 0 \in T
    <3>1. t - 1 \in 0 .. N /\ t - 1 + 0 = t - 1
      BY <2>2
    <3>2. t # 1
      BY <1>3, <2>1, <3>1
    <3>3. ASSUME NEW e \in D[t - 1] PROVE e \notin t .. p
      <4>1. e # t
        BY <2>1
      <4>2. CASE e = 1
        BY <2>2, <3>2, <4>2
      <4>3. CASE \E j \in 1 .. t - 1 : e \in E[j]
        BY <1>4, <2>2, <4>1, <4>3
      <4> QED BY <1>2, <3>1, <4>2, <4>3
    <3> QED BY <3>1, <3>3
  <2>4. ASSUME NEW i \in T PROVE i + 1 \in T
    <3>1. i \in Nat /\ (t - 1 + i <= p - 1 => \A e \in D[t - 1 + i] : e \notin t .. p)
      OBVIOUS
    <3>2. SUFFICES ASSUME t - 1 + (i + 1) <= p - 1 PROVE \A e \in D[t - 1 + (i + 1)] : e \notin t .. p
      BY <3>1
    <3>3. PICK k \in Nat : k = t - 1 + i
      BY <2>2, <3>1
    <3>4. k + 1 = t - 1 + (i + 1) /\ k + 1 \in t .. p /\ k + 1 <= N /\ t - 1 + i <= p - 1
      BY <1>4, <2>2, <3>1, <3>2, <3>3
    <3>5. \A e \in D[k] : e \notin t .. p
      BY <3>1, <3>3, <3>4
    <3>6. D[k + 1] = D[k]
      <4>1. k + 1 \notin D[k]
        BY <3>4, <3>5
      <4>2. D[k + 1] = D[k] \cup (IF k + 1 \in D[k] THEN E[k + 1] ELSE {})
        BY <1>0, <3>4
      <4> HIDE DEF T
      <4> QED BY <4>1, <4>2
    <3> QED BY <3>4, <3>5, <3>6
  <2>5. T \in SUBSET Nat
    OBVIOUS
  <2>6. T = Nat
    <3> HIDE DEF T
    <3> QED BY <2>3, <2>4, <2>5, SetInduction
  <2>7. p - t \in Nat /\ t - 1 + (p - t) = p - 1 /\ p \in t .. p
    BY <1>4, <2>2
  <2>8. p - t \in T
    BY <2>6, <2>7
  <2>9. \A e \in D[p - 1] : e \notin t .. p
    <3>1. t - 1 + (p - t) <= p - 1 => \A e \in D[t - 1 + (p - t)] : e \notin t .. p
      BY <2>8
    <3> HIDE DEF T
    <3>2. p - 1 <= p - 1
      OBVIOUS
    <3> QED BY <2>7, <3>1, <3>2
  <2> QED BY <1>4, <2>7, <2>9
<1>5. \A i \in 0 .. N : \A t \in D[i] : t <= i => t \in D[t - 1]
  <2> DEFINE T == {i \in Nat : i <= N => \A t \in D[i] : t <= i => t \in D[t - 1]}
  <2>1. 0 \in T
    OBVIOUS
  <2>2. ASSUME NEW i \in T PROVE i + 1 \in T
    <3>1. i \in Nat /\ (i <= N => \A t \in D[i] : t <= i => t \in D[t - 1])
      OBVIOUS
    <3>2. SUFFICES ASSUME i + 1 <= N, NEW t \in D[i + 1], t <= i + 1 PROVE t \in D[t - 1]
      BY <3>1
    <3>3. i <= N /\ i + 1 - 1 = i
      BY <3>1, <3>2
    <3>4. i + 1 \in 1 .. N /\ (t \in D[i] \/ (i + 1 \in D[i] /\ t \in E[i + 1]))
      BY <1>0, <3>1, <3>2
    <3>5. CASE t \in D[i] /\ t = i + 1
      BY <3>3, <3>5
    <3>6. CASE t \in D[i] /\ t # i + 1
      <4>1. t \in Int
        <5>1. \A j \in 1 .. i : j \in 1 .. N
          BY <3>1, <3>3
        <5> QED BY <1>2, <3>1, <3>3, <3>6, <5>1
      <4>2. t <= i
        BY <3>1, <3>2, <3>6, <4>1
      <4> QED BY <3>1, <3>3, <3>6, <4>2
    <3>7. CASE i + 1 \in D[i] /\ t \in E[i + 1] /\ t \notin D[i]
      <4>1. t \in 1 .. N /\ t # i + 1
        BY <3>4, <3>7
      <4>2. t < i + 1
        BY <3>1, <3>2, <4>1
      <4> QED BY <1>4, <3>3, <3>4, <3>7, <4>2
    <3> QED BY <3>4, <3>5, <3>6, <3>7
  <2>3. T \in SUBSET Nat
    OBVIOUS
  <2>4. T = Nat
    <3> HIDE DEF T
    <3> QED BY <2>1, <2>2, <2>3, SetInduction
  <2> QED BY <2>4
<1>6. ASSUME NEW p \in D[N], p \in 1 .. N PROVE E[p] \subseteq D[N]
  <2>1. p \in D[p - 1]
    BY <1>5, <1>6
  <2>2. D[p] = D[p - 1] \cup E[p]
    BY <1>6, <2>1
  <2>3. D[p] \subseteq D[N]
    BY <1>1, <1>6
  <2> QED BY <2>2, <2>3
<1> QED BY <1>6

\* Places of sh, with the catches of the trys that are open there.
Reached(sh, s) ==
  /\ 1 \in DOMAIN s /\ DOMAIN s \subseteq DOMAIN sh
  /\ \A t \in DOMAIN s :
       /\ s[t] = sh[t]
       /\ \A m \in DOMAIN sh[t].open : sh[t].open[m].catch \in DOMAIN s

\* What the pass finds at ip is where the instruction leads, if it can be reached.
Visits(f, ip, s, r) ==
  /\ ip \in DOMAIN s => DOMAIN r = DOMAIN s \cup Edges(f.code[ip], ip)
  /\ ip \notin DOMAIN s => DOMAIN r = DOMAIN s

\* From places that fit the pass goes on to places that fit.
LEMMA OnwardReached ==
  ASSUME NEW f, NEW main, NEW sh, Fits(f, main, sh), NEW s, Reached(sh, s), NEW ip, NEW r, r = Onward(f, ip, s)
  PROVE  /\ Reached(sh, r)
         /\ Visits(f, ip, s, r)
<1>1. CASE ip \notin DOMAIN s
  <2>1. r = s
    BY <1>1 DEF Onward
  <2> QED BY <1>1, <2>1 DEF Visits
<1>2. CASE ip \in DOMAIN s
  <2>1. PICK i : i = f.code[ip]
    OBVIOUS
  <2>2. PICK at : at = sh[ip]
    OBVIOUS
  <2>3. PICK next : next = NextPlace(i, at)
    OBVIOUS
  <2>4. ip \in DOMAIN sh /\ s[ip] = at /\ \A m \in DOMAIN at.open : at.open[m].catch \in DOMAIN s
    BY <1>2, <2>2 DEF Reached
  <2>5. /\ at \in Places /\ Suffices(i, at, main)
        /\ \A t \in Targets(i, ip) : t \in DOMAIN sh /\ sh[t] = next
    BY <2>1, <2>2, <2>3, <2>4 DEF Fits
  <2>6. /\ DOMAIN r = DOMAIN s \cup Edges(i, ip)
        /\ \A t \in DOMAIN r : r[t] = IF t \in DOMAIN s THEN s[t]
                                      ELSE IF t \in Targets(i, ip) THEN next
                                      ELSE Caught(next, Len(next.open))
    BY <1>2, <2>1, <2>3, <2>4 DEF Onward
  <2>7. at.open \in Seq(Trys) /\ at.height \in Nat
    BY <2>5 DEF Places
  <2>8. \A m \in DOMAIN next.open : next.open[m].catch \in DOMAIN r
    <3>1. CASE i[1] = "TRY"
      <4>1. PICK c : c = [catch |-> i[2], height |-> at.height]
        OBVIOUS
      <4>2. next.open = Append(at.open, c) /\ c.catch = i[2]
        BY <2>3, <3>1, <4>1 DEF NextPlace
      <4>3. i[2] \in DOMAIN r
        BY <2>6, <3>1 DEF Edges
      <4>4. c \in Trys
        BY <2>5, <2>7, <3>1, <4>1 DEF Suffices, Trys
      <4>5. \A m \in DOMAIN next.open : (m \in DOMAIN at.open /\ next.open[m] = at.open[m]) \/ next.open[m] = c
        BY <2>7, <4>2, <4>4
      <4> QED BY <2>4, <2>6, <4>2, <4>3, <4>5
    <3>2. CASE i[1] = "TRY_END"
      <4>1. next.open = SubSeq(at.open, 1, Len(at.open) - 1) /\ at.open # <<>>
        BY <2>3, <2>5, <3>2 DEF NextPlace, Suffices
      <4>2. \A m \in DOMAIN next.open : m \in DOMAIN at.open /\ next.open[m] = at.open[m]
        BY <2>7, <4>1
      <4> QED BY <2>4, <2>6, <4>2
    <3>3. CASE i[1] # "TRY" /\ i[1] # "TRY_END"
      <4>1. next.open = at.open
        BY <2>3, <3>3 DEF NextPlace
      <4> QED BY <2>4, <2>6, <4>1
    <3> QED BY <3>1, <3>2, <3>3
  <2>9. ASSUME NEW t \in DOMAIN r, t \notin DOMAIN s, t \notin Targets(i, ip)
        PROVE  /\ t \in DOMAIN sh /\ sh[t] = Caught(next, Len(next.open))
               /\ \A m \in DOMAIN sh[t].open : m \in DOMAIN next.open /\ sh[t].open[m] = next.open[m]
    <3>1. i[1] = "TRY" /\ t = i[2]
      BY <2>6, <2>9 DEF Edges
    <3>2. PICK c : c = [catch |-> t, height |-> at.height]
      OBVIOUS
    <3>3. next.open = Append(at.open, c) /\ c.catch = t
      BY <2>3, <3>1, <3>2 DEF NextPlace
    <3>4. c \in Trys
      BY <2>5, <2>7, <3>1, <3>2 DEF Suffices, Trys
    <3>5. PICK k \in Nat : k = Len(next.open)
      BY <2>7, <3>3, <3>4
    <3>6. k \in DOMAIN next.open /\ next.open[k] = c /\ next.open \in Seq(Trys)
      BY <2>7, <3>3, <3>4, <3>5
    <3>7. ip + 1 \in Targets(i, ip)
      BY <3>1 DEF Targets
    <3>8. ip + 1 \in DOMAIN sh /\ sh[ip + 1] = next
      BY <2>5, <3>7
    <3>9. TrysNested(sh, next)
      BY <3>8 DEF Fits
    <3>10. t \in DOMAIN sh /\ sh[t] = Caught(next, k)
      BY <3>3, <3>6, <3>9 DEF TrysNested
    <3>11. sh[t].open = SubSeq(next.open, 1, k - 1)
      BY <3>10 DEF Caught
    <3>12. \A m \in DOMAIN sh[t].open : m \in DOMAIN next.open /\ sh[t].open[m] = next.open[m]
      BY <3>5, <3>6, <3>11
    <3> QED BY <3>5, <3>10, <3>12
  <2>10. ASSUME NEW t \in DOMAIN r
         PROVE  /\ t \in DOMAIN sh /\ r[t] = sh[t]
                /\ \A m \in DOMAIN sh[t].open : sh[t].open[m].catch \in DOMAIN r
    <3>1. CASE t \in DOMAIN s
      BY <2>6, <3>1 DEF Reached
    <3>2. CASE t \notin DOMAIN s /\ t \in Targets(i, ip)
      BY <2>5, <2>6, <2>8, <3>2
    <3>3. CASE t \notin DOMAIN s /\ t \notin Targets(i, ip)
      BY <2>6, <2>8, <2>9, <3>3
    <3> QED BY <3>1, <3>2, <3>3
  <2>11. 1 \in DOMAIN r
    BY <2>6 DEF Reached
  <2>12. Reached(sh, r)
    BY <2>10, <2>11 DEF Reached
  <2> QED BY <1>2, <2>1, <2>6, <2>12 DEF Visits
<1> QED BY <1>1, <1>2

\* If there are places that fit, and what is jumped back to is the only way into what
\* the jump goes over, those that the pass finds fit.
LEMMA ShapeFits ==
  ASSUME NEW f, Len(f.code) \in Nat, NEW n \in 1 .. Len(f.code), LoopedIn(f, 1, n + 1, 1, n),
         NEW main, NEW sh, DOMAIN sh = 1 .. n, Fits(f, main, sh)
  PROVE  VerifiedFunction(f, main)
<1>1. PICK N \in Nat : N = Len(f.code)
  OBVIOUS
<1>2. PICK S : Passed(f, S, N) /\ ShapeOf(f) = S[N]
  BY <1>1, ShapePassed
<1>3. PICK D : D = [ip \in 0 .. N |-> DOMAIN S[ip]]
  OBVIOUS
<1>4. PICK E : E = [ip \in 1 .. N |-> IF ip <= n THEN Edges(f.code[ip], ip) ELSE {}]
  OBVIOUS
<1>5. S[0] = Beginning(f) /\ \A ip \in 1 .. N : S[ip] = Onward(f, ip, S[ip - 1])
  <2>1. S = [ip \in 0 .. N |-> IF ip = 0 THEN Beginning(f) ELSE Onward(f, ip, S[ip - 1])]
    BY <1>2 DEF Passed
  <2>2. 0 \in 0 .. N /\ \A ip \in 1 .. N : ip \in 0 .. N /\ ip # 0
    OBVIOUS
  <2> QED BY <2>1, <2>2
<1>6. Reached(sh, S[0]) /\ DOMAIN S[0] = {1}
  <2>1. 1 \in DOMAIN sh /\ sh[1] = [height |-> f.arity + 1, open |-> <<>>]
    BY DEF Fits
  <2>2. DOMAIN S[0] = {1} /\ S[0][1] = sh[1]
    BY <1>5, <2>1 DEF Beginning
  <2>3. DOMAIN sh[1].open = {}
    BY <2>1
  <2> QED BY <2>1, <2>2, <2>3 DEF Reached
<1>7. \A ip \in 0 .. N : Reached(sh, S[ip])
  <2> DEFINE T == {ip \in Nat : ip <= N => Reached(sh, S[ip])}
  <2>1. 0 \in T
    BY <1>6
  <2>2. ASSUME NEW ip \in T PROVE ip + 1 \in T
    <3>1. ip \in Nat /\ (ip <= N => Reached(sh, S[ip]))
      OBVIOUS
    <3>2. SUFFICES ASSUME ip + 1 <= N PROVE Reached(sh, S[ip + 1])
      BY <3>1
    <3>3. ip <= N /\ ip + 1 \in 1 .. N /\ ip + 1 - 1 = ip
      BY <3>1, <3>2
    <3>4. S[ip + 1] = Onward(f, ip + 1, S[ip])
      BY <1>5, <3>3
    <3> QED BY <3>1, <3>3, <3>4, OnwardReached
  <2>3. T \in SUBSET Nat
    OBVIOUS
  <2>4. T = Nat
    <3> HIDE DEF T
    <3> QED BY <2>1, <2>2, <2>3, SetInduction
  <2> QED BY <2>4
<1>8. D[0] = {1} /\ \A p \in 1 .. N : D[p] = D[p - 1] \cup (IF p \in D[p - 1] THEN E[p] ELSE {})
  <2>1. D[0] = {1}
    BY <1>3, <1>6
  <2>2. ASSUME NEW p \in 1 .. N PROVE D[p] = D[p - 1] \cup (IF p \in D[p - 1] THEN E[p] ELSE {})
    <3>1. p \in 0 .. N /\ p - 1 \in 0 .. N
      OBVIOUS
    <3>2. D[p] = DOMAIN S[p] /\ D[p - 1] = DOMAIN S[p - 1]
      BY <1>3, <3>1
    <3>3. Reached(sh, S[p - 1])
      BY <1>7, <3>1
    <3>4. D[p] = D[p - 1] \cup (IF p \in D[p - 1] THEN Edges(f.code[p], p) ELSE {})
      <4>1. PICK q : q = S[p - 1]
        OBVIOUS
      <4>2. PICK r : r = S[p]
        OBVIOUS
      <4>3. r = Onward(f, p, q) /\ Reached(sh, q)
        BY <1>5, <3>3, <4>1, <4>2
      <4>4. Visits(f, p, q, r)
        BY <4>3, OnwardReached
      <4> QED BY <3>2, <4>1, <4>2, <4>4 DEF Visits
    <3>5. p \in D[p - 1] => p <= n
      BY <3>2, <3>3 DEF Reached
    <3>6. p <= n => E[p] = Edges(f.code[p], p)
      BY <1>4
    <3> QED BY <3>4, <3>5, <3>6
  <2> QED BY <2>1, <2>2
<1>9. ASSUME NEW p \in 1 .. N, NEW t \in E[p]
      PROVE  t \in 1 .. N /\ (t > p \/ \A j \in 1 .. t - 1 : \A e \in E[j] : e <= t \/ e > p)
  <2>1. p <= n /\ t \in Edges(f.code[p], p)
    BY <1>4, <1>9
  <2>2. p \in 1 .. n + 1 - 1
    BY <1>1, <1>9, <2>1
  <2>3. t \in 1 .. n /\ (t > p \/ Entered(f, 1, t, p))
    BY <2>1, <2>2 DEF LoopedIn
  <2>4. t \in 1 .. N
    BY <1>1, <2>3
  <2>5. ASSUME Entered(f, 1, t, p), NEW j \in 1 .. t - 1, NEW e \in E[j] PROVE e <= t \/ e > p
    <3>1. j \in 1 .. N
      BY <2>4
    <3>2. e \in Edges(f.code[j], j)
      BY <1>4, <2>5, <3>1
    <3> QED BY <2>5, <3>2 DEF Entered
  <2> QED BY <2>3, <2>4, <2>5
<1>10. \A p \in D[N] : p \in 1 .. N => E[p] \subseteq D[N]
  BY <1>8, <1>9, FoundInTime
<1>11. PICK s : s = ShapeOf(f)
  OBVIOUS
<1>12. Reached(sh, s) /\ DOMAIN s = D[N]
  BY <1>2, <1>3, <1>7, <1>11
<1>13. ASSUME NEW ip \in DOMAIN s
       PROVE  /\ ip \in DOMAIN sh /\ s[ip] = sh[ip]
              /\ \A t \in Targets(f.code[ip], ip) : t \in DOMAIN s
  <2>1. ip \in DOMAIN sh /\ s[ip] = sh[ip]
    BY <1>12 DEF Reached
  <2>2. ip \in 1 .. N /\ ip <= n
    BY <1>1, <2>1
  <2>3. E[ip] = Edges(f.code[ip], ip)
    BY <1>4, <2>2
  <2>4. Edges(f.code[ip], ip) \subseteq DOMAIN s
    BY <1>10, <1>12, <2>2, <2>3
  <2> QED BY <2>1, <2>4 DEF Edges
<1>14. ASSUME NEW ip \in DOMAIN s PROVE TrysNested(s, s[ip])
  <2>1. PICK at : at = sh[ip]
    OBVIOUS
  <2>2. ip \in DOMAIN sh /\ s[ip] = at /\ \A m \in DOMAIN at.open : at.open[m].catch \in DOMAIN s
    BY <1>12, <2>1 DEF Reached
  <2>3. TrysNested(sh, at)
    BY <2>1, <2>2 DEF Fits
  <2>4. \A m \in DOMAIN at.open : s[at.open[m].catch] = Caught(at, m)
    <3>1. \A t \in DOMAIN s : s[t] = sh[t]
      BY <1>12 DEF Reached
    <3> QED BY <2>2, <2>3, <3>1 DEF TrysNested
  <2> QED BY <2>2, <2>3, <2>4 DEF TrysNested
<1>15. Fits(f, main, s)
  <2>1. f.arity \in Nat /\ (main => f.arity = 0)
    BY DEF Fits
  <2>2. 1 \in DOMAIN s /\ s[1] = [height |-> f.arity + 1, open |-> <<>>]
    BY <1>12 DEF Reached, Fits
  <2>3. ASSUME NEW ip \in DOMAIN s
        PROVE  /\ ip \in DOMAIN f.code /\ ip \in Nat /\ f.code[ip][1] \in Opcodes
               /\ s[ip] \in Places
               /\ Suffices(f.code[ip], s[ip], main)
               /\ f.code[ip][1] = "CONST" => f.pool[f.code[ip][2] + 1] \in Values(0)
    BY <1>13 DEF Fits
  <2>4. ASSUME NEW ip \in DOMAIN s, NEW t \in Targets(f.code[ip], ip)
        PROVE  t \in DOMAIN s /\ s[t] = NextPlace(f.code[ip], s[ip])
    <3>1. t \in DOMAIN s /\ s[t] = sh[t] /\ ip \in DOMAIN sh /\ s[ip] = sh[ip]
      BY <1>13, <2>4
    <3>2. sh[t] = NextPlace(f.code[ip], sh[ip])
      BY <2>4, <3>1 DEF Fits
    <3> QED BY <3>1, <3>2
  <2> QED BY <1>14, <2>1, <2>2, <2>3, <2>4 DEF Fits
<1> QED BY <1>11, <1>15 DEF VerifiedFunction

-----------------------------------------------------------------------------
(***************************************************************************)
(* Whole scripts.                                                          *)
(***************************************************************************)
\* Instructions have the VM's opcodes.
LEMMA InstructionOp ==
  ASSUME NEW i \in Instructions
  PROVE  i[1] \in Opcodes
<1>1. CASE i \in {<<op>> : op \in Opcodes}
  BY <1>1
<1>2. CASE i \in Opcodes \X Nat
  BY <1>2
<1> QED BY <1>1, <1>2 DEF Instructions

\* What the compiler puts into a pool for a CONST is a value a script may have.
LEMMA ConstantValue ==
  ASSUME NEW u, NEW n, u.script \in DOMAIN Code, Code[u.script].ok, n = Len(Code[u.script].fns) - 1,
         \A j \in 1 .. Len(u.fns) : j \in 1 .. n,
         NEW v, ConstantOf(u, v)
  PROVE  v \in Values(0)
<1>1. CASE v \in Literals
  BY <1>1 DEF Literals, Values
<1>2. CASE \E j \in 1 .. Len(u.fns) : v = Fn(u.script, j)
  <2>1. PICK j \in 1 .. Len(u.fns) : v = Fn(u.script, j)
    BY <1>2
  <2>2. PICK t \in DOMAIN Code : t = u.script
    OBVIOUS
  <2>3. v \in {Fn(t, k) : k \in 1 .. Len(Code[t].fns) - 1}
    BY <2>1, <2>2
  <2>4. t \in {w \in DOMAIN Code : Code[w].ok}
    BY <2>2
  <2>5. v \in Callable
    BY <2>3, <2>4 DEF Callable, Declared
  <2> QED BY <2>5 DEF Values
<1> QED BY <1>1, <1>2 DEF ConstantOf

\* Code laid out from its first instruction to one that ends it gives the VM all
\* that it takes for granted, and is verified.
LEMMA LaidFits ==
  ASSUME NEW u \in Contexts, NEW f, f.arity \in Nat, ~u.nested => f.arity = 0,
         f.code \in Seq(Instructions), Begins(u.code, f.code), f.pool = u.pool,
         \A v : ConstantOf(u, v) => v \in Values(0),
         NEW n, n = Len(u.code), n >= 1, NEW x, x = [height |-> f.arity + 1, open |-> <<>>],
         NEW end, Segment(u, 1, n, x, end), Runs(u, n, end), Targets(u.code[n], n) = {}
  PROVE  VerifiedFunction(f, ~u.nested)
<1>1. x.open = <<>>
  OBVIOUS
<1>2. PICK sh : Laid(u, 1, n, sh, <<>>) /\ sh[1] = x /\ sh[n] = end
  BY <1>1 DEF Segment
<1>3. n \in Nat /\ u.code \in Seq(Instructions) /\ Len(f.code) \in Nat /\ n <= Len(f.code)
  BY ContextType DEF Begins
<1>4. sh \in [1 .. n -> Places] /\ DOMAIN sh = 1 .. n /\ 1 \in 1 .. n
  BY <1>2, <1>3 DEF Laid
<1>5. ASSUME NEW ip \in 1 .. n
      PROVE  /\ ip \in DOMAIN f.code /\ ip \in Nat /\ f.code[ip] = u.code[ip]
             /\ Runs(u, ip, sh[ip])
             /\ \A t \in Targets(u.code[ip], ip) : t \in 1 .. n /\ sh[t] = NextPlace(u.code[ip], sh[ip])
  <2>1. ip \in DOMAIN f.code /\ ip \in Nat /\ f.code[ip] = u.code[ip]
    <3>1. DOMAIN f.code = 1 .. Len(f.code)
      OBVIOUS
    <3>2. ip \in 1 .. Len(f.code) /\ ip \in Nat
      BY <1>3
    <3> QED BY <3>1, <3>2 DEF Begins
  <2>2. CASE ip = n
    BY <1>2, <2>1, <2>2
  <2>3. CASE ip # n
    <3>1. ip \in 1 .. n - 1
      BY <1>3, <2>3
    <3>2. Leads(u, ip, 1, n, sh)
      BY <1>2, <3>1 DEF Laid
    <3> QED BY <2>1, <3>2 DEF Leads
  <2> QED BY <2>2, <2>3
<1>6. ASSUME NEW ip \in 1 .. n PROVE TrysNested(sh, sh[ip])
  <2>1. PICK at : at = sh[ip]
    OBVIOUS
  <2>2. Caughts(at, 1, n, sh, <<>>)
    BY <1>2, <2>1 DEF Laid
  <2>3. Place(at) /\ \A m \in 0 + 1 .. Len(at.open) : at.open[m].catch \in 1 .. n /\ sh[at.open[m].catch] = Caught(at, m)
    BY <2>2 DEF Caughts
  <2>4. at.open \in Seq(Trys) /\ Floor(at) <= at.height /\ Orderly(at.open)
    BY <2>3 DEF Place, Places
  <2>5. DOMAIN at.open = 1 .. Len(at.open)
    BY <2>4
  <2>6. \A m \in DOMAIN at.open : /\ at.open[m].height >= 1
                                  /\ \A l \in 1 .. m : at.open[l].height <= at.open[m].height
    BY <2>4, <2>5 DEF Orderly
  <2>7. \A m \in DOMAIN at.open : at.open[m].catch \in DOMAIN sh /\ sh[at.open[m].catch] = Caught(at, m)
    BY <1>4, <2>3, <2>5
  <2> QED BY <2>1, <2>4, <2>6, <2>7 DEF TrysNested
<1>7. ASSUME NEW ip \in 1 .. n
      PROVE  /\ f.code[ip][1] \in Opcodes /\ Suffices(f.code[ip], sh[ip], ~u.nested)
             /\ f.code[ip][1] = "CONST" => f.pool[f.code[ip][2] + 1] \in Values(0)
  <2>1. PICK i : i = u.code[ip]
    OBVIOUS
  <2>2. f.code[ip] = i /\ Runs(u, ip, sh[ip])
    BY <1>5, <2>1
  <2>3. /\ i \in Instructions /\ Suffices(i, sh[ip], ~u.nested)
        /\ i[1] = "CONST" => ConstantOf(u, u.pool[i[2] + 1])
    BY <2>1, <2>2 DEF Runs
  <2> QED BY <2>2, <2>3, InstructionOp
<1>8. Fits(f, ~u.nested, sh)
  <2>1. \A ip \in DOMAIN sh :
          /\ ip \in DOMAIN f.code /\ ip \in Nat /\ f.code[ip][1] \in Opcodes
          /\ sh[ip] \in Places
          /\ TrysNested(sh, sh[ip])
          /\ Suffices(f.code[ip], sh[ip], ~u.nested)
          /\ f.code[ip][1] = "CONST" => f.pool[f.code[ip][2] + 1] \in Values(0)
          /\ \A t \in Targets(f.code[ip], ip) : t \in DOMAIN sh /\ sh[t] = NextPlace(f.code[ip], sh[ip])
    BY <1>4, <1>5, <1>6, <1>7
  <2> QED BY <1>2, <1>4, <2>1 DEF Fits
<1>9. \A j \in 1 .. n : Edges(f.code[j], j) = Edges(u.code[j], j)
  BY <1>5
<1>10. LoopedIn(f, 1, n + 1, 1, n)
  <2> SUFFICES ASSUME NEW ip \in 1 .. n + 1 - 1, NEW t \in Edges(f.code[ip], ip)
               PROVE  t \in 1 .. n /\ (t > ip \/ Entered(f, 1, t, ip))
    BY DEF LoopedIn
  <2>1. ip \in 1 .. n /\ t \in Edges(u.code[ip], ip)
    BY <1>3, <1>9
  <2>2. CASE ip = n
    BY <2>1, <2>2 DEF Edges, Targets
  <2>3. CASE ip # n
    <3>1. ip \in 1 .. n - 1 /\ Looped(u, 1, n)
      BY <1>3, <2>1, <2>3 DEF Segment
    <3>2. t \in 1 .. n /\ (t > ip \/ Entered(u, 1, t, ip))
      BY <2>1, <3>1 DEF Looped, LoopedIn
    <3>3. \A j \in 1 .. t - 1 : j \in 1 .. n
      BY <1>3, <3>2
    <3>4. Entered(u, 1, t, ip) => Entered(f, 1, t, ip)
      BY <1>9, <3>3 DEF Entered
    <3> QED BY <3>2, <3>4
  <2> QED BY <2>2, <2>3
<1>11. Len(f.code) \in Nat /\ n \in 1 .. Len(f.code)
  BY <1>3
<1> QED BY <1>4, <1>8, <1>10, <1>11, ShapeFits

\* A function that fits gives the VM all that it takes for granted.
LEMMA FitFits ==
  ASSUME NEW t \in DOMAIN Code, Code[t].ok, NEW n \in Nat, n = Len(Code[t].fns) - 1,
         NEW f \in Functions, Fit(f, t, n)
  PROVE  VerifiedFunction(f, FALSE)
<1>1. PICK u \in Contexts : \E end :
        /\ u.code = f.code /\ u.pool = f.pool /\ u.nested /\ u.script = t /\ Len(u.fns) <= n
        /\ Len(u.code) >= 1
        /\ Segment(u, 1, Len(u.code), [height |-> f.arity + 1, open |-> <<>>], end)
        /\ Runs(u, Len(u.code), end) /\ Targets(u.code[Len(u.code)], Len(u.code)) = {}
  BY DEF Fit
<1>2. PICK end :
        /\ Segment(u, 1, Len(u.code), [height |-> f.arity + 1, open |-> <<>>], end)
        /\ Runs(u, Len(u.code), end)
  BY <1>1
<1>3. f.arity \in Nat /\ f.code \in Seq(Instructions) /\ Begins(u.code, f.code)
  <2>1. f.arity \in Nat /\ f.code \in Seq(Instructions)
    BY DEF Functions
  <2> QED BY <1>1, <2>1, ContextType
<1>4. \A j \in 1 .. Len(u.fns) : j \in 1 .. n
  <2>1. Len(u.fns) \in Nat
    BY ContextType
  <2> QED BY <1>1, <2>1
<1>5. \A v : ConstantOf(u, v) => v \in Values(0)
  BY <1>1, <1>4, ConstantValue
<1>6. VerifiedFunction(f, ~u.nested)
  BY <1>1, <1>2, <1>3, <1>5, LaidFits
<1> QED BY <1>1, <1>6

\* Where a script begins: nothing but the slot of its own function.
LEMMA ScriptOpened ==
  ASSUME NEW o \in Contexts, o.code = <<>>, o.locals = <<>>, o.depth = 0, ~o.err, ~o.nested, o.fns = <<>>,
         NEW l, l = AddLocal(o, NoName), NEW x, x = [height |-> 1, open |-> <<>>]
  PROVE  /\ l \in Contexts /\ Here(l) = 1 /\ ~l.nested /\ l.script = o.script /\ l.depth = 0 /\ AllFit(l)
         /\ Stood(l, "free") /\ StandsAt(l, "free", x) /\ InStep(l, x) = x /\ Place(x)
<1>1. PICK name \in Labels : name = NoName
  BY DEF Labels
<1>2. Len(o.locals) < LocalsMax
  BY LimitsAssumption
<1>3. /\ Grown(o, l) /\ l \in Contexts /\ l.code = <<>> /\ l.depth = 0
      /\ ~l.err /\ l.locals = Append(o.locals, [name |-> NoName, depth |-> 0])
  <2>1. /\ Grown(o, AddLocal(o, name)) /\ AddLocal(o, name) \in Contexts
        /\ AddLocal(o, name).code = o.code /\ AddLocal(o, name).depth = o.depth
        /\ ~AddLocal(o, name).err => AddLocal(o, name).locals = Append(o.locals, [name |-> name, depth |-> o.depth])
        /\ ~o.err /\ Len(o.locals) < LocalsMax => ~AddLocal(o, name).err
    BY AddLocalGrown
  <2> QED BY <1>1, <1>2, <2>1
<1>4. l.locals = <<[name |-> NoName, depth |-> 0]>>
  BY <1>3
<1>5. Len(l.locals) = 1 /\ l.locals[1] = [name |-> NoName, depth |-> 0]
  BY <1>4
<1>6. l.locals # <<>> /\ l.locals[1].name = NoName /\ l.locals[1].depth = 0
  BY <1>5
<1>7. Here(l) = 1 /\ ~l.nested /\ l.script = o.script
  <2>1. Here(l) = 1
    BY <1>3 DEF Here
  <2> QED BY <1>3, <2>1 DEF Grown
<1>8. AllFit(l)
  <2>1. AllFit(o)
    BY DEF AllFit
  <2> QED BY <1>3, <2>1 DEF Grown
<1>9. Stood(l, "free") /\ Height(l) = 1
  <2>1. \A i \in 1 .. Len(l.locals) : i = 1
    BY <1>5
  <2>2. \A i \in 1 .. Len(l.locals) : l.locals[i].depth <= l.depth
    BY <1>3, <1>6, <2>1
  <2> QED BY <1>5, <1>6, <2>2 DEF Stood, Height
<1>10. Place(x) /\ x.open = <<>> /\ x.height = 1
  <2>1. 0 \in Nat /\ 0 + 1 = 1
    OBVIOUS
  <2> QED BY <2>1, StartPlace
<1>11. StandsAt(l, "free", x)
  BY <1>9, <1>10 DEF StandsAt
<1>12. InStep(l, x) = x
  BY <1>9, <1>10 DEF InStep
<1> QED BY <1>3, <1>7, <1>8, <1>9, <1>10, <1>11, <1>12

\* Where a script ends.
LEMMA HaltRuns ==
  ASSUME NEW b \in Contexts, ~b.nested, NEW x, x = [height |-> 1, open |-> <<>>], Place(x),
         NEW n, n = Here(b), Segment(b, 1, n, x, x), NEW h, h = Emit(b, <<"HALT">>)
  PROVE  /\ Grown(b, h) /\ h \in Contexts /\ h.err = b.err /\ h.pool = b.pool /\ h.fns = b.fns
         /\ n = Len(h.code) /\ n >= 1 /\ ~h.nested
         /\ Segment(h, 1, n, x, x) /\ Runs(h, n, x) /\ Targets(h.code[n], n) = {}
<1>1. <<"HALT">> \in Instructions /\ <<"HALT">>[1] = "HALT" /\ Takes(<<"HALT">>) = 0
  BY DEF Instructions, Opcodes, Takes, Pushing, Combining, Arithmetic, Division, Comparison, Collecting, Moving
<1>2. /\ Grown(b, h) /\ h \in Contexts /\ h.err = b.err /\ h.pool = b.pool /\ h.fns = b.fns
      /\ Len(h.code) = Len(b.code) + 1 /\ h.code[n] = <<"HALT">>
  BY <1>1, EmitGrown
<1>3. n \in Nat /\ n = Len(b.code) + 1 /\ n >= 1
  BY ContextType
<1>4. ~h.nested
  BY <1>2 DEF Grown
<1>5. Segment(h, 1, n, x, x)
  <2>1. 1 \in Nat /\ 1 <= 1 /\ n <= Here(b)
    BY <1>3
  <2> QED BY <1>2, <1>3, <2>1, SegmentGrown
<1>6. Suffices(<<"HALT">>, x, ~h.nested)
  <2>1. x.height = 1 /\ x.open = <<>> /\ Floor(x) = 1
    BY DEF Floor
  <2>2. Takes(<<"HALT">>) <= x.height - Floor(x)
    BY <1>1, <2>1
  <2> QED BY <1>4, <2>1, <2>2 DEF Suffices, Collecting
<1>7. Runs(h, n, x) /\ Targets(h.code[n], n) = {}
  BY <1>1, <1>2, <1>6 DEF Runs, Targets
<1> QED BY <1>2, <1>3, <1>4, <1>5, <1>7

\* What closes a function emits two instructions more, and changes no more than that.
LEMMA EndFunctionGrown ==
  ASSUME NEW h \in Contexts, NEW e, e = EndFunction(h)
  PROVE  /\ Grown(h, e) /\ e \in Contexts /\ e.err = h.err /\ e.pool = h.pool /\ e.fns = h.fns
<1>1. PICK n : n = Emit(h, <<"NIL">>)
  OBVIOUS
<1>2. <<"NIL">> \in Instructions /\ <<"RETURN">> \in Instructions
  BY DEF Instructions, Opcodes, Pushing
<1>3. Grown(h, n) /\ n \in Contexts /\ n.err = h.err /\ n.pool = h.pool /\ n.fns = h.fns
  BY <1>1, <1>2, EmitGrown
<1>4. e = Emit(n, <<"RETURN">>)
  BY <1>1 DEF EndFunction
<1>5. Grown(n, e) /\ e \in Contexts /\ e.err = n.err /\ e.pool = n.pool /\ e.fns = n.fns
  BY <1>2, <1>3, <1>4, EmitGrown
<1>6. Grown(h, e)
  BY <1>3, <1>5, GrownOn
<1> QED BY <1>3, <1>5, <1>6

\* A script's trees compile to verified code, or do not compile.
LEMMA ScriptVerified ==
  ASSUME ByTheRules, NEW t \in DOMAIN Code, NEW n \in Nat, NEW p \in ScriptTrees(n), Code[t] = Compile(t, p),
         Code[t].ok, \A k \in 1 .. Len(Code[t].fns) : Len(Code[t].fns[k].pool) <= ByteRange
  PROVE  VerifiedScript(Code[t])
<1>1. PICK o : o = [code |-> <<>>, pool |-> <<>>, locals |-> <<>>, depth |-> 0,
                    nested |-> FALSE, script |-> t, fns |-> <<>>, err |-> FALSE]
  OBVIOUS
<1>2. /\ o \in Contexts /\ o.code = <<>> /\ o.locals = <<>> /\ o.depth = 0 /\ ~o.err /\ ~o.nested /\ o.fns = <<>>
      /\ o.script = t
  BY <1>1 DEF Contexts
<1>3. PICK l : l = AddLocal(o, NoName)
  OBVIOUS
<1>4. PICK x : x = [height |-> 1, open |-> <<>>]
  OBVIOUS
<1>5. /\ l \in Contexts /\ Here(l) = 1 /\ ~l.nested /\ l.script = t /\ l.depth = 0 /\ AllFit(l)
      /\ Stood(l, "free") /\ StandsAt(l, "free", x) /\ InStep(l, x) = x /\ Place(x)
  BY <1>2, <1>3, <1>4, ScriptOpened
<1>6. PICK b : b = Nodes(l, p)
  OBVIOUS
<1>7. PICK h : h = Emit(b, <<"HALT">>)
  OBVIOUS
<1>8. PICK e : e = EndFunction(h)
  OBVIOUS
<1>9. PICK f : f = [name |-> "script", arity |-> 0, code |-> e.code, pool |-> e.pool]
  OBVIOUS
<1>10. ~e.err /\ Code[t].fns = Append(e.fns, f)
  <2>1. PICK g : g = ~e.err
    OBVIOUS
  <2>2. Code[t] = [ok |-> g, fns |-> Append(e.fns, f)]
    <3>1. Code[t] = Compiled(e)
      BY <1>1, <1>3, <1>6, <1>7, <1>8 DEF Compile
    <3> QED BY <1>9, <2>1, <3>1 DEF Compiled
  <2>3. Code[t].ok = g /\ Code[t].fns = Append(e.fns, f)
    BY <2>2
  <2>4. g
    BY <2>3
  <2>5. ~e.err
    BY <2>1, <2>4
  <2> QED BY <2>3, <2>5
<1>11. Done(l, b, "free")
  <2>1. "free" \in Kinds /\ p \in Seq(Trees[n].stmt["free"])
    BY DEF Kinds, ScriptTrees
  <2> QED BY <1>5, <1>6, <2>1, StatementsKeepStep
<1>12. b \in Contexts /\ Grown(l, b) /\ ~b.nested /\ b.script = t
  BY <1>5, <1>11 DEF Done, Grown
<1>13. h \in Contexts /\ Grown(b, h) /\ h.err = b.err /\ h.pool = b.pool /\ h.fns = b.fns
  <2>1. <<"HALT">> \in Instructions
    BY DEF Instructions, Opcodes, Moving
  <2> QED BY <1>7, <1>12, <2>1, EmitGrown
<1>14. Grown(h, e) /\ e \in Contexts /\ e.err = h.err /\ e.pool = h.pool /\ e.fns = h.fns
  BY <1>8, <1>13, EndFunctionGrown
<1>15. ~b.err /\ ~e.err
  BY <1>10, <1>13, <1>14
<1>16. PICK m \in Nat : m = Len(b.fns)
  BY <1>12, ContextType
<1>17. /\ b.fns \in Seq(Functions) /\ Code[t].fns = Append(b.fns, f)
       /\ Len(Code[t].fns) = m + 1 /\ Code[t].fns[m + 1] = f
       /\ \A k \in 1 .. m : Code[t].fns[k] = b.fns[k]
  <2>1. b.fns \in Seq(Functions)
    BY <1>12, ContextType
  <2>2. Code[t].fns = Append(b.fns, f)
    BY <1>10, <1>13, <1>14
  <2>3. /\ Len(Append(b.fns, f)) = m + 1 /\ Append(b.fns, f)[m + 1] = f
        /\ \A k \in 1 .. m : Append(b.fns, f)[k] = b.fns[k]
    BY <1>16, <2>1
  <2> QED BY <2>1, <2>2, <2>3
<1>18. ASSUME NEW k \in 1 .. m PROVE VerifiedFunction(Code[t].fns[k], FALSE)
  <2>1. AllFit(b)
    BY <1>5, <1>12, <1>15 DEF Grown
  <2>2. Len(b.fns[k].pool) <= ByteRange
    BY <1>16, <1>17
  <2>3. Fit(b.fns[k], t, m) /\ b.fns[k] \in Functions
    BY <1>12, <1>16, <1>17, <2>1, <2>2 DEF AllFit
  <2>4. m = Len(Code[t].fns) - 1
    BY <1>16, <1>17
  <2>5. VerifiedFunction(b.fns[k], FALSE)
    BY <2>3, <2>4, FitFits
  <2> QED BY <1>17, <2>5
<1>19. VerifiedFunction(f, TRUE)
  <2>1. PICK a : a = Here(b)
    OBVIOUS
  <2>2. Len(b.pool) <= ByteRange
    <3>1. m + 1 \in 1 .. Len(Code[t].fns)
      BY <1>16, <1>17
    <3>2. f.pool = b.pool
      BY <1>9, <1>13, <1>14
    <3> QED BY <1>17, <3>1, <3>2
  <2>3. Segment(b, 1, a, x, x)
    <3>1. b.locals = l.locals /\ Emits(l, b, x, InStep(b, x))
      BY <1>5, <1>11, <1>15 DEF Done
    <3>2. InStep(b, x) = x
      BY <1>5, <3>1 DEF InStep, Height
    <3> QED BY <1>5, <1>15, <2>1, <2>2, <3>1, <3>2 DEF Emits
  <2>4. /\ a = Len(h.code) /\ a >= 1 /\ ~h.nested
        /\ Segment(h, 1, a, x, x) /\ Runs(h, a, x) /\ Targets(h.code[a], a) = {}
    <3>1. Place(x) /\ b \in Contexts /\ ~b.nested
      BY <1>5, <1>12
    <3> QED BY <1>4, <1>7, <2>1, <2>3, <3>1, HaltRuns
  <2>5. f.arity = 0 /\ f.code = e.code /\ f.pool = e.pool /\ 0 \in Nat /\ 0 + 1 = 1
    BY <1>9
  <2>6. f.code \in Seq(Instructions) /\ Begins(h.code, f.code) /\ f.pool = h.pool
    <3>1. e.code \in Seq(Instructions)
      BY <1>14, ContextType
    <3> QED BY <1>14, <2>5, <3>1 DEF Grown
  <2>7. \A v : ConstantOf(h, v) => v \in Values(0)
    <3>1. h.script = t /\ Len(h.fns) = m /\ m = Len(Code[t].fns) - 1
      BY <1>12, <1>13, <1>16, <1>17 DEF Grown
    <3>2. \A j \in 1 .. Len(h.fns) : j \in 1 .. m
      BY <3>1
    <3>3. h.script \in DOMAIN Code /\ Code[h.script].ok /\ m = Len(Code[h.script].fns) - 1
      BY <3>1
    <3> QED BY <3>2, <3>3, ConstantValue
  <2>8. x = [height |-> f.arity + 1, open |-> <<>>]
    BY <1>4, <2>5
  <2>9. VerifiedFunction(f, ~h.nested)
    BY <1>13, <2>4, <2>5, <2>6, <2>7, <2>8, LaidFits
  <2> QED BY <2>4, <2>9
<1>20. Len(Code[t].fns) \in Nat \ {0}
  <2>1. m + 1 \in Nat \ {0}
    OBVIOUS
  <2> QED BY <1>17, <2>1
<1>21. ASSUME NEW k \in 1 .. Len(Code[t].fns) PROVE VerifiedFunction(Code[t].fns[k], k = Len(Code[t].fns))
  <2>1. \/ k \in 1 .. m /\ (k = Len(Code[t].fns)) = FALSE
        \/ k = m + 1 /\ (k = Len(Code[t].fns)) = TRUE
    BY <1>16, <1>17
  <2>2. CASE k \in 1 .. m /\ (k = Len(Code[t].fns)) = FALSE
    BY <1>18, <2>2
  <2>3. CASE k = m + 1 /\ (k = Len(Code[t].fns)) = TRUE
    BY <1>17, <1>19, <2>3
  <2> QED BY <2>1, <2>2, <2>3
<1> QED BY <1>20, <1>21 DEF VerifiedScript

\* Every script is what its trees compile to.
FromTrees == \A t \in DOMAIN Code : \E n \in Nat : \E p \in ScriptTrees(n) : Code[t] = Compile(t, p)

\* No function that is run has a constant whose index no byte holds: that is an
\* error for every constant but the function of an import.
PoolsFit ==
  \A t \in DOMAIN Code : Code[t].ok =>
    \A k \in 1 .. Len(Code[t].fns) : Len(Code[t].fns[k].pool) <= ByteRange

\* Whatever the compiler makes of the trees in Trees, of any depth and length,
\* one pass over its code shows that it gives runVM all that runVM takes for granted.
THEOREM CompiledIsVerified ==
  ASSUME ByTheRules, FromTrees, PoolsFit
  PROVE  Verified
<1>1. ASSUME NEW t \in DOMAIN Code, Code[t].ok PROVE VerifiedScript(Code[t])
  <2>1. PICK n \in Nat : \E p \in ScriptTrees(n) : Code[t] = Compile(t, p)
    BY DEF FromTrees
  <2>2. PICK p \in ScriptTrees(n) : Code[t] = Compile(t, p)
    BY <2>1
  <2>3. \A k \in 1 .. Len(Code[t].fns) : Len(Code[t].fns[k].pool) <= ByteRange
    BY <1>1 DEF PoolsFit
  <2> QED BY <1>1, <2>2, <2>3, ScriptVerified
<1> QED BY <1>1 DEF Verified, VerifiedCode

\* Code that is verified has places that fit: the VM can run it.
THEOREM CompiledIsSound ==
  ASSUME ByTheRules, FromTrees, PoolsFit
  PROVE  Sound
<1>1. Verified
  BY CompiledIsVerified
<1>2. ASSUME NEW t \in DOMAIN Code, Code[t].ok PROVE SoundScript(Code[t])
  <2>1. VerifiedScript(Code[t])
    BY <1>1, <1>2 DEF Verified, VerifiedCode
  <2> QED BY <2>1 DEF VerifiedScript, VerifiedFunction, SoundScript
<1> QED BY <1>2 DEF Sound

\* No script that is running is anything but verified code: what the compiler emits
\* would pass, so that the VM does without a pass of its own.
THEOREM CompiledRunsVerified ==
  ASSUME ByTheRules, FromTrees, PoolsFit
  PROVE  Spec => []CodeVerified
<1>1. CodeVerified
  BY CompiledIsVerified DEF CodeVerified
<1> QED BY <1>1, PTL
=============================================================================
