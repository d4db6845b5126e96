------------------------------ MODULE MCLimits ------------------------------
(***************************************************************************)
(* Recursion that reaches the end of the frames, of the stack or of the    *)
(* handlers, with and without try blocks on the way; a function with more  *)
(* locals than the compiler takes; constants, arguments and items up to    *)
(* and past what a byte counts, a byte having 16 values here; and the      *)
(* scripts of TryScripts in as little room.                                *)
(***************************************************************************)
EXTENDS Session, Compiler
LOCAL F == INSTANCE TryScripts

n(i) == Lit(Num(i))
less == Binary("LT", n(0), Var("p"))
again == Call(Var("f"), <<Binary("SUB", Var("p"), n(1))>>)

\* f(p) goes p calls deep, each with w locals of its own.
Locals(w) == [i \in 1 .. w |-> Let("a", n(i))]
Plain(w) == Locals(w) \o <<Output(Var("p")), If(less, <<Output(again)>>, <<>>)>>
Guarded(w) == Locals(w) \o <<If(less, <<Try(<<Output(again)>>, "e", <<Output(Var("e"))>>)>>,
                                      <<Eval(Call(Var("error"), <<Var("p")>>))>>)>>
Calls(body, p) == <<Function("f", <<"p">>, body), Output(Call(Var("f"), <<n(p)>>)), Output(n(99))>>

\* Scripts with k constants before the last statement, or k values in it.
Constants(k) == [i \in 1 .. k |-> Output(n(i))]
Counting(k) ==
  << Constants(k) \o <<Output(n(k))>>,
     Constants(k - 3) \o <<Function("f", <<>>, <<Return(n(0))>>), Output(Call(Var("f"), <<>>))>>,
     <<Output(Array([i \in 1 .. k |-> Lit(Nil)]))>>,
     <<Output(Call(Var("assert"), [i \in 1 .. k - 1 |-> Lit(Bool(TRUE))]))>> >>

Bodies == <<Plain(0), Plain(1), Plain(3), Guarded(0), Guarded(1), Guarded(2), Plain(4)>>
Deep == [i \in 1 .. 8 * Len(Bodies) |-> Calls(Bodies[(i - 1) \div 8 + 1], (i - 1) % 8)]
Wide == Counting(13) \o Counting(14) \o Counting(15) \o Counting(16) \o Counting(17)

\* As in MCSessions, \o makes sequences of what TLC would compute at every use.
Pool == Deep \o Wide \o F!ScriptPool
CompiledPool == LET pool == Pool IN [t \in DOMAIN pool |-> Compile(t, pool[t])] \o <<>>
MCPrograms == Pool
MCCode == CompiledPool
MCGiven == [test |-> DOMAIN Pool]

\* What the proofs take as known of every text is so of these.
ASSUME TextsAssumption == StringsOn(Phrases \cup {"a", "ab", "b a", "a,b", "10"}, -12 .. 12)
=============================================================================
