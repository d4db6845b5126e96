----------------------------- MODULE MCSessions -----------------------------
(***************************************************************************)
(* The scripts of TryScripts, OperatorScripts and TextScripts, each run    *)
(* once from a fresh VM, and scripts that share their globals and a file,  *)
(* run one after the other in any order on one VM: some end in an error    *)
(* deep in calls and try blocks, some do not compile, and the others go on *)
(* from what those left.                                                   *)
(***************************************************************************)
EXTENDS Session, Compiler
LOCAL F == INSTANCE TryScripts
LOCAL O == INSTANCE OperatorScripts
LOCAL T == INSTANCE TextScripts
LOCAL R == INSTANCE Trees

n(i) == Lit(Num(i))
s(x) == Lit(Str(x))
add(a, b) == Binary("ADD", a, b)
Throwing == Eval(Call(Var("error"), <<s("boom")>>))

Shared ==
  [ define |-> << Let("g", n(0)),
                  Function("f", <<"p">>, <<Let("q", Var("p")), Assign("g", add(Var("g"), Var("q"))),
                                           Return(Binary("DIV", n(6), Var("p")))>>) >>,
    call |-> << Let("r", Call(Var("f"), <<n(2)>>)), Output(add(Var("r"), Var("g"))) >>,
    caught |-> << Try(<<Let("x", n(1)), Output(Call(Var("f"), <<n(0)>>))>>, "e", <<Output(Var("e"))>>),
                  Output(Var("g")) >>,
    uncaught |-> << Let("a", Array(<<n(1), Call(Var("f"), <<n(3)>>), Call(Var("f"), <<n(0)>>)>>)) >>,
    fatal |-> << Function("k", <<>>, <<Try(<<Let("x", Call(Var("f"), <<n(1)>>)), Output(Var("missing"))>>,
                                           "e", <<Output(s("never"))>>)>>),
                 Eval(Call(Var("k"), <<>>)) >>,
    array |-> << Let("a", Array(<<Var("g")>>)), Eval(Call(Var("push"), <<Var("a"), n(4)>>)) >>,
    drain |-> << Output(Call(Var("pop"), <<Var("a")>>)), Eval(Call(Var("push"), <<Var("a"), Var("g")>>)),
                 SetIndex(Var("a"), n(0), n(8)), Output(Var("a")) >>,
    tidy |-> << Let("g", n(1)),
                Function("h", <<"p">>, <<Try(<<Let("q", Binary("DIV", n(6), Var("p"))),
                                               Output(Call(Var("h"), <<add(Var("p"), n(-1))>>))>>, "e",
                                             <<Output(Var("e")), Throwing>>)>>),
                Try(<<Eval(Call(Var("h"), <<n(2)>>))>>, "e", <<Let("g", Var("e")), Output(Var("g"))>>),
                Throwing >>,
    module |-> << If(Lit(Bool(TRUE)),
                     <<Import(<<Let("m", n(1)), Function("f", <<"p">>, <<Return(Var("m"))>>), Return(Var("m"))>>)>>,
                     <<>>),
                  Output(Var("m")) >>,
    log |-> << Eval(Call(Var("file_append"), <<s("log"), Binary("CONCAT", Var("g"), s("\n"))>>)),
               Let("a", Call(Var("file_lines"), <<s("log")>>)), Output(Var("a")), Throwing >>,
    wrong |-> << Assign("g", n(5)), Return(n(1)) >> ]

Names == << "define", "call", "caught", "uncaught", "fatal", "array", "drain", "tidy",
            "module", "log", "wrong" >>
Numbers(names) == {i \in DOMAIN Names : Names[i] \in names}

\* TLC keeps the value of a definition, not of what replaces a constant, and
\* \o makes a sequence of what it would otherwise compute at every use.
Pool == [i \in DOMAIN Names |-> Shared[Names[i]]] \o F!ScriptPool \o O!OperatorPool \o T!TextPool
CompiledPool == LET pool == Pool IN [t \in DOMAIN pool |-> Compile(t, pool[t])] \o <<>>
MCPrograms == Pool
MCCode == CompiledPool

\* The embedding host, which never resets its VM, has no script that may abort
\* in a try.
MCGiven ==
  [file |-> DOMAIN Pool \ DOMAIN Names, repl |-> DOMAIN Names, test |-> DOMAIN Names,
   embed |-> DOMAIN Names \ Numbers({"fatal", "caught"})]

\* The scripts are made of the trees that the proofs are about, and none has a
\* constant that its byte could not hold.
ASSUME PoolAssumption ==
  /\ LET scripts == R!ScriptTrees(6) IN \A t \in DOMAIN Pool : Pool[t] \in scripts
  /\ \A t \in DOMAIN Code : \A k \in DOMAIN Code[t].fns : Len(Code[t].fns[k].pool) <= ByteRange
=============================================================================
