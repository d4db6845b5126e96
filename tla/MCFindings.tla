----------------------------- MODULE MCFindings -----------------------------
(***************************************************************************)
(* Scripts on which the code does other than its documents say, each for   *)
(* a run of its own.                                                       *)
(***************************************************************************)
EXTENDS Session, Compiler
LOCAL T == INSTANCE TLC

n(i) == Lit(Num(i))
s(x) == Lit(Str(x))
Throwing == Eval(Call(Var("error"), <<s("boom")>>))
print(e) == <<Output(e)>>
OneFile == [test |-> {1}]
CompiledAll(programs) == T!@@([t \in DOMAIN programs |-> Compile(t, programs[t])], <<>>)

\* A return out of a try block, and an error after it.
ReturnInTry ==
  << << Function("f", <<>>, <<Try(<<Return(n(1))>>, "e", print(Var("e")))>>),
        Output(Call(Var("f"), <<>>)), Throwing, Output(n(2)) >> >>
ReturnInTryCode == CompiledAll(ReturnInTry)

\* A local of a block at the top level of a module.
ModuleBlock == << << Import(<<If(Lit(Bool(TRUE)), <<Let("x", n(5)), Output(Var("x"))>>, <<>>)>>) >> >>
ModuleBlockCode == CompiledAll(ModuleBlock)

\* A script that only prints.
PrintOne == << print(n(1)) >>
PrintOneCode == CompiledAll(PrintOne)
PrintOneGiven == [embed |-> {1}]

\* A script that is aborted in a try block, and one that ends in an error.
AbortInTry == << << Try(<<Output(Var("missing"))>>, "e", print(Var("e"))) >>, <<Throwing>> >>
AbortInTryCode == CompiledAll(AbortInTry)
AbortInTryGiven == [embed |-> {1, 2}]
=============================================================================
