------------------------------- MODULE Trees -------------------------------
(***************************************************************************)
(* The syntax trees whose code the VM can run: all that the parser makes,  *)
(* but for a return inside a try of its own function, whose handler stays, *)
(* and a local in a block at the top of a module, whose slot is off by one *)
(* (both compile; see README, section 6).                                  *)
(***************************************************************************)
EXTENDS Language

Names == STRING \ {NoName}
Literals == {Nil} \cup ({"bool"} \X BOOLEAN) \cup ({"num"} \X Int) \cup ({"str"} \X STRING)
UnaryOps == {"NEGATE", "NOT"}
BinaryOps == Arithmetic \cup Division \cup Comparison \cup {"EQ", "NEQ", "CONCAT"}

\* Where a statement stands: in a script or a function, there in a try, at the
\* top of a module, or in a block of a module.
Kinds == {"free", "guarded", "module", "inner"}
Inside(k) == IF k = "module" THEN "inner" ELSE k

ExprsOf(E) ==
  ({"lit"} \X Literals) \cup ({"var"} \X Names)
    \cup ({"unary"} \X UnaryOps \X E) \cup ({"binary"} \X BinaryOps \X E \X E)
    \cup ({"and", "or", "index"} \X E \X E)
    \cup ({"call"} \X E \X Seq(E)) \cup ({"array"} \X Seq(E))

StmtsOf(E, S, k) ==
  ({"assign"} \X Names \X E) \cup ({"print", "expr"} \X E) \cup ({"setindex"} \X E \X E \X E)
    \cup ({"if"} \X E \X Seq(S[Inside(k)]) \X Seq(S[Inside(k)]))
    \cup ({"loop"} \X E \X Seq(S[Inside(k)]))
    \cup ({"function"} \X Names \X Seq(Names) \X Seq(S["free"]))
    \cup ({"import"} \X Seq(S["module"]))
    \cup (IF k = "inner" THEN {} ELSE {"let"} \X Names \X E)
    \cup (IF k = "guarded" THEN {} ELSE {"return"} \X E)
    \cup (IF k \in {"free", "guarded"}
            THEN {"try"} \X Seq(S["guarded"]) \X Names \X Seq(S[k]) ELSE {})

Deeper(T) == [expr |-> ExprsOf(T.expr), stmt |-> [k \in Kinds |-> StmtsOf(T.expr, T.stmt, k)]]

\* Trees[n]: the expressions, and the statements of each kind, less than n deep.
Trees[n \in Nat] ==
  IF n = 0 THEN [expr |-> {}, stmt |-> [k \in Kinds |-> {}]] ELSE Deeper(Trees[n - 1])

ScriptTrees(n) == Seq(Trees[n].stmt["free"])
=============================================================================
