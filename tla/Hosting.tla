------------------------------ MODULE Hosting ------------------------------
(***************************************************************************)
(* What include/nolqu.h and docs/embedding.md promise a host: states that  *)
(* are independent of each other, in which its own functions are called    *)
(* like any other, each with room for MaxNatives of them (64, "per         *)
(* NqState").                                                              *)
(***************************************************************************)
EXTENDS Integers, Sequences

CONSTANTS State, Name, HostFn, Plain, Arguments, MaxArgs, MaxNatives

VARIABLES
  scope,    \* scope[s]: what each name stands for in state s
  given,    \* given[s]: how many functions were registered in state s
  opened,   \* the states that are open
  seen      \* what the host sees: the value of a name, a call, a refusal

hosted == <<scope, given, opened, seen>>

Unset == <<"unset">>
Silent == <<"nothing">>
Empty == [n \in Name |-> Unset]
\* Of a function or an array the host sees only what it is.
Shown(v) ==
  CASE v[1] = "data" -> v
    [] v[1] = "array" -> <<"array">>
    [] v[1] \in {"function", "host"} -> <<"function">>
    [] OTHER -> <<"nil">>

Init ==
  /\ scope = [s \in State |-> Empty] /\ given = [s \in State |-> 0]
  /\ opened = {} /\ seen = Silent

Open(s) ==
  /\ s \notin opened /\ opened' = opened \cup {s} /\ seen' = Silent
  /\ UNCHANGED <<scope, given>>
Close(s) ==
  /\ s \in opened /\ opened' = opened \ {s}
  /\ scope' = [scope EXCEPT ![s] = Empty] /\ given' = [given EXCEPT ![s] = 0]
  /\ seen' = Silent

Bind(s, n, v) == s \in opened /\ scope' = [scope EXCEPT ![s][n] = v] /\ UNCHANGED opened
\* By the host or by a script; a script may give a value another name.
Let(s, n, v) == Bind(s, n, v) /\ seen' = Silent /\ UNCHANGED given
Copy(s, n, m) == scope[s][n] # Unset /\ Let(s, m, scope[s][n])
Get(s, n) ==
  /\ s \in opened /\ seen' = <<"value", Shown(scope[s][n])>> /\ UNCHANGED <<scope, given, opened>>

\* A function of the host, and the one too many.
Register(s, n, f) ==
  /\ given[s] < MaxNatives /\ given' = [given EXCEPT ![s] = @ + 1]
  /\ Bind(s, n, <<"host", f>>) /\ seen' = Silent
Refuse(s) ==
  /\ s \in opened /\ given[s] = MaxNatives /\ seen' = <<"refused">>
  /\ UNCHANGED <<scope, given, opened>>

\* The function is called with its state and the first of the arguments; the
\* script keeps its answer, unless that is an array or a function.
Call(s, n, args, r, m) ==
  /\ scope[s][n][1] = "host"
  /\ seen' = <<"called", s, scope[s][n][2],
               [i \in 1 .. (IF Len(args) < MaxArgs THEN Len(args) ELSE MaxArgs) |-> Shown(args[i])]>>
  /\ Bind(s, m, IF r[1] = "data" THEN r ELSE <<"nil">>)
  /\ UNCHANGED given

Next ==
  \E s \in State :
    \/ Open(s) \/ Close(s) \/ Refuse(s)
    \/ \E n \in Name :
         \/ \E v \in Plain : Let(s, n, v)
         \/ \E f \in HostFn : Register(s, n, f)
         \/ Get(s, n)
         \/ \E m \in Name : Copy(s, n, m)
         \/ \E args \in Arguments, r \in Plain, m \in Name : Call(s, n, args, r, m)

Spec == Init /\ [][Next]_hosted
=============================================================================
