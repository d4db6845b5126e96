------------------------------ MODULE Reading ------------------------------
(***************************************************************************)
(* The REPL and the file runner with the parser of the code, for users who *)
(* write as the documents say.  ParseText is to be Parse, and Texts what   *)
(* TextOf makes of Written.                                                *)
(***************************************************************************)
EXTENDS Repl, Parser, Grammar

Program == Entries[entry]
LinesFrom(k) == Len(BlockLines(SubSeq(Program, k, Len(Program)), Plain))
\* Of the statements, the first k are typed, and what is begun is the next.
Typed(k) == LinesFrom(k + 1) >= Len(todo) /\ (k < Len(Program) => LinesFrom(k + 2) < Len(todo))

\* The REPL and the file runner run the program that was written: each statement
\* has run, as the tree it was meant to be, once its last line is typed and not
\* before, and the REPL waits for more only when a statement is begun.
RunsWhatIsMeant ==
  entry # NoEntry /\ ~spoilt =>
    \E k \in 0 .. Len(Program) :
      /\ Typed(k) /\ ran = SubSeq(Program, 1, k)
      /\ depth = 0 <=> Len(todo) = LinesFrom(k + 1)

\* Whatever was typed, right or wrong: a text is rejected, or every word of it
\* is in the tree that is run, in its place, and nothing else is.
NothingIgnored ==
  parsed.ok => Bare(source) = Bare(TextOf(BlockLines(parsed.tree, Plain)))
=============================================================================
