-------------------------------- MODULE Repl --------------------------------
(***************************************************************************)
(* How source text reaches the parser: typed at the prompt line by line    *)
(* (repl.cpp), or read from a file (main.cpp).  A user has a program in    *)
(* mind, writes it down in some way, and may skip a line or get a word     *)
(* wrong.  The parser is a parameter here, and module Reading puts Parser  *)
(* in its place; what is parsed goes on to the compiler and the VM, which  *)
(* module Session models.                                                  *)
(***************************************************************************)
EXTENDS Integers, Sequences
Sequence == INSTANCE SequencesExt

CONSTANTS
  Pieces,     \* what a line is made of
  Entries,    \* the programs: trees of module Language
  Written,    \* Written[e]: the ways to write program e, each a sequence of lines
  Texts,      \* Texts[e]: the same as files, each a sequence of pieces
  Slips,      \* Slips[e]: texts of program e with a slip of the pen
  ParseText(_),  \* what parse makes of a text: a tree, if it is `ok`
  BufMax,     \* REPL_BUF_MAX: what the carry holds, in pieces
  NoiseMax    \* the blank lines and comments typed into one entry

ASSUME ReplAssumption ==
  /\ {" ", "#", "try", "end", "\n"} \subseteq Pieces
  /\ Written \in [DOMAIN Entries -> Seq(Seq(Seq(Pieces)))]
  /\ Texts \in [DOMAIN Entries -> Seq(Seq(Pieces))]
  /\ Slips \in [DOMAIN Entries -> Seq(Seq(Pieces))]
  /\ BufMax \in Nat \ {0} /\ NoiseMax \in Nat

NoEntry == 0

VARIABLES
  carry,     \* the lines of an entry that is not complete
  depth,     \* how many blocks the REPL takes to be open
  status,    \* "prompt", or "left" when the REPL has ended
  entry,     \* the program the user has in mind
  todo,      \* the lines of it still to be typed
  ran,       \* the statements of it that were parsed so far
  source,    \* the text that was parsed last
  parsed,    \* what became of it
  noise,     \* the lines typed between those of the entry
  spoilt     \* the entry was not typed, or not kept, as it was meant

vars == <<carry, depth, status, entry, todo, ran, source, parsed, noise, spoilt>>

Nothing == [ok |-> TRUE, tree |-> <<>>]

Init ==
  /\ carry = <<>> /\ depth = 0 /\ status = "prompt"
  /\ entry = NoEntry /\ todo = <<>> /\ ran = <<>> /\ noise = 0 /\ spoilt = FALSE
  /\ source = <<>> /\ parsed = Nothing

-----------------------------------------------------------------------------
(***************************************************************************)
(* A line                                                                  *)
(***************************************************************************)
Trimmed(line) ==
  LET first == Sequence!SelectInSeq(line, LAMBDA c : c \notin {" ", "\t"})
  IN IF first = 0 THEN <<>> ELSE SubSeq(line, first, Len(line))

IsCatch(t) == Sequence!IsPrefix(<<"catch", " ">>, t) \/ t = <<"catch">>
OpensBlock(t) ==
  \/ t # <<>> /\ Len(t[1]) >= 3 /\ SubSeq(t[1], 1, 3) = "try"
  \/ \E w \in {"if", "loop", "function"} : Sequence!IsPrefix(<<w, " ">>, t)
ClosesBlock(t) == t = <<"end">>

\* Fault: catch opens a block.
FaultyDepthAfter(line) ==
  CASE IsCatch(Trimmed(line)) \/ OpensBlock(Trimmed(line)) -> depth + 1
    [] ClosesBlock(Trimmed(line)) /\ depth > 0 -> depth - 1
    [] OTHER -> depth
DepthAfter(line) ==
  CASE IsCatch(Trimmed(line)) -> depth
    [] OpensBlock(Trimmed(line)) -> depth + 1
    [] ClosesBlock(Trimmed(line)) /\ depth > 0 -> depth - 1
    [] OTHER -> depth

\* Fault: the newline and the byte that ends the text are not counted.
FaultyFits(line) == Len(carry) + Len(line) <= BufMax
Fits(line) == Len(carry) + Len(line) + 2 < BufMax
\* A line that does not fit is not kept, though it has been counted.
CarryWith(line) == IF Fits(line) THEN Append(carry \o line, "\n") ELSE carry

\* What is parsed without an error is run.
Submit(text, program) ==
  /\ source' = text /\ parsed' = program
  /\ ran' = IF program.ok THEN ran \o program.tree ELSE ran

\* One turn of the loop of runREPL, for a line that is not blank at the prompt
\* and no command: `help` and `clear` change nothing, in a block either.
Incomplete(line) ==
  /\ DepthAfter(line) > 0
  /\ depth' = DepthAfter(line) /\ carry' = CarryWith(line)
  /\ UNCHANGED <<ran, source, parsed>>
\* Fault: what is rejected stays in the carry.
FaultyComplete(line) ==
  /\ DepthAfter(line) = 0
  /\ Submit(CarryWith(line), ParseText(CarryWith(line)))
  /\ depth' = 0 /\ carry' = IF parsed'.ok THEN <<>> ELSE CarryWith(line)
Complete(line) ==
  /\ DepthAfter(line) = 0
  /\ Submit(CarryWith(line), ParseText(CarryWith(line)))
  /\ depth' = 0 /\ carry' = <<>>
TakeLine(line) ==
  /\ status = "prompt"
  /\ Trimmed(line) # <<>> \/ depth > 0
  /\ Incomplete(line) \/ Complete(line)
  /\ UNCHANGED <<status, entry>>

-----------------------------------------------------------------------------
(***************************************************************************)
(* The user                                                                *)
(***************************************************************************)
Waiting == status = "prompt" /\ todo = <<>> /\ depth = 0

\* Sits down to type program e in one of its ways.
BeginEntry(e, lines) ==
  /\ Waiting /\ entry = NoEntry
  /\ entry' = e /\ todo' = lines
  /\ UNCHANGED <<carry, depth, status, ran, source, parsed, noise, spoilt>>

\* What this module remembers of an entry, and the program does not.
Forget ==
  /\ entry' = NoEntry /\ ran' = <<>> /\ source' = <<>> /\ parsed' = Nothing
  /\ noise' = 0 /\ spoilt' = FALSE

\* Has seen what came of it; what the REPL keeps is kept.
Finish ==
  /\ Waiting /\ entry # NoEntry
  /\ Forget
  /\ UNCHANGED <<carry, depth, status, todo>>

TypeNext ==
  /\ todo # <<>>
  /\ TakeLine(Head(todo)) /\ todo' = Tail(todo)
  /\ spoilt' = (spoilt \/ ~Fits(Head(todo)))
  /\ UNCHANGED noise

\* Forgets a line.
SkipNext ==
  /\ status = "prompt" /\ todo # <<>> /\ ~spoilt /\ noise = 0
  /\ spoilt' = TRUE /\ todo' = Tail(todo)
  /\ UNCHANGED <<carry, depth, status, entry, ran, source, parsed, noise>>

\* A blank line or a comment between the lines.  "Blank lines are allowed
\* anywhere" (docs/grammar.md:169), but where the body of a try or of its catch
\* is empty, parse fails on one (parser.cpp:223, 238): the entry is spoilt.
Noise == {<<" ">>, <<"#", "try">>}
LastKept == SubSeq(carry, Sequence!SelectLastInSubSeq(carry, 1, Len(carry) - 1, LAMBDA c : c = "\n") + 1, Len(carry))
EmptyBody ==
  /\ \E w \in {"try", "catch"} : Sequence!IsPrefix(<<w>>, Trimmed(LastKept))
  /\ \E w \in {"catch", "end"} : Sequence!IsPrefix(<<w>>, Trimmed(Head(todo)))
TypeNoise ==
  /\ noise < NoiseMax /\ todo # <<>> /\ ~spoilt
  /\ \E line \in Noise : Fits(line) /\ TakeLine(line)
  /\ noise' = noise + 1 /\ spoilt' = EmptyBody
  /\ UNCHANGED todo

\* Closes a block the REPL still waits for.
CloseBlock ==
  /\ todo = <<>> /\ depth > 0
  /\ TakeLine(<<"end">>)
  /\ UNCHANGED <<todo, noise, spoilt>>

\* `exit`, `quit` or the end of the input: what was carried is gone.
Leave ==
  /\ status = "prompt" /\ status' = "left"
  /\ carry' = <<>> /\ depth' = 0 /\ todo' = <<>> /\ Forget

\* runFile and the others that read a file parse it at once.
LoadFile(e, text, slip) ==
  /\ Waiting /\ entry = NoEntry
  /\ entry' = e /\ spoilt' = slip
  /\ Submit(text, ParseText(text))
  /\ UNCHANGED <<carry, depth, status, todo, noise>>

Next ==
  \/ \E e \in DOMAIN Entries :
       \/ \E i \in DOMAIN Written[e] : BeginEntry(e, Written[e][i])
       \/ \E i \in DOMAIN Texts[e] : LoadFile(e, Texts[e][i], FALSE)
       \/ \E i \in DOMAIN Slips[e] : LoadFile(e, Slips[e][i], TRUE)
  \/ Finish \/ TypeNext \/ SkipNext \/ TypeNoise \/ CloseBlock \/ Leave

Spec == Init /\ [][Next]_vars

-----------------------------------------------------------------------------
\* Lines are made of pieces, and nothing is carried over when the REPL waits for no
\* block.
TypeOK ==
  /\ carry \in Seq(Pieces) /\ source \in Seq(Pieces) /\ todo \in Seq(Seq(Pieces))
  /\ depth \in Nat /\ noise \in 0 .. NoiseMax /\ spoilt \in BOOLEAN
  /\ status \in {"prompt", "left"} /\ entry \in DOMAIN Entries \cup {NoEntry}
  /\ depth = 0 => carry = <<>>

\* The carry keeps to its buffer, with the byte that ends it.
CarryFits == Len(carry) < BufMax
=============================================================================
