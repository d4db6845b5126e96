# A verification of the Nolqu implementation

Nolqu is a small scripting language: a lexer, a parser and a one-pass compiler
in C++ produce bytecode for a stack machine in C, with a mark-and-sweep
collector, interned strings, a REPL, a test runner and a C embedding API.
This directory holds TLA+ models of it, the TLC runs that check them, and proofs
checked by TLAPS. Paths below are relative to `src/src/` unless they say more.

## 1. The system

| part | state | operations | depends on |
|---|---|---|---|
| lexer, parser (`lexer.cpp`, `parser.cpp`, `ast.cpp`) | position in the text, one token, an error flag | text to tokens to a tree; skip what was not understood | – |
| compiler (`compiler.cpp`, `chunk.c`) | a stack of `CompilerCtx`: chunk, locals, scope depth | `compile`; one case per node type | allocates functions and strings on the heap |
| VM (`vm.c`, `vm.h`) | value stack, call frames, try handlers, `thrown`, `globals` | `runVM`: one case per opcode; `throwError`, `callFunction`, about 50 built-ins | globals table, heap |
| globals table (`table.c`) | slots, `count`, `capacity` | get, set, delete, grow | keys are interned strings |
| heap (`object.c`, `gc.c`, `memory.c`) | list of all objects, intern table, byte count, `nq_gc_vm` | allocate, intern, collect | walks the state of *one* VM |
| hosts: REPL (`repl.cpp`), runners (`main.cpp`), embedding (`nq_embed.cpp`) | a VM kept from run to run; the REPL the unfinished entry and its depth; the embedding API the contexts of registered functions | compile and run, reset or not; set and get globals, register functions, collect, open, close | all of the above |
| code generator (`codegen.cpp`) | – | tree to C++ text | – |

Everything is single-threaded. What makes the code hard is elsewhere:

* **long sequences of legal calls**: tombstones accumulate in the globals table;
  frames and handlers of one run are still there in the next;
* **non-local control**: an error unwinds any number of calls to a stack height
  and a frame count noted earlier; `return` and fatal errors leave from the
  middle of a `try`; a handler does not go away with its frame;
* **two counts that must agree**: slots are counted by the compiler and moved by
  the VM, and no check connects them;
* **hidden callbacks**: every allocation may run a collection, so a C function
  that holds an object only in a local variable holds nothing;
* **process-wide state** behind an API that hands out independent states;
* **two readers of one text**: the REPL counts block words line by line to know when
  an entry is complete, and the parser then reads the entry by other rules;
* **a parser that goes on** after what it did not understand;
* **positions in texts and arrays**, negative or past the end, and what each built-in
  makes of them;
* **limits** (256 locals, frames, stack, 64 handlers, 64 host functions, constants,
  arguments and items counted in a byte, the REPL's buffer) met at any instruction.

What makes each part correct: a table is a map, the other interns, and the probe loops
of both end; what is typed is run as it was meant, and nothing that was accepted is
ignored; a compiled script does what the language says, leaves nothing behind, and stays
inside its frames; a run of a host starts from what the language says the
earlier runs left; no limit is overrun; nothing in use is freed, equal strings are
one object, and a collection keeps exactly what is reachable.

## 2. The modules

| module | code it stands for | kind |
|---|---|---|
| `Map`, `Interning`, `Hosting` | what `table.h`, `object.h`, and `include/nolqu.h` with `docs/embedding.md` promise | abstract specifications |
| `Probing` | linear probing, in `table.c` and `object.c` | operators shared by both tables |
| `HashTable` | `table.c`, `OP_SET_GLOBAL`'s set-then-delete | state machine, refines `Map` |
| `InternTable` | the string table: `object.c:32`–`155`, `removeWhiteStrings` and the string part of `sweep` in `gc.c` | state machine, refines `Interning` |
| `Embedding` | `nq_embed.cpp` but for running scripts | state machine, refines `Hosting` |
| `Language` | `value.h`, `ast.h`, arithmetic of `vm.c` | values, trees, operators on them |
| `Lexer`, `Parser` | `lexer.cpp`, `parser.cpp` | operators: text to tokens to trees |
| `Grammar` | `docs/grammar.md`, `docs/language.md` | reference: how a tree is written |
| `Repl` | `repl.cpp`, `readFile` of `main.cpp` | state machine: what is typed, what is submitted; the parser is a parameter |
| `Reading` | – | composes `Repl` with `Parser` and `Grammar`; properties |
| `Compiler` | `compiler.cpp` | operators: tree to code |
| `Trees` | `ast.h`, what `parser.cpp` can make of it | the trees that the proofs about the compiler are for |
| `Natives` | 34 of the built-ins of `vm.c` | operators |
| `Library` | `docs/language.md` section 11 | reference for `Natives` |
| `VM` | `runVM` and the hosts | state machine, an action per group of opcodes |
| `Bytecode` | what `runVM` takes for granted of its code: a checker no part of the code has | operators on code; properties |
| `Semantics` | the rest of `docs/language.md` | reference evaluator, no code |
| `Session` | – | composes `VM` and `Bytecode` with `Semantics`; properties |
| `Heap` | `object.c`, `gc.c`, what `vm.c`, `compiler.cpp`, `nq_embed.cpp` do to objects | state machine |
| `HashTableProofs`, `InternTableProofs`, `HostProofs`, `HeapProofs`, `BytecodeProofs`, `CompilerProofs`, `ValueProofs` | – | theorems |
| `ProbingProofs` | – | lemmas about both tables |
| `TryScripts`, `OperatorScripts`, `TextScripts` | – | the scripts of `MCSessions` |
| `MCTables`, `MCSessions`, `MCEntries`, `MCLimits`, `MCHeap`, `MCHeaps`, `MCFindings` | – | the instances TLC checks |

How they meet: `Repl` ends with the trees it submits, and `Session` begins with trees, so
text and execution share a seam and neither run has to carry the other. `Natives` is part
of `VM`, `Library` of `Semantics`. `Heap` has the string table as a set, `InternTable` slot
by slot. `Embedding` has values that stay, `Heap` says which objects do.

Definitions named `Faulty...`, and `SkippedPrune` and `UncheckedTryBlock`, are plausible
bugs of the definition that follows them. No specification uses them: with one in the
place of the real definition, the run that checks a property finds it violated, so each
property can fail.

### HashTable and Map

`entries` is the array, a slot being a record of key and value: no key and `Nil`
is empty, no key and `True` is a tombstone. `FindsEntry` is the probe loop,
defined by the slot it stops at instead of by recursion. A `tableSet` is
`BeginSet` (the load test), then `CopySlot` for each old slot and `EndGrow` when
it has to grow, then `Put`; `OP_SET_GLOBAL` adds `Undo`. `Delete` and `Get` are
single steps. In `Map` each call is one step on a function. Under the refinement
mapping the copy loop stutters and the binding that an undeclared assignment
makes for a moment is not seen.

### InternTable and Interning

`strings` is the array of `nq_string_table`, `content` the text of the string at an
address. `copyString` is stepped where something can come in between: `CopyString`
searches and answers, or decides to allocate; a collection may begin then
(`CollectStrings`), since `allocString` allocates after it has looked; `AllocString`
takes an address, `BeginCopy`, `CopyOne` and `EndGrowth` rebuild an array that is full
by three quarters, and `PutString` looks for room again and adds. The collector marks
some of the strings, copies the marked ones into an array of the same size (there are no
tombstones), and `SweepStrings` frees the others. `FreeStrings` is `freeVM`. In
`Interning` a text that is asked for is answered by the string that says so or by a new
one, and strings go away only when the collector sweeps.

### Embedding and Hosting

`globals` are the names a host and its scripts use, `ctxs` and `ctxCount` are `g_ctxs` and
`g_ctx_count`. A registered function is a native that knows the number of its context;
`Calls` is `OP_CALL` of one with as many arguments as its arity asks for, its trampoline,
the function and what becomes of its answer. `Copies` is a script giving a native another
name. A host makes its calls between runs.

States share more than contexts, and the model does too. `Opens` empties the string table of
the process (`vm.c:559`): names are interned anew, so what any other state had in its globals is
not found again. `Closes` frees the objects of all states (`vm.c:622`): those left open are
`ruined`, and `Finds` answers for their names whatever the freed memory may hold. (That
it may also crash is no further behaviour: the process stops.) `Refuses` is a registration when
all contexts are taken, by whatever state.

`Hosting` is what `docs/embedding.md` promises: states that are independent, each with room for
`MaxNatives` functions, in which a name stands for a function and there are no contexts. The code
keeps that for a process that opens its states one after the other and registers
functions in the last of them only. The history variable `alone` says that this is so, and
`ImplementsHosting` asks of each step that leaves it so that it be a step of `Hosting`, with the
refinement mapping that follows each native to the function in its context and counts the
contexts a state took. Of other processes only `ContextsOwned` is stated: however states are
opened and closed, a native that is found is one of the state's own, with a context in use.

### Lexer, Parser, Grammar, Repl, Reading

A text is a sequence of pieces: a run of letters, a digit, any other character. `Lexer` is
`nextToken` on it. `Parser` is recursive descent as in the code: a parser record has the
token, the rest of the text, whether an error was met, and what was parsed last; every rule
says what it does when its token is missing, for the parser goes on and skips. `Parse`
returns a tree or fails. `Grammar` goes the other way: `BlockLines(block, style)` is the
tree as the documents say to write it, in three styles (as few parentheses as the
documented precedences allow, all of them, one construct to a line or several). `..` is
at the level the documents give it, below `+` and `-`; the parser has it beside them.

In `Repl` a user has a program in mind. It is read from a file at once (`LoadFile`), or
typed line by line: each `TakeLine` trims a line, counts block words (`DepthAfter`), adds
the line to `carry` if it fits, and submits `carry` when the depth is back at zero. The
user may type a blank line or a comment in between, forget a line, or get one piece wrong;
`entry` is the program, `spoilt` says whether it was typed as written. A blank line in an empty body
spoils it too, since the parser rejects it there (section 6); `NothingIgnored` then still has to
hold.

### Language, Compiler, VM, Semantics, Session

A script is a tree of `Language` (what the parser returns). `Compiler!Compile`
turns it into functions whose code is a sequence of instructions, with jumps to
indices instead of byte distances, and the constant in the instruction although its index
in the pool is counted: `ByteRange` is how many an index byte tells apart, and a function
that needs more does not compile. Each case of `compileNode` is an operator on a context,
what is emitted so far, and where the code calls itself the operator calls one of the constants
`Expr`, `Exprs`, `Node`, `Nodes` and `Params`; the .cfg files put `CompileExpr`, `CompileExprs`,
`CompileNode`, `CompileBlock` and `AddParams` in their place, and so tie the knot (RECURSIVE
operators would keep the module from the provers). Its scoping is the code's: `locals` with a depth, slot 0 kept for the
function, one `POP` per local at the end of a scope.

`VM` keeps the arrays as arrays: `stack` and `frames` keep what is above `top`
and `depth`, since an error handler can bring it back. Every instruction of a
group is one action with its checks in the order of the code, including what has
been popped when an error is raised. `Throw` is `throwError`, `Abort` is
`vmRuntimeError` (which no handler sees), `ExitProcess` is the `exit(1)` of
`push`. A host is `"file"`, which runs one script on a fresh VM, or `"repl"`, `"test"` or
`"embed"`, which run one after the other: `TakeResult` and `StartRun`
reset the VM as `repl.cpp:121`, `main.cpp:214` do, and as `nq_embed.cpp` does not. `files`
are the texts of the files that scripts read and write.

`Natives` has the built-ins on texts, arrays, types and files as the C functions do them:
positions counted from 0, moved and cut in the order of the code, case by ASCII, `sort` by
`cmp_values`. `Library` has them as the guide tells of them, by what the answer is, not how
it is found (a split is the list whose join is the text, and so on).

`Bytecode` says when code is such that `runVM` need not test it. From the first instruction
of a function `ShapeOf` works out, in one pass, for each instruction that can be reached, its place: how
many slots of its frame are in use, and which trys are open, each with its catch and the
height it puts back. Code is `Verified` when every way to an instruction gives it the same
place and the place suffices: the operands are there, above what the innermost try keeps; a
local's slot is in use; a `TRY_END` has a try to close; a function returns with none open;
and a constant that is read is a value, a function of the same script included. `Sound` says less:
that there are such places (`Fits`), whoever finds them. The theorems about `VM` assume no more;
of compiled code both are proved.

`Semantics` evaluates the same trees with environments and outcomes (`ok`,
`return`, `throw`, `fatal`), as the language guide describes it; it shares only
`Language`'s operations on data with the VM. `Session` runs a script on the VM
and in `Semantics` side by side: `store` is what all runs so far should have left
and printed.

Two simplifications matter: quotients are whole (scripts that divide otherwise are
left out), and error messages are named by the check that failed.

### Heap

`objects` maps addresses to objects (type, text of a string, references), `table`
is the set of interned strings, and the roots of a state are its stack, frames,
globals and pending error. Collecting is stepped: `Collect`, `MarkOne` for each
object, `EndMark`, `Prune` (`removeWhiteStrings`), `Sweep`. An operation that
allocates is a record `call` with the list of what it `wants`: before each item
`GcMaybe` may collect; then it is found in the table or allocated, and kept in
`held`, the C variables. Operations that fill an object as they go (`split`,
`compile`) put items into the first one they made. The byte count and its
threshold are abstracted: with `"pressure"` among the `Routines` any allocation
may collect. `RunVM` sets `nq_gc_vm`, so nothing is collected before the first run.

`Routines` names the operations an instance has, so that the operations whose
temporaries are safe can be checked under pressure on their own.

## 3. The runs

| run | question | instance |
|---|---|---|
| `tables` | is the globals table a map, whatever the history? are strings interned, whenever the collector runs? does a script reach its host's function? | 3 keys with hashes 3, 7, 4, values nil and true; 4 texts, two of one hash, 4 addresses; capacities 2, 4, 8; 2 states, 2 names, 2 functions, 2 contexts. About 462,000 states |
| `sessions` | does compiled code do what the language says, and still when scripts follow one another? | `file`: 288 scripts of `TryScripts` (8 function × 9 try × 4 catch bodies), 216 of `OperatorScripts` (24 operations × 9 first operands, every second operand in turn), about 140 of `TextScripts`; `repl`, `test`, `embed`: 11 scripts that share globals and a file, 4 runs in any order. About 245,000 states |
| `entries` | is what is typed or loaded run as it was meant? | some 270 programs in 3 styles: every operator beside and inside every other (but for a sum to the right of `..`, which is run `concat_level`), every statement inside and after every other; one blank line, comment, forgotten line or slip. About 40,000 states |
| `limits` | what happens at the limits, and does every run end? | 7 recursive bodies, 0 to 7 calls deep; 6 frames, 16 stack slots, 3 handlers; 5 locals and a byte of 16 values for constants, arguments and items; the scripts of `TryScripts` in as little room. About 11,000 states |
| `heap` | is anything in use freed? | 3 addresses, 2 texts; one of two loads (`MCHeaps`): the rooted operations with collections everywhere, a stack of 3; or all operations with collections between them, the state closed and opened again, a stack of 2. About 1,550,000 states |
| `return_in_try`, `module_block`, `frame_leak`, `stale_handler`, `split_collected`, `two_states`, `concat_level` | section 6 | one script or the routines named in the .cfg |

**Properties.** `ProbesEnd`: there is always an empty slot, and `count` is the
number of slots that are not empty. `KeysReachable`: no name is in two slots or
behind a gap in its chain. `CopyAgrees`: a half-finished rehash holds exactly what
it has passed. `SearchesEnd` and `StringsFound` say the same of the string table, at every moment
between which strings may be asked for: it counts its strings, has an empty slot, and
holds exactly the strings there are, each where the search for its text stops.
`ContextsOwned`: a native has a context in use, of its own state, and the contexts do not
run over. `ImplementsMap`, `ImplementsInterning`: refinements. `ImplementsHosting`: the
refinement of `Hosting` while states follow one another, none is refused a function before
the limit, and a call reaches the function registered last. `RunsWhatIsMeant`: a program
written faithfully is run, as the tree it was written from, when its last line is there and
not before. `NothingIgnored`: every word and operator of an accepted text is in the tree.
`CarryFits`: the REPL's buffer is not overrun, and a line is dropped only when it does not
fit. `OutputAsMeant`, `ResultAsMeant`,
`GlobalsAsMeant`: what is printed at every moment, what a run returns, and what it
leaves in the globals and the files. `FramesStacked`, `LocalsLive`, `HandlersLive`: frames and handlers nest,
each frame starts at its function and no instruction touches a slot above the
top. `NothingLeft`: at `HALT` the stack holds the script and no handler is open.
`CodeVerified`: whatever is run is verified code (of the scripts of section 6, that of
`return_in_try` and of `module_block` is not). `MCSessions` also assumes, so that TLC evaluates
it, that its scripts are among `Trees` and their constants fit a byte: what the theorems about
compiled code ask for is true of the scripts TLC runs. `TypeOK` of `VM` says what every variable, item
and operand is: a value of the language, whose arrays exist and whose functions are ones the
compiler made; it does not hold of the array as a whole, whose slots above the top keep what
was there. `FunctionsCalled`: a value that is called as a
function is one the compiler made for a declaration or an import, not a script.
`CallersUntouched`: nothing a callee executes writes below its frame. `RunsEnd`:
every run ends. `StackBounded`, `TablesBounded`, `CutShort`: at a limit nothing is
overrun, what was printed is a beginning of what should be, and the result is not
OK. `NothingDangles`, `HeldKept`, `StringsInterned`, `CollectsExactly`: as in
section 1.

**Bounds.** The hashes make all three keys collide in an array of 2 or 4, wrap
around its end, and separate only at 8; every order of calls is tried, so
tombstones fill an array up to the load limit. Four runs are enough for a session: a script that defines,
one that fails in the middle, one that uses what is left, and one more for what
those leave to it. In the string table two texts of one hash keep colliding in every array,
and a string may be collected while another call is between its search and its
allocation. Two contexts for two states and two functions are enough to run out of them
in one state and in two together, to have a closed state's contexts beside those of an open
one, and to have a state open whose objects went with another's. In `entries` the buffer
takes `BufMax` = 100 pieces, which the longest programs exceed, and a user makes at most
`NoiseMax` = 1 mistake: one slip is what the parser's recovery starts from. `limits` sizes the arrays so that each limit is reached before
the others by some script. With three addresses a collection can free one object
while two others are in use and its address be taken again; four are used where two
states compete.

**Fairness.** `SSpec` has weak fairness of `Execute`: the loop of `runVM` goes on
while it can. Nothing makes a host start another run, and nobody makes a user type, so
`Repl` has no fairness. The tables and `Heap` have no liveness: that probe loops end is
`ProbesEnd` and `SearchesEnd`.

**Deadlock** is checked except in `Heap`, where a state without a free address is
the `exit(1)` of `nq_realloc`, and in `entries`, where the REPL may be left.

## 4. Proofs

`HashTableProofs` proves, for every finite or infinite set of names and values,
every hash function and every minimal capacity of at least 2, that `TypeOK`,
`ProbesEnd`, `KeysReachable` and `CopyAgrees` are invariants and that `HashTable` implements `Map`. The
inductive invariant is `IInv == TypeOK /\ LoadInv /\ KeysReachable /\ CopyAgrees`.
`LoadInv` is the strengthening that makes it inductive: `count` never
exceeds the load limit of the array, a `put` has room for one more, and while
growing `count` is at most the number of names already copied, so the new array
cannot fill up. From it follow, in this order: an array within its load limit has
an empty slot (`3n/4 < n`, by cardinality), so the probe loop has a stopping slot;
the slot is unique, since distances from the home slot differ; putting a key where
the loop ended keeps every chain unbroken; a tombstone keeps them too, because it is
not empty. Refinement is one step per action: `CopySlot` and `EndGrow` leave every
lookup as it was because the new array holds exactly the old bindings.

`InternTableProofs` proves, for every set of texts, any hashes, any number of addresses and
every minimal capacity of at least 2, that `StringTypeOK`, `SearchesEnd` and `StringsFound`
are invariants and that `InternTable` implements `Interning`. The invariant is
`StringInv == StringTypeOK /\ TableHolds /\ OneText /\ CopyHolds /\ StringLoad`:
the table holds the strings there are (all of them, but for one that is about to be put
in, and the marked ones from the pruning on), each unbroken from its home slot; no two say
the same; the array being filled holds exactly what the loop over the old one has passed;
and the array never fills up. The last needs care where the code prunes: the count is that
of the strings kept, and the array is of the old size, so it cannot fill. `OneText` is what
a collection between search and allocation could break: it can only take strings away, so
that none says the text that was not found. What both tables share is in `ProbingProofs`.

`HostProofs` proves, for any number of states, names, functions and contexts and any
limit on arguments, that `ContextsOwned` is an invariant, whatever is opened and closed in
whatever order (it is inductive: a registration writes a context that no native has, and nothing
else writes one), and that `ImplementsHosting` holds (`OneStateIsHosted`). For the second,
`AloneInv` says what `alone` stands for: at most one state is open, nothing was freed under it,
and all the contexts that are taken are its own. Then what a name leads to is what it is bound
to, a registration leaves what every other name stands for as it was, and the number of contexts taken is,
by cardinality, the number of functions the state was given; so a refusal comes when it has been
given `MaxNatives`, and not before. Closing the state gives no context back, which is why the next
state is alone only if there was none to give back.

It proves of `Repl`, for every parser, every program and every way to write it down, that
`TypeOK` and `CarryFits` are invariants: no lines overrun the buffer, and when no block is open
nothing is carried into the next entry. `IInv == TypeOK /\ CarryFits` is inductive, since a line
is measured against what is carried (`Kept`) and a text that is submitted is forgotten
(`LineStep`). No assumption on the parser is made.

`HeapProofs` proves, for any number of addresses, texts, frames and stack slots, that
`TypeOK`, `NothingDangles` and `HeldKept` are invariants of `Heap` and that every
collection is exact (`CollectsExactly`). Each theorem has two hypotheses, stated with it:

* `OneState`: one state is used. Run `two_states` shows what happens otherwise.
* `Rooted`: where any allocation may collect (`"pressure"`), none of `split`, `concat`,
  `recompile`, `register`, `setstring` and `close` is among the `Routines`. Run
  `split_collected` shows it for `split`; section 6 says where the others fail. Without
  pressure all operations are allowed.

The two loads of run `heap` are the two kinds of instance that meet them (the first leaves
`builtin`, `getglobal` and `reset` under pressure to the proof, to stay small). None of the
properties is inductive. The invariant is
`IInv == TypeOK /\ CallOK /\ AllLive /\ NothingHeld /\ Marking`:

* `CallOK`: an operation in progress belongs to an open state, and has in `held` or
  `wants` as many objects as its end takes; without it an end could use what is not there;
* `AllLive`: what roots, objects, the string table and `held` refer to is allocated;
* `NothingHeld`: when an allocation may collect, the C variables hold nothing, which is
  what `Rooted` is for: marking does not see them;
* `Marking`: everything marked is in every set that contains the roots and is closed
  under references, and from the end of marking on the marked objects are such a set. So
  `Sweep` frees what nothing refers to, and leaves the least such set and no more. Before
  `Sweep` the table holds marked strings only.

There is a lemma for each action. Actions of a kind share the argument: `MoveStep` for
operations that allocate nothing, `StartStep` for those that begin to, `ReceiveStep` for
an object that arrives, `EndStep` for what is stored at the end, `MarkingStep` for the
collector. What each leaves to show is that the roots afterwards are among the objects
there were.

Under the same hypotheses `StringsInterned` is an invariant. Its
strengthening `Interned` says what it leaves out while a sweep is due (the table has the
strings that are marked, and no two strings say the same even then), and that a host with
no state open has left no object: else `nq_open`, which empties the table, would lose
strings, as it does when another state is open.

`BytecodeProofs` and `ValueProofs` prove, for all sound code and any size of the stack,
the frames and the handlers, that `TypeOK`, `FunctionsCalled`, `FramesStacked`, `LocalsLive`,
`HandlersLive`, `NothingLeft`, `StackBounded`, `TablesBounded` and `CallersUntouched` hold of
`VM`. The compiler and the VM meet in this: neither tests what the other relies on. The
hypotheses, stated with each theorem:

* `Sound`: for every function of a script that compiles there are places such that `Fits`.
  That what the compiler emits is sound is proved below.
* `HostsReset`: there is no embedding host, and no more runs than frames. `stale_handler`
  and `frame_leak` show what happens otherwise: handlers of an aborted run, and runs
  without a frame.
* `StringsOfTLA`: joining, cutting and writing numbers give strings of TLA+, a string is no
  number, and the texts a model names are strings. The provers know a string only as equal
  or unequal to another. The same operator, `StringsOn`, is evaluated by TLC over the texts
  of run `limits`. `LettersAssumption` of `Natives` says as much of changing case.

None of the properties is inductive, and frames and values need each other: a frame starts at
a function because what is called is one, and what is called is one because the stack below it
is what its place says. The invariant is `JInv == IInv /\ TypeOK`.

`IInv` says that while a run goes on
there is a frame `b`, where the run began, and a numbering `off` of the handlers, for which
`Stands`: from `b` on each frame is at an instruction with a place, the stack between two
frames is as high as that place says (`Laid`), and the handlers are those of the trys that
are open in the places, frame after frame (`Guarded`); below `b` are the frames that earlier
scripts left (`Stacked`). Between runs, a host that goes on without a reset finds no handler
and no more frames than runs (`Calm`). `BytecodeProofs` has the steps that keep it, given that
what is called is a function. They come in a few kinds, a lemma for each:
staying in the frame (`LocalStep`), opening and closing a try, calling, returning, and
unwinding (`CatchStep`), where `LastHandler` has the point: what throws takes an operand,
so the handler's height is below the top, and the push that `throwError` does not test fits.

`ValueProofs` has the other half: each instruction puts values where it found values.
`Values` says it of the globals, the items of arrays and the pending error, `Slots` of the slots below
the top, `Holds` of a place in a frame. A built-in given values answers with a value
(`NativeAnswers`, a lemma for each kind of built-in), of which those that build arrays are the
longest: the arrays there were stay, and the items of the new ones are texts or items of old
ones. `sort` is a chain of the items, which exists because a finite set of naturals can be
taken apart from its least element (`LeastNatural`). An error that is caught brings slots back
that were once above the top; they are values because a handler's height is one its frame had
reached when the try was opened (`CatchKind`).

`CompilerProofs` proves that the compiler emits only verified and so sound code
(`CompiledIsVerified`, `CompiledIsSound`), for trees of any depth and length, so that
`CodeVerified` holds (`CompiledRunsVerified`), and the last theorem of `ValueProofs`, `CompiledCodeRuns`, joins both
halves: whatever scripts are compiled and run, in whatever order, the properties above hold. Its
hypotheses, besides `HostsReset` and `StringsOfTLA`:

* `ByTheRules`: on the trees of `Trees` the constants `Expr`, `Node` and so on are what the
  cases of the compiler say. It defines them, as each tree is made of less deep ones, and it is
  how the .cfg files give them their values.
* `FromTrees`: every script is compiled from statements of `Trees`: all that the parser makes,
  but for a `return` inside a `try` of its own function and a local in a block at the top of a
  module. For both the theorem would be false; they are `return_in_try` and `module_block`.
* `PoolsFit`: no function has more constants than a byte can tell apart. For all but the function of
  an import that follows from the code compiling; for an import it does not (section 6).

The argument goes by what a piece of code does to the places. `Segment(c, a, b, at, next)`: the
code of context `c` from `a` to before `b` can be given places, beginning with `at`, such that
every way through it stays in it or comes out at `b` in `next`, or in the catch of a try that was
open before. Segments are put one after the other (`SegmentsJoined`), a jump that was emitted with an
open end is patched to where they meet, and a segment stays one while more is emitted behind it
(`Grown`). On top of that there are two statements, each proved by induction on the depth of the
tree: the code of an expression leads from any place to that with one value more (`Pushed`,
`ExpressionsPush`), and that of a statement from a place as high as the compiler's count of
locals to one as high as its count afterwards, with the same trys open (`Done`,
`StatementsKeepStep`). So the two counts, of the compiler and of the VM, agree at every
instruction, which no check at run time would notice if they did not. The constants and
functions that are added on the way fit (`AllFit`), and the code of a whole script begins with its own function in slot 0
and ends at a `HALT` with nothing else on the stack (`ScriptVerified`).

That the one pass of `ShapeOf` finds those places needs something more, for it looks at each
instruction once and in order: a `LOOP` back to one that it had not reached by then would lead
to code it never looked at. So a segment is also `Looped`: what a backward jump goes over is
entered at the jump's target only. Then the pass has found the target of a jump back before it
comes there (`FoundInTime`, by induction on the position: if it had not, it could not have
come to the jump either), and it finds no place but those of the segment (`OnwardReached`,
`ShapeFits`). A compiler that jumped into a loop from outside, say to test its condition first at
the bottom, would need a checker with a work list.

The induction is over a set of naturals (`SetInduction`, from `LeastNatural`), since the theorems of
the library about induction take an operator, which no prover here can instantiate: `Trees` is a
recursive function of the depth, and the set is that of the depths for which the statement holds.

What is left to TLC:

* `OutputAsMeant`, `ResultAsMeant`, `GlobalsAsMeant` and `CutShort` compare the VM with the
  evaluator of `Semantics`, which is a RECURSIVE operator over trees and steps of a run: no
  theorem may reach it. What is proved instead is that compiled code never leaves the ground on
  which such a comparison makes sense.
* `RunsWhatIsMeant` and `NothingIgnored` of `Reading` speak of `Lexer`, `Parser` and `Grammar`,
  which are RECURSIVE over texts and trees.
* `RunsEnd` is liveness, under fairness.

## 5. Not modelled

* `codegen.cpp`: a translator of trees to C++ text, called experimental by the documents.
  What its output means is a question about C++.
* The byte count of `memory.c` and the threshold it is compared with: in `Heap` a
  collection may happen at any allocation.
* Line numbers, the 64 KB limit of a jump, positions and wording of error messages.
  `OP_THROW` and `OP_DUP`: no compiler case emits them. `tableCopy`: never called. Reading a
  module's file: a module is a tree.
* Built-ins whose results are not whole numbers or come from outside: `num` of a text
  (`strtod`), `sqrt`, `pow`, `floor`, `ceil`, `round`, `random`, `rand_int`, `clock`,
  `mem_usage`, `input`. `sort` of items that are neither all numbers nor all texts: the
  comparison handed to `qsort` is not an order there.
* Texts with a zero byte, and lines of more than the 4095 bytes `fgets` reads at once.
* `nq_call` (it writes source text and runs it), `nq_dofile`, `nq_lasterror`, and a host
  function that runs a script on the state that calls it, which enters `runVM` again.

## 6. Where the code disagrees with its documents

Each of these is a run that TLC finds violated:

* `return_in_try` – `return` inside `try` leaves its handler open (`vm.c:1069`,
  `compiler.cpp:305`); the next uncaught error resumes the finished function.
* `module_block` – a context for an imported module keeps no slot for the module
  function (`compiler.cpp:405`), so the first local of a block in a module is read
  from the wrong slot.
* `frame_leak` – `OP_HALT` leaves its frame; after `NQ_FRAMES_MAX` calls `nq_dostring`
  returns 0 and has run nothing.
* `stale_handler` – a fatal error inside `try` leaves the handler open, and in an
  embedding host a later script's error goes to the earlier script.
* `split_collected` – `split` and `file_lines` fill an array that no root refers to.
* `two_states` – a collection for one `NqState` frees the objects of another.
* `concat_level` – `..` has the precedence of `+` and `-` (`parser.cpp:413`), not a lower one
  (`docs/language.md:213`, `docs/grammar.md:90`): `a .. b + c` is run as `(a .. b) + c`.

Met while modelling, of the same kinds. The first four are in the model (`Embedding`,
`Entries.cfg`) and the properties say where they stop being promised; the others are kept out of
the passing runs by the choice of scripts and routines:

* opening a second state empties the string table of the first (`vm.c:559`), and closing one
  frees the objects of all (`vm.c:622`); `docs/embedding.md:292` calls states independent;
* the 64 host functions are for all states together and not given back (`nq_embed.cpp:246`;
  `docs/embedding.md:179` has 64 per `NqState`);
* a trampoline drops arguments past the 32nd;
* a blank line or a comment as the whole body of `try` or `catch` is rejected
  (`parser.cpp:223`, `:238`; `docs/grammar.md:169`, `docs/language.md:50`);

* calling a value that is not a function ends the program inside `try` too
  (`vm.c:1051`; `docs/language.md:471` lists it as catchable); an index past the end
  is dropped on assignment (`object.c:205`; `docs/language.md:467`);
* `vm->thrown` is not cleared when a catch takes the error (`vm.h:65` says it is), and
  `Table.count` counts tombstones (`table.h:31` says it does not);
* unrooted temporaries as in `split`: the other operand of `..` while one is turned
  into a string (`vm.c:900`), the function being compiled from the second script on
  (`compiler.cpp:445`), the value of `nq_setglobal_string` and `nq_register` while its
  name is interned (`nq_embed.cpp:146`, `:256`);
* `docs/grammar.md` puts `not` below equality, the parser and the guide above;
* a stray `end` or `else` at the top level is accepted in silence; assignment to an index of
  anything but a name, and a statement that is an expression not headed by a name, are not
  accepted at all (`parser.cpp:281`–`330`);
* the REPL's block count compares whole lines: `end # done`, `trying = 1` and `if(x)` are
  counted otherwise than the parser reads them (`repl.cpp:12`); a line that does not fit the
  buffer is dropped and the entry goes on without it (`repl.cpp:104`);
* `import` as the 257th constant takes another constant's index (`compiler.cpp:415`,
  without the test of `emitConst`; `docs/vm_design.md:311`);
* an error inside a built-in is raised in the state opened last (`vm.c:559`,
  `g_vm_for_error`), whichever state runs;
* `file_write` and `file_append` throw where `docs/language.md:609` has them return false;
* `nq_call` prints its result and always hands out nil (`nq_embed.cpp:159`;
  `include/nolqu.h:113` has the result in `*result`); `nq_string`
  (`docs/embedding.md:111`) is not in `nolqu.h`;
* `nq_close` leaves `nq_gc_vm` pointing at the closed state (`vm.c:620`).

## 7. Plan

1. Core: `HashTable`, `Compiler`/`VM`/`Session`, `Heap`, their runs, the proofs about
   `HashTable` and `Heap`. *Done.*
2. Breadth: `InternTable`; `Lexer`, `Parser`, `Grammar`, `Repl`; `Natives` against
   `Library`; constant pools and their limits; `Embedding`; the proofs about `InternTable`
   and `Embedding`, and of `StringsInterned`. *Done.*
3. Proofs: of the frames, locals, handlers and values of `VM` for all sound code; of `Repl`;
   that all compiled code is verified. *Done.*
4. Open: bytes and threshold of `memory.c`; nested runs and `nq_call`; `InternTable` as a
   refinement of the set in `Heap`; `Semantics`, `Lexer` and `Parser` without RECURSIVE, so that
   what `Session` and `Reading` only check could be stated for every tree.
