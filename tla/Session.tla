------------------------------ MODULE Session ------------------------------
(***************************************************************************)
(* The compiler and the VM against the language: scripts are compiled,     *)
(* a host runs them one after the other on one VM, and beside it a store   *)
(* is kept of what the same scripts mean.                                  *)
(***************************************************************************)
EXTENDS Bytecode
LOCAL Q == INSTANCE SequencesExt
LOCAL M == INSTANCE Semantics

CONSTANT Programs   \* Programs[s]: the syntax tree of script s

VARIABLES
  store,     \* the globals, arrays, files and output the runs so far should leave
  meant      \* how the last run should have ended

sessionVars == <<vars, store, meant>>

SInit == Init /\ store = M!FreshStore /\ meant = "ok"

Meant(s) ==
  LET meaning == M!Meaning(Programs[s], store)
  IN store' = meaning.st /\ meant' = meaning.how

SNext ==
  \/ Ready /\ \E s \in Scripts : StartRun(s) /\ Meant(s)
  \/ /\ \/ Execute
        \/ TakeResult
        \/ Ready /\ \E s \in Scripts : RejectScript(s)
        \/ Rest
     /\ UNCHANGED <<store, meant>>

SSpec == SInit /\ [][SNext]_sessionVars /\ WF_sessionVars(Execute /\ UNCHANGED <<store, meant>>)

-----------------------------------------------------------------------------
Returned == status = "returned"

\* What a run prints is, in order, what its script means to print; when it
\* returns it has printed all of it.
OutputAsMeant ==
  status \in {"running", "returned"} =>
    /\ Q!IsPrefix(out, store.out)
    /\ Returned => out = store.out

\* runVM returns INTERPRET_OK for the scripts that end normally, and an
\* error for those that end in an uncaught or an uncatchable one.
ResultAsMeant ==
  Returned => (result = "OK" <=> meant = "ok")

\* Each run leaves the globals, the arrays they hold and the files as its script
\* means to leave them, whatever error it ended in: the next starts from them.
GlobalsAsMeant ==
  Returned =>
    /\ files = store.files
    /\ DOMAIN globals = DOMAIN store.globals
    /\ \A x \in DOMAIN globals :
         Shown(globals[x], heap) = Shown(store.globals[x], store.heap)

-----------------------------------------------------------------------------
\* At a limit a run is aborted: what it printed is a beginning of what the
\* script means to print, and it does not return OK.
CutShort ==
  status # "idle" =>
    /\ Q!IsPrefix(out, store.out)
    /\ Returned /\ out # store.out => result = "RUNTIME_ERROR"

\* Every run comes to an end.
RunsEnd == status = "running" ~> status # "running"

-----------------------------------------------------------------------------
\* vm_design.md:166: a handler lives from its OP_TRY to its OP_TRY_END or its
\* error, and so no longer than the frame that opened it.
HandlersClosed == \A i \in DOMAIN handlers : handlers[i].frames <= depth
=============================================================================
