\* A run of every script from a fresh VM, and four runs on one VM of the scripts
\* that share globals, in any order, by each of the other hosts.
SPECIFICATION SSpec
CONSTANTS
  LocalsMax = 8
  ByteRange = 256
  Expr <- CompileExpr
  Exprs <- CompileExprs
  Node <- CompileNode
  Nodes <- CompileBlock
  Params <- AddParams
  RunsMax = 4
  StackMax = 32
  FramesMax = 12
  TryMax = 4
  Programs <- MCPrograms
  Code <- MCCode
  Given <- MCGiven
INVARIANTS
  OutputAsMeant
  ResultAsMeant
  GlobalsAsMeant
  FramesStacked
  LocalsLive
  HandlersLive
  NothingLeft
  CodeVerified
  TypeOK
  FunctionsCalled
PROPERTIES
  CallersUntouched
