\* An error of a script is caught by an earlier script.
SPECIFICATION SSpec
CONSTANTS
  LocalsMax = 8
  ByteRange = 256
  Expr <- CompileExpr
  Exprs <- CompileExprs
  Node <- CompileNode
  Nodes <- CompileBlock
  Params <- AddParams
  RunsMax = 2
  StackMax = 16
  FramesMax = 4
  TryMax = 4
  Programs <- AbortInTry
  Code <- AbortInTryCode
  Given <- AbortInTryGiven
INVARIANT ResultAsMeant
