\* A handler outlives the function that returned out of its try block.
SPECIFICATION SSpec
CONSTANTS
  LocalsMax = 8
  ByteRange = 256
  Expr <- CompileExpr
  Exprs <- CompileExprs
  Node <- CompileNode
  Nodes <- CompileBlock
  Params <- AddParams
  RunsMax = 1
  StackMax = 16
  FramesMax = 4
  TryMax = 4
  Programs <- ReturnInTry
  Code <- ReturnInTryCode
  Given <- OneFile
INVARIANT HandlersClosed
