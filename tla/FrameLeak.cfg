\* After FramesMax runs one returns OK and has executed nothing.
SPECIFICATION SSpec
CONSTANTS
  LocalsMax = 8
  ByteRange = 256
  Expr <- CompileExpr
  Exprs <- CompileExprs
  Node <- CompileNode
  Nodes <- CompileBlock
  Params <- AddParams
  RunsMax = 6
  StackMax = 16
  FramesMax = 4
  TryMax = 4
  Programs <- PrintOne
  Code <- PrintOneCode
  Given <- PrintOneGiven
INVARIANT OutputAsMeant
