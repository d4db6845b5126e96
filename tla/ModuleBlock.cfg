\* A local of a block of a module is not what was assigned to it.
SPECIFICATION SSpec
CONSTANTS
  LocalsMax = 8
  ByteRange = 256
  Expr <- CompileExpr
  Exprs <- CompileExprs
  Node <- CompileNode
  Nodes <- CompileBlock
  Params <- AddParams
  RunsMax = 1
  StackMax = 16
  FramesMax = 4
  TryMax = 4
  Programs <- ModuleBlock
  Code <- ModuleBlockCode
  Given <- OneFile
INVARIANT OutputAsMeant
