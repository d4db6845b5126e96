\* Every script of the family that reaches a limit.
SPECIFICATION SSpec
CONSTANTS
  LocalsMax = 5
  ByteRange = 16
  Expr <- CompileExpr
  Exprs <- CompileExprs
  Node <- CompileNode
  Nodes <- CompileBlock
  Params <- AddParams
  RunsMax = 1
  StackMax = 16
  FramesMax = 6
  TryMax = 3
  Programs <- MCPrograms
  Code <- MCCode
  Given <- MCGiven
INVARIANTS
  StackBounded
  TablesBounded
  CutShort
PROPERTIES
  RunsEnd
