\* One state: under collections at any allocation the operations whose objects are
\* all rooted, or all operations and collections between them.  The process ends
\* when no address is left.
SPECIFICATION HeapsSpec
CONSTANTS
  r1 = r1
  r2 = r2
  r3 = r3
  r4 = r4
  t1 = t1
  t2 = t2
  v1 = v1
  v2 = v2
  Ref = {r1, r2, r3}
  NoRef = NoRef
  Text = {t1, t2}
  NoText = NoText
  Vm = {v1}
  NoVm = NoVm
  StackMax = 3
  FramesMax = 2
  Routines = {"load", "discard", "define", "setindex", "push", "call", "return", "array", "string", "throw", "compile", "setplain", "gc", "pressure"}
INVARIANTS
  TypeOK
  NothingDangles
  HeldKept
  StringsInterned
PROPERTIES
  CollectsExactly
CHECK_DEADLOCK FALSE
SYMMETRY Alike
