\* The array of split while its items are made.
SPECIFICATION Spec
CONSTANTS
  r1 = r1
  r2 = r2
  r3 = r3
  r4 = r4
  t1 = t1
  t2 = t2
  v1 = v1
  v2 = v2
  Ref = {r1, r2, r3, r4}
  NoRef = NoRef
  Text = {t1, t2}
  NoText = NoText
  Vm = {v1}
  NoVm = NoVm
  StackMax = 3
  FramesMax = 2
  Routines = {"load", "string", "split", "compile", "pressure"}
INVARIANT
  HeldKept
CHECK_DEADLOCK FALSE
SYMMETRY Alike
