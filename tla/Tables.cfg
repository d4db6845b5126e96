SPECIFICATION TablesSpec
CONSTANTS
  k1 = k1
  k2 = k2
  k3 = k3
  k4 = k4
  s1 = s1
  s2 = s2
  Key = {k1, k2, k3}
  NoKey = NoKey
  Nil = Nil
  True = True
  Absent = Absent
  Value = {Nil, True}
  Text = {k1, k2, k3, k4}
  Address = {1, 2, 3, 4}
  NoString = NoString
  Free = Free
  Hash <- MCHash
  MinCapacity = 2
  State = {s1, s2}
  Name = {"f", "g"}
  HostFn = {1, 2}
  Plain <- MCPlain
  Arguments <- MCArguments
  MaxArgs = 2
  MaxNatives = 2
  NoContext = NoContext
INVARIANTS
  TypeOK
  ProbesEnd
  KeysReachable
  CopyAgrees
  StringTypeOK
  SearchesEnd
  StringsFound
  ContextsOwned
PROPERTIES
  ImplementsMap
  ImplementsInterning
  ImplementsHosting
