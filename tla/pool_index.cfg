SPECIFICATION Spec
CONSTANTS
  Pools = {"pool1", "pool2"}
  Keys <- MCKeys
  KeysOf <- MCKeysOf
  Virtual = {"pool2"}
  Writers = {"stream", "fetch"}
INVARIANTS
  TypeOK
  FoundUnlessRaced
  NoDanglingIndex
