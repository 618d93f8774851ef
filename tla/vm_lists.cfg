CONSTANTS
  HalfSize = 400
  LitLen <- ShortName
  LastByte = {"zero", "stale"}
  RegisterCount = 1
  StackDepth = 2
  Opcodes = {"store", "capture", "list", "list_nth", "file_ls", "code_load", "gc_collect"}
  Branching = 1
  Functions = {1, 2}
  Module <- TwoFunctions
  Immediates = {}
  MaxArgs = 3
  Arities = {3}
  TextLengths = {3}
  PathMax = 0
  ClosureReads = "fresh"
SPECIFICATION Spec
INVARIANTS HeapClosed NoGarbage
PROPERTIES CollectKeepsGraph ImplementsObjects
