CONSTANTS
  HalfSize = 60
  LitLen <- OneText
  LastByte = {"zero", "stale"}
  RegisterCount = 2
  StackDepth = 2
  Opcodes = {"store", "tuple", "concat", "mov", "gc_collect", "tuple_nth", "return", "string_slice", "to_string", "file_pwd"}
  Branching = 1
  Functions = {1}
  Module <- MainOnly
  Immediates = {}
  MaxArgs = 1
  Arities = {1}
  TextLengths = {19, 38}
  PathMax = 32
  ClosureReads = "fresh"
SPECIFICATION Spec
INVARIANTS TypeOK HeapClosed ForwardSound NoGarbage HeapFits UsageNeverGrows
PROPERTIES CollectFits CollectKeepsGraph ImplementsStore
