CONSTANTS
  HalfSize = 64
  LitLen <- HalfOfEight
  LastByte = {"zero"}
  RegisterCount = 3
  StackDepth = 2
  Opcodes = {"store", "concat", "mov", "gc_collect"}
  Branching = 1
  Functions = {1}
  Module <- MainOnly
  Immediates = {}
  MaxArgs = 0
  Arities = {0}
  TextLengths = {8}
  PathMax = 0
  ClosureReads = "fresh"
SPECIFICATION Spec
INVARIANTS StringsIntact
