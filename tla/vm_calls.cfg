CONSTANTS
  HalfSize = 91
  LitLen <- NoLiterals
  LastByte = {"zero", "stale"}
  RegisterCount = 2
  StackDepth = 3
  Opcodes = {"anon_fn", "mov", "call", "call_local", "return"}
  Branching = 1
  Functions = {1, 2, 3}
  Module <- Library
  Immediates = {}
  MaxArgs = 1
  Arities = {1}
  TextLengths = {}
  PathMax = 0
  ClosureReads = "fresh"
SPECIFICATION Spec
INVARIANTS CleanAbove HeapClosed
PROPERTIES ImplementsObjects OpcodeEnds
