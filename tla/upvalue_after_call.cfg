CONSTANTS
  HalfSize = 128
  LitLen <- NoLiterals
  LastByte = {"zero", "stale"}
  RegisterCount = 2
  StackDepth = 4
  Opcodes = {"anon_fn", "mov", "call_local", "return"}
  Branching = 1
  Functions = {1}
  Module <- MainOnly
  Immediates = {}
  MaxArgs = 1
  Arities = {0, 1}
  TextLengths = {}
  PathMax = 0
  ClosureReads = "anytime"
SPECIFICATION Spec
INVARIANT RunsOwnUpvalues
