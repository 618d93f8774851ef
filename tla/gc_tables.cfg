CONSTANTS
  HalfSize = 340
  LitLen <- NoLiterals
  LastByte = {"zero"}
  RegisterCount = 2
  StackDepth = 1
  RrbBranching = 4
  Extras = 2
  Short = 1
  Literals = {6}
  MaxCount = 12
  Cuttings <- FewCuts
SPECIFICATION Spec
INVARIANTS HeapClosed NoGarbage UsageShrinks
PROPERTIES ImplementsSequences
