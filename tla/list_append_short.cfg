CONSTANTS
  Branching = 4
  Extras = 2
  Short = 1
  PastEnd = "wild"
  Names = {"x"}
  Literals = {1, 6}
  MaxCount = 9
  AppendShort = TRUE
  CutTall = "never"
SPECIFICATION Spec
INVARIANT ConcatAgrees
