CONSTANTS
  Branching = 4
  Extras = 2
  Short = 1
  PastEnd = "wild"
  Names = {"x"}
  Literals = {1, 6}
  MaxCount = 10
  AppendShort = FALSE
  CutTall = "whole"
SPECIFICATION Spec
INVARIANTS ConcatAgrees SliceAgrees
