CONSTANTS
  Branching = 2
  Extras = 2
  Short = 1
  PastEnd = "wild"
  Names = {"x"}
  Literals = {1, 2, 5, 7}
  MaxCount = 10
  AppendShort = FALSE
  CutTall = "never"
SPECIFICATION Spec
INVARIANTS WellFormed SizesExact UnsizedFull HeadUntouched ConcatAgrees SliceAgrees
