CONSTANTS
  MaxLen = 5
  Sizes = {2, 3}
  ReportMod = 4
  Instances = 2
  MaxParents = 2
SPECIFICATION Spec
INVARIANT CompleteElements
