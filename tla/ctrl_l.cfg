SPECIFICATION Spec
CONSTANTS
  Size = 2
  MaxLine = 2
  Term = {0, 1}
  Requests = {2}
  Freedoms = {"clear"}
INVARIANTS ReadsTheLine
CHECK_DEADLOCK FALSE
