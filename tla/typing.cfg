SPECIFICATION Spec
CONSTANTS
  Size = 1
  MaxLine = 2
  Term = {0, 1}
  Requests = {2}
  Freedoms = {}
INVARIANTS BufferHoldsLine ReadsTheLine
PROPERTIES AnswersEnter
