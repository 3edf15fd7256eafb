SPECIFICATION Spec
CONSTANTS
  Block = 2
  Length <- MCLength
  Names <- MCNames
  ACTUAL_MAX_DIRS = 4
  HighFd = 3
  Depth = 2
  Requests = {1, 3, 4}
INVARIANTS OwnDescriptors ReadsFollow EndIsEnd
PROPERTIES ClockAnswers
