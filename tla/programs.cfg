SPECIFICATION ProgramsSpec
CONSTANTS
  Block = 6
  Length <- MCLength
  Names <- MCNames
  ACTUAL_MAX_DIRS = 4
  HighFd = 3
  Depth = 2
  Requests = {3}
  Texts <- MCTexts
  BUFSIZE = 3
  Spelling <- MCSpelling
  NUL = "NUL"
  LF = "LF"
INVARIANTS ReadsInBounds DoesItsWork SearchesAll FindsLines
PROPERTIES ProgramsEnd
