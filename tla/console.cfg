SPECIFICATION Spec
CONSTANTS
  WordBits = 8
  Memory = 10
  NUM_COLS = 3
  NUM_ROWS = 2
  Terms = 2
  TabWidth = 2
  KeybMax = 1
  Unbounded <- MCDigits
  LineMax = 2
  MaxLeft = 4
  Keys <- MCKeys
  Messages <- MCMessages
  Freedoms = {}
INVARIANTS ShowsItsText CursorAtEnd NeverBeforeScreen LibraryRight
