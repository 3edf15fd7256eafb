SPECIFICATION Spec
CONSTANTS
  MaxProc = 6
  NoPcb = NoPcb
  NoFrame = NoFrame
  Freedoms = {"midswitch"}
INVARIANTS PidsDistinct
CHECK_DEADLOCK FALSE
