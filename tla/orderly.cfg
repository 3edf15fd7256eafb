SPECIFICATION Spec
CONSTANTS
  MaxProc = 6
  NoPcb = NoPcb
  NoFrame = NoFrame
  Freedoms = {}
INVARIANTS PageFollowsScreen ParentChain NeverWild
PROPERTIES EveryTerminalServed KeepsSessions
