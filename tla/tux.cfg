SPECIFICATION Spec
CONSTANTS
  BufSize = 8
  Room = 20
  Led = {"x", "y"}
  Quiet = 2
  MaxUp = 2
  Smp = FALSE
  Freedoms = {}
INVARIANTS CommandsArriveWhole DeviceFollows
PROPERTIES AckReturns
