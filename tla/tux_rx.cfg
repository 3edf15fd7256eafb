SPECIFICATION RxSpec
CONSTANTS
  RxSize = 7
  Cap = 6
  MaxChunk = 6
  Packet = {"x", "y"}
  MaxWire = 7
  Bursts = FALSE
CONSTRAINT Unspilt
INVARIANTS StreamIntact HandledOnArrival
