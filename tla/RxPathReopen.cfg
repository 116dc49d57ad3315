SPECIFICATION PathSpec
CONSTANTS
  Groups = 2
  NUM_RX_BUFS = 2
  AllocOutcomes = {0, 2}
  FrameKinds = {"good"}
  MaxFaults = 0
  MaxCommands = 3
  MaxOpens = 2
INVARIANT NoLostWakeup
CHECK_DEADLOCK FALSE
