SPECIFICATION Spec
CONSTANTS
  Groups = 2
  NUM_RX_BUFS = 3
  AllocOutcomes = {0, 1, 3}
  FrameKinds = {"good"}
  MaxFaults = 0
INVARIANT CreditedSlotsHoldBuffers
