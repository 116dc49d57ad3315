SPECIFICATION Spec
CONSTANTS
  Groups = 2
  NUM_RX_BUFS = 3
  AllocOutcomes = {0, 3}
  FrameKinds = {"good", "bad"}
  MaxFaults = 2
INVARIANTS
  TypeOK
  CreditedSlotsHoldBuffers
  NoBufferShared
  CompletionNamesItsBuffer
  NoCompletionOverwritten
  UnreadFromPos
  CreditsConserved
PROPERTY FramesInOrder
