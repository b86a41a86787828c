SPECIFICATION RFairSpec
CONSTANTS
  Writer = {w1, w2}
  NoWriter = NoWriter
  NoProof = NoProof
  MaxGeneration = 2
  MaxAttempts = 1
  RetiresHistory = TRUE
  Faults = TRUE
CHECK_DEADLOCK FALSE
INVARIANTS RTypeOK FenceHolds
PROPERTY MovesNoActiveLedger RecoversAfterTerminal SessionSettles
