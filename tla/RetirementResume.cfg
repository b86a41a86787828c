SPECIFICATION RFairSpec
CONSTANTS
  Writer = {w1, w2}
  NoWriter = NoWriter
  NoProof = NoProof
  MaxGeneration = 1
  MaxAttempts = 1
  RetiresHistory = TRUE
  Faults = TRUE
CHECK_DEADLOCK FALSE
PROPERTY ResumeConverges
