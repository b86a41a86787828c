SPECIFICATION RSpec
CONSTANTS
  Writer = {w1, w2}
  NoWriter = NoWriter
  NoProof = NoProof
  MaxGeneration = 1
  MaxAttempts = 1
  RetiresHistory = TRUE
  Faults = FALSE
CHECK_DEADLOCK FALSE
INVARIANT RetiredTreeNotRecreated
