SPECIFICATION MFairSpec
CONSTANTS
  Request = {r1, r2}
  Foreign = {}
  NoRequest = NoRequest
  Retention = 3
  MaxSequence = 6
  InitialHead = 0
  MaxCalls = 1
  MaxFaults = 1
PROPERTY RecoverySettles
