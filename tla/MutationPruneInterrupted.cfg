SPECIFICATION MSpec
CONSTANTS
  Request = {r1, r2}
  Foreign = {}
  NoRequest = NoRequest
  Retention = 1
  MaxSequence = 6
  InitialHead = 1
  MaxCalls = 2
  MaxFaults = 1
INVARIANT TerminalIsNotAuthority
