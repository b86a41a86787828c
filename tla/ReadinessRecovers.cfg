\* One caller, no stop, a clock that only goes forward.
SPECIFICATION RecoverySpec
CONSTANTS
  Caller = {c1}
  NoCaller = NoCaller
  DeadCaller = DeadCaller
  MaxOps = 2
  MaxNonces = 4
  MaxStops = 0
  ClockIsSetBack = FALSE
  MaxRecords = 16
  MaxAttempts = 2
CHECK_DEADLOCK FALSE
PROPERTIES UnresolvedIsRecovered
