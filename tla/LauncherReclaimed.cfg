\* One caller that stops once and then asks again.
SPECIFICATION ReclaimSpec
CONSTANTS
  Caller = {c1}
  NoCaller = NoCaller
  DeadCaller = DeadCaller
  MaxOps = 2
  MaxNonces = 4
  MaxStops = 1
  ClockIsSetBack = FALSE
  MaxRecords = 16
  MaxAttempts = 2
CHECK_DEADLOCK FALSE
PROPERTIES DeadOwnerIsReclaimed
