\* Two files, three effects, two foreign edits and two failing calls of an
\* upgrade; two callers of two operations, four bound operations and one stop.
SPECIFICATION LedgerSpec
CONSTANTS
  Files = {config, lock}
  Config = config
  Present <- InitiallyPresent
  MaxMutations = 3
  MaxForeign = 2
  MaxFaults = 2
  MaxLedgerRecords = 9
  Caller = {c1, c2}
  NoCaller = NoCaller
  DeadCaller = DeadCaller
  MaxOps = 2
  MaxNonces = 4
  MaxStops = 1
  ClockIsSetBack = TRUE
  MaxRecords = 10
  MaxAttempts = 2
SYMMETRY Alike
CHECK_DEADLOCK FALSE
INVARIANTS RecoveryTypeOK TerminalIsTrue RecoveryIsPossible AttemptsAreSound
PROPERTIES EditsArePreserved RecordsAreKept
