\* The lease: a holder, a contender and a late linker, with faults.  The
\* journal: three calls, two of which may stop.
SPECIFICATION DiskSpec
CONSTANTS
  Writer = {w1, w2, w3}
  NoWriter = NoWriter
  MaxGeneration = 3
  MaxAttempts = 2
  RetiresHistory = TRUE
  Faults = TRUE
  Session = {w1, w2, w3}
  None = None
  Initial = Initial
  MaxAborts = 2
SYMMETRY Interchangeable
VIEW LiveState
CHECK_DEADLOCK FALSE
INVARIANTS TypeOK MutualExclusion HolderOwnsLedger LedgerIsSound
INVARIANTS JTypeOK FilesAreSound OwnersAreRecorded
PROPERTIES HighWaterMonotone NoTakeover ImplementsExclusiveWriter
PROPERTIES ResidueIsFrozen ImplementsAtomicJournal
