\* Three contenders with two attempts each for three generations; three
\* sessions that make the root, one of which may stop half way; three calls of
\* the handle, two heartbeats, one failing file-system call; four items for two
\* workers, two observations of the lease; three queries for two slots; three
\* reads.
SPECIFICATION SessionsSpec
CONSTANTS
  Session = {s1, s2, s3}
  None = None
  MaxCrashes = 1
  Calls = {c1, c2, c3}
  Beat = Beat
  MaxBeats = 2
  MaxFaults = 1
  MaxTicks = 2
  N = 4
  Concurrency = 2
  Queries = {q1, q2, q3}
  Maximum = 2
  MaxReads = 3
  Contender = {w1, w2, w3}
  NoWriter = NoWriter
  MaxGeneration = 3
  MaxAttempts = 2
  RetiresHistory = TRUE
CHECK_DEADLOCK FALSE
INVARIANTS SessionTypeOK RootConverges QuiescedIsCanonical EndingIsOrderly
  NothingIsLeftRunning OutcomesAreTrue
PROPERTIES NothingStartsLate EveryWaitEnds
