\* Two requests, an edit from outside, two interruptions or I/O failures, and
\* a retention that every second completion exceeds.
SPECIFICATION MFairSpec
CONSTANTS
  Request = {r1, r2}
  Foreign = {f1}
  NoRequest = NoRequest
  Retention = 1
  MaxSequence = 6
  InitialHead = 1
  MaxCalls = 3
  MaxFaults = 2
INVARIANTS MTypeOK EditsSurvive AcceptedIsLive LiveEditIsJournaled OneUnfinished
PROPERTIES FrozenWhileBlocked HistoryIsOrdered RecoverySettles
