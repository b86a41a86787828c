\* Two files, two effects, one foreign edit and one failing call.
SPECIFICATION USpec
CONSTANTS
  Files = {config, lock}
  Config = config
  Present = {config}
  MaxMutations = 2
  MaxForeign = 1
  MaxFaults = 1
  MaxLedgerRecords = 9
CHECK_DEADLOCK FALSE
PROPERTIES RestoresOnlyRecorded
