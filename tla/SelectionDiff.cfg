SPECIFICATION ProjectSpec
CONSTANTS
  Requested <- MCRequested
  Registered <- MCRegistered
  MaxThreads = 2
  Outcomes <- MCOutcomes
  Formats <- MCFormats
  Policy <- MCPolicy
  Run = {r1, r2, r3}
  Nobody = Nobody
  MaxKilled = 1
  File = {f1, f2}
  MaxChanged = 1
  GrepLimit = 5
  Configs <- MCConfigs
  Suite <- MCSuite
  Tab = {t1, t2}
  SloppyTab = {t2}
  MaxBuffer = 2
  Threshold = 3
  MaxEvents = 4
  MaxMillis = 1
  MaxKills = 1
INVARIANT DiffKeepsGates
CHECK_DEADLOCK FALSE
