SPECIFICATION Spec
CONSTANTS
  Requested <- MCRequested
  Registered <- MCRegistered
  MaxThreads = 2
  Outcomes <- MCOutcomes
  Formats <- MCFormats
  Policy <- MCPolicy
INVARIANT PassedMeansComplete
CHECK_DEADLOCK FALSE
