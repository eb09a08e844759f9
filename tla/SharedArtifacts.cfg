SPECIFICATION SharedSpec
CONSTANTS
  MaxAttempts = 2
  Poster = {p1, p2}
  NoPoster = NoPoster
  PageSize = 2
  MaxForeign = 2
  Tracker = {r1, r2}
  NoTracker = NoTracker
  Fingerprint = {f1, f2}
  SearchPage = 2
  Plan <- MCPlan
  Path <- MCPath
  MaxHand = 2
  MaxCommands = 2
  MaxProposals = 2
  Score = {90, 70}
  Threshold = {50}
  MaxMarks = 2
CHECK_DEADLOCK FALSE
INVARIANTS
  SharedTypeOK
  OneSummary
  IssuesFollowFindings
  
  ActionsFollowEvidence

  
