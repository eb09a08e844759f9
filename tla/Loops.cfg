SPECIFICATION LoopsSpec
CONSTANTS
  NoResult = NoResult
  Result = {x1, x2}
  Reader = {r1, r2}
  MaxReads = 3
  MaxCrashes = 1
  RunCap = 4
  CallerCap <- MCCallerCap
  Cost = {1, 2, 3}
  RoughCost = 1
  Capacity = 2
  Rate = 1
  MaxCalls = 4
  MaxTicks = 2
  Url = {u1, u2, u3, u4}
  Base = u1
  LeftOut = {u4}
  MaxDepth = 2
  MaxPages = 3
  Attempts = 2
  File = {f1, f2}
  Polls = 2
  MaxEdits = 4
  Site <- MCSite
  PathOf <- MCPathOf
  TokensIn <- MCTokensIn
  ScriptOf <- MCScriptOf
  AnonymousCrawls <- MCAnonymousCrawls
  MemberCrawls <- MCMemberCrawls
  Documents <- MCDocuments
CHECK_DEADLOCK FALSE
INVARIANTS
  LoopsTypeOK
  ReadingLosesNothing
  SpendIsBounded
  
  NoEditForgotten
PROPERTY LoopsProgress
