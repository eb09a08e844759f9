SPECIFICATION PartsSpec
CONSTANTS
  ApiRuns = 3
  MaxTrouble = 1
  OpenApi <- MCOpenApi
  Graphql <- MCGraphql
  Missing = Missing
  Damaged = Damaged
  Entry = {e1, e2}
  Visitor = {v1, v2}
  NoFile = NoFile
  CutOff = CutOff
  MaxVisits = 3
  Shot = {1, 2}
  Picture = {plain, bold}
  Blank = Blank
  Accepter = {a1, a2}
  Differ = {d1}
  MaxAccepts = 2
  Lockfile = {l1, l2}
  Component = {c1, c2}
  Vuln <- MCVuln
  BatchSize = 1
  MaxFindings = 1
  Module = {m1, m2, comp}
  Compliance = comp
  Threads = 2
  MaxTime = 2
  MaxStepsBack = 1
  Route <- MCRoute
  Slug <- MCSlug
  Request <- MCRequest
  Latency = {3, 9}
  Loads = 2
  MinSamples = 2
  Budget = 2
  Path = {"p1", "p2"}
  RouteLists <- MCRouteLists
  Selections <- MCSelections
  Severities = {"critical", "medium"}
  MaxFlips = 2
  Event <- MCEvent
  CategoryOf <- MCCategoryOf
  Choice <- MCChoice
  Requested <- MCRequested
  MaxLines = 2
  MaxRewrites = 2
  Address <- MCAddress
  Nothing = Nothing
  HintsAt <- MCHintsAt
  CollectionAt <- MCCollectionAt
  DiscoveryGraph <- MCDiscoveryGraph
  Proposals <- MCProposals
  MaxProposals = 2
  Connection = {k1, k2}
  Fault = {"f1", "f2"}
  ModuleOf <- MCModuleOf
  None = None
  MaxRuns = 2
  MaxEdits = 1
  MaxGenerations = 2
SYMMETRY PartsSymmetry
CHECK_DEADLOCK FALSE
INVARIANTS
  PartsTypeOK
  
  VaultKeepsSessions
  
  
  
  
