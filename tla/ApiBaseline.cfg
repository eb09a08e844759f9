SPECIFICATION PartsSpec
CONSTANTS
  ApiRuns = 3
  MaxTrouble = 0
  OpenApi <- MCOpenApi
  Graphql <- MCGraphql
  Missing = Missing
  Damaged = Damaged
  Entry = {e1}
  Visitor = {v1}
  NoFile = NoFile
  CutOff = CutOff
  MaxVisits = 1
  Shot = {1}
  Picture = {plain}
  Blank = Blank
  Accepter = {a1}
  Differ = {d1}
  MaxAccepts = 1
  Lockfile = {l1}
  Component = {c1}
  Vuln <- MCVuln
  BatchSize = 1
  MaxFindings = 2
  Module = {comp}
  Compliance = comp
  Threads = 1
  MaxTime = 0
  MaxStepsBack = 0
  Route <- MCRoute
  Slug <- MCSlug
  Request <- MCRequest
  Latency = {3}
  Loads = 1
  MinSamples = 1
  Budget = 2
  Path = {"p1", "p2"}
  RouteLists <- MCRouteLists
  Selections <- MCSelections
  Severities = {"critical"}
  MaxFlips = 0
  Event <- MCEvent
  CategoryOf <- MCCategoryOf
  Choice <- MCChoice
  Requested <- MCRequested
  MaxLines = 0
  MaxRewrites = 0
  Address <- MCAddress
  Nothing = Nothing
  HintsAt <- MCHintsAt
  CollectionAt <- MCCollectionAt
  DiscoveryGraph <- MCDiscoveryGraph
  Proposals <- MCProposals
  MaxProposals = 2
  Connection = {k1}
  Fault = {"f1", "f2"}
  ModuleOf <- MCModuleOf
  None = None
  MaxRuns = 1
  MaxEdits = 0
  MaxGenerations = 0
CHECK_DEADLOCK FALSE
INVARIANT
  ComparesWithPrevious
