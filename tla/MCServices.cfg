SPECIFICATION ServicesSpec
CONSTANTS
  None = None
  c1 = c1 c2 = c2 c3 = c3 v1 = v1 v2 = v2
  q1 = q1 q2 = q2 q3 = q3 r1 = r1 r2 = r2
  Depot = Depot Stray = Stray
  Customers = {c1, c2, c3}
  Demand <- MCDemand
  Capacity <- MCCapacity
  Cases <- MCCases
  Answers <- MCAnswers
  OtherRoutes <- MCOther
  MaxRetries = 1
  Requests = {q1, q2, q3}
  Routes = {r1, r2}
  Menu <- MCMenu
  After <- MCAfter
  Home <- MCHome
  FirstScenario <- MCFirstScenario
  FirstStored <- MCFirstStored
  Tags = {"a"}
  RecentLimit = 3
  ConstraintLimit = 1
  SolverSound = FALSE
  Mortal = {q2}
  Fruitful <- MCFruitful
  Total = 7
  Workers = 2
  PerChunk = 3
  MinPerChunk = 2
  SeedStart = 1
  MaxCrashes = 2
  MaxKills = 1
  ChunkSize = 4
  Overlap = 2
  TextLimit = 8
  Readers = {"first", "second"}
  Paths = {"a", "docs/a", "b"}
  File <- MCFile
  Lengths = {0, 2}
  Asks <- MCAsks
  Mutable = {"a"}
  Jobs = {"j1", "j2"}
  MaxInFlight = 2
  Chats = {"c1", "c2", "c3"}
  FirstChats = {"c1", "c2"}
  FirstEmpty = {"c2"}
  NobodysChat = "null"
  MaxWaiting = 1
  MaxActs = 3
INVARIANTS
  ServicesTypeOK
  DeliveredIsFeasible EventHonoured FailureIsExplicit AnswerMeans RepairIsConservative SolverIsExact
  WindowIsCurrent AuditTrail LeftoversExplained
  NothingLost DatasetIsWhole
  PassagesWhole
  DocumentsAreWhole IngestedIsFound
  SettledShowsTruth
  PanesAgree ReloadRestores
PROPERTIES
  RunWindsDown KeepsContract
  ReplansArriveValidated EventsAddUp
  AttemptsAdvance
  ChunksAdvance
  ConsoleCatchesUp JobSettles
