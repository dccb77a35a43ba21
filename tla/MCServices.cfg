SPECIFICATION ServicesSpec
CONSTANTS
  Visitors = {v1}
  VisitorScopes <- MCVisitorScopes
  ProductScopes <- MCProductScopes
  Limit <- MCLimit
  DayHours = 2
  Offset = 1
  MaxHour = 3
  MaxSalts = 4
  MaxSessions = 2
  None = None
  Good = Good
  Bad = Bad
  Call1 = Call1
  Call2 = Call2
  Jobs = {"job1", "job2"}
  CallsPerJob = 2
  Stop = 2
  LastMonth = 1
  NoJob = None
  Models = {"model1", "model2"}
  Missing = None
  Callers = {"call1", "call2", "call3"}
  CallKeys = {"key"}
  Requests = {"search", "page"}
  Paid = {"search"}
  DailyQuota = 2
  NoCall = None
  Keys = {Good, Bad}
  NoKey = None
  Admitted = {Good}
  WellFormed = {Good, Bad}
  Calls = {Call1, Call2}
  BaseTrip <- MCTrip
  Changes <- MCChanges
  Windows <- MCWindows
  MaxVersion = 3
  Expected <- MCExpected
  Carriers <- MCCarriers
  Platforms <- MCPlatforms
  Citations <- SearchCitations
  Hosts <- PageHosts
  MaxRedirects = 2
  MaxSize = 2
  Year = 8
  SupportedCities <- FormCities
  Inputs <- Forms
  FieldAnswers <- FormAnswers
  LastDay = 4
  PlannedBriefs <- SkeletonBriefs
  PlannerAnswers <- SkeletonAnswers
  Brief <- AssemblyBrief
  Plan <- AssemblyPlan
  Findings <- AssemblyOutcomes
  Routes <- AssemblyRoutes
  Party = 2
  Observable <- ObservedFacts
  MaxObservations = 4
  Bodies <- SentBodies
  MaxBuffer = 12
INVARIANTS
  WindowBound
  VisitorBound
  StopHolds
  LedgerIsSpent
  OpenMeansTested
  KeyNamesOneAnswer
  BilledOnce
  QuotaCovers
  ClaimsStayResolved
  UsableIsFeasible
  FinalIsBacked
  ReadyUntilItStarts
  BookingsAreKept
  OutcomeIsTrue
  VerifiedIsOfficial
  KeysAreTried
PROPERTIES
  CallsAreAnswered
  EditsStayInScope
CHECK_DEADLOCK FALSE
