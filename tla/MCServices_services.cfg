SPECIFICATION ServicesSpec
CONSTANTS
  Scopes = {"secrets", "verification", "provisioning", "site", "disputes", "matrix", "consent", "comms",
    "calendar", "brands"}
  i1 = i1  i2 = i2  j1 = j1  j2 = j2  d1 = d1  r1 = r1
  pa = pa  pb = pb  m1 = m1  m2 = m2  m3 = m3  b1 = b1  b2 = b2
  Legs <- TwoLegs
  FileLegs = {"age"}
  Clients = {i1, i2}
  MaxKeys = 2
  MaxCalls = 3
  Handlers = {i1, i2}
  AttemptLimit = 1
  MaxAttempts = 3
  MaxRequests = 4
  Signups = {i1, i2}
  Addresses = {j1, j2}
  Deferrable = FALSE
  SiteEventIds = {i1, i2}
  Sweepers = {j1, j2}
  Retention = 3
  LastDay = 3
  Disputes = {d1}
  DisputeOperators = {i1, i2}
  MaxTransactions = 5
  MatrixPrompts = {pa}
  Models = {m1, m2, m3}
  ProviderOf <- TwoProviders
  CallPermits = 2
  Requests = {r1}
  Commands = {i1, i2}
  MaxEvents = 3
  MaxKeks = 2
  MaxCallers = 3
  Mailers = {i1, i2}
  Pages = {j1, j2}
  MaxMail = 3
  Brands = {b1, b2}
  PromptNames = {pa, pb}
  Configured = b1
  Editors = {i1, i2}
  MaxEdits = 3
  DayLength = 3
  WeekLength = 2
  Horizon = 5
  MaxEvery = 3
  MaxInstant = 8
SYMMETRY Alike
CHECK_DEADLOCK FALSE
INVARIANTS
  SealedStaysReadable ShredTakesEffect
  ClaimRestsOnProof SpentTokenVerifies HourlyLimitHolds
  SagaTellsTruth
  RollupsAreWhole
  TrailTellsDispute
  SuccessIsStored
  OptOutHolds
  UnsubscribeHolds DeliveredOnce
  NextIsFirstSlot
  RunsKeepTheirPrompt IdsAreDerived
