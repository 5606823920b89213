SPECIFICATION RFairSpec
CONSTANTS
  Jobs <- SoloJobs
  Order <- SoloOrder
  Quarantined <- None
  Zones <- TwoZones
  Regions <- OneRegion
  zoneRegion <- RegionOf
  Keys <- OneKey
  CPUS = "CPUS"
  Defined <- AllDefined
  Limit <- Limits
  SafetyNum = 1
  SafetyDen = 1
  JobZones <- SoloZones
  CPUCost <- SoloCost
  BudgetKey <- SoloKey
  Networks <- SoloNothing
  Subnets <- SoloNothing
  Shape <- SoloShape
  MaxParallel <- SoloNothing
  ContainerCap = 2
  NetworksBudget = 2
  SubnetsBudget = 1
  RetriesStockout = 2
  RetriesFailure = 0
  Retries <- OneEach
  CooldownBase = 1
  QuotaPenaltyDur = 1
  RRPeriod = 1
  Outcomes <- MainOutcomes
  SaveMayFail = TRUE
  MaxInterrupts = 2
  MaxPauses = 0
  PsMayFail = TRUE
  SlowStart = TRUE
  MaxCrashes = 2
  MaxResumes = 2
INVARIANTS
  PlanMatches
PROPERTIES
  SweepsSurvive
  VerdictsSurvive
  ResumeEnds
