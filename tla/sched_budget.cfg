SPECIFICATION Spec
CONSTANTS
  Jobs <- CrowdJobs
  Order <- CrowdOrder
  Quarantined <- QuarantinedQ
  Zones <- ThreeZones
  Regions <- TwoRegions
  zoneRegion <- RegionOf
  Keys <- TwoKeys
  CPUS = "CPUS"
  Defined <- MostlyDefined
  Limit <- CrowdLimits
  SafetyNum = 1
  SafetyDen = 1
  JobZones <- CrowdZones
  CPUCost <- CrowdCost
  BudgetKey <- CrowdKey
  Networks <- CrowdNets
  Subnets <- CrowdSubnets
  Shape <- CrowdShape
  MaxParallel <- CrowdMaxParallel
  ContainerCap = 2
  NetworksBudget = 2
  SubnetsBudget = 2
  RetriesStockout = 1
  RetriesFailure = 0
  Retries <- OneEach
  CooldownBase = 1
  QuotaPenaltyDur = 2
  RRPeriod = 2
  Outcomes <- Classes
  SaveMayFail = FALSE
  MaxInterrupts = 0
  MaxPauses = 0
INVARIANTS
  NothingBelowZero
  WithinBudgets
  RunningIsInflight
  BooksBalance
PROPERTIES
  ImplementsPool
