SPECIFICATION ManagerSpec
CONSTANTS
  testWorkflows <- FourTests
  Locked <- Lockers
  Skipped <- Skippers
  Beta <- BetaTests
  Zones = 2
  testProjects = {p1}
  parallelCount = 2
  testPackages <- Packages
  Flags <- CommandLines
  Arch <- ArchOf
  getTestSuiteName <- SuiteName
INVARIANTS
  LockedApart
  NothingLeft
  EveryTestReported
  Chosen
  ExitTellsTheTruth
PROPERTIES
  SerialBeforeDelete
  ManagerEnds
