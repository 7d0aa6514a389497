CONSTANTS
  Site <- MCSite
  File <- MCFile
  FileOf <- MCFileOf
  CallerOf <- MCCallerOf
  Target = {"fn", "enum"}
  SiteTable = {"fn"}
  MacroSite = {"m1"}
  OutsideTargets = {"o"}
  TwinSite = {"s2"}
  Timeout = 2
  PER_REQUEST_TIMEOUT = 1
  MaxPasses = 2
  MaxFaults = 1
SPECIFICATION Spec
INVARIANTS ResolvedHasRows ReportAddsUp
PROPERTY ReasonsAreNotDowngraded
CHECK_DEADLOCK FALSE
