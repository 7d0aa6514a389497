CONSTANTS
  Files <- MCFiles
  Absent = "absent"
  Contents <- MCContents
  DirOf <- MCDirOf
  DefsOf <- MCDefsOf
  CallsOf <- MCCallsOf
  TypeNames = {"Kind"}
  LinksOf <- MCLinksOf
  BasesOf <- MCBasesOf
  GapOf <- MCGapOf
  MaxEdits = 2
  MaxCalls = 2
  MaxResolves = 2
  MaxFaults = 1
SPECIFICATION Spec
INVARIANTS ClaimsHaveRows RefreshKeepsRows NodesOfTree GapsAreCurrent
CHECK_DEADLOCK FALSE
