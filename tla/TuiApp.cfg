CONSTANTS
  Names = {"prod-a", "b", "c"}
  SNames = {"x"}
  Detect <- MCDetect
  MaxSess = 1
  InitConfigs <- MCInitConfigs
  Queries = {"", "b"}
  InitStored = {1}
  MaxId = 3
  MaxFaults = 1
  MaxOpens = 2
  MaxLeaves = 1
  MaxSaves = 2
SPECIFICATION Spec
INVARIANTS IndexMeansEntry DrawnIsMeant PasswordFollows ConnectionsStayHome
CONSTRAINT Near
