SPECIFICATION Spec
CONSTANTS
  Hosts = {"h", "i"}
  Clean <- MCClean
  None = None
  Insts = {"i1", "i2"}
  Names = {"a", "b"}
  Temp = {"b"}
  May <- MCMay
  Imports <- MCImports
  MaxEdits = 2
  MaxFaults = 1
  Unset = Unset
  NoFile = NoFile
  NoInst = NoInst
  Torn = Torn
CHECK_DEADLOCK FALSE
INVARIANTS LostOnlyBlindly BackupOfReplaced NamesAreUnique SourcesRead
PROPERTY ImportKeeps
