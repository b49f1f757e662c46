CONSTANTS
  Names = {"a", "b", "d"}
  SubDir = "d"
  Up = ".."
  HiddenNames = {"b"}
  Rank <- MCRank
  Fields <- MCFields
  Patterns <- MCPatterns
  LeftTop = {"a", "b", "d"}
  RightTop = {}
  SubFiles = {}
  MaxTransfers = 2
  MaxStarts = 2
  MaxAsk = 2
SPECIFICATION Spec
CONSTRAINT Near
INVARIANTS
  NoQueryLost
  KeysSeeTheScreen
PROPERTY RemovesOnlyListed
