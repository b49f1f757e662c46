CONSTANTS
  Transfers = {t1, t2}
  SizeOf <- ThreeVersions
  MaxFailures = 2
  Kinds = {"scp", "resume", "browser"}
  None = None
SPECIFICATION PartFairSpec
INVARIANTS
  IntactWhenUndisturbed
PROPERTIES
  TargetReplacedWhole
  EventuallyPresent
CHECK_DEADLOCK FALSE
