CONSTANTS
  Files = {f1, f2}
  Zero = {}
  Existing = {f1}
  InDir = {f1, f2}
  Workers = {w1}
  Extra = {w2}
  QueueCap = 1
  Upload = FALSE
  Move = TRUE
  Faults = TRUE
  Answers = {"overwrite", "overwriteAll", "skip", "cancel"}
  Keys = {"skip", "cancel", "abandon"}
  NoFile = NoFile
  NoWorker = NoWorker
SPECIFICATION FairSpec
INVARIANTS
  EachFileOnce
  NoHandleLeak
  OverwriteConsent
  MoveLosesOnlyUnfinished
 
CHECK_DEADLOCK FALSE
