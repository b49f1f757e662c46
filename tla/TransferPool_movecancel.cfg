CONSTANTS
  Files = {f1, f2, f3}
  Zero = {}
  Existing = {}
  InDir = {f1, f2, f3}
  Workers = {w1}
  Extra = {}
  QueueCap = 1
  Upload = FALSE
  Move = TRUE
  Faults = FALSE
  Answers = {"overwrite"}
  Keys = {"cancel"}
  NoFile = NoFile
  NoWorker = NoWorker
SPECIFICATION Spec
INVARIANTS
  MoveKeepsData
CHECK_DEADLOCK FALSE
