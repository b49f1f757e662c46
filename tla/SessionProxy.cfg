CONSTANTS
  SnippetTrigger  <- MCSnippet
  BookmarkTrigger <- MCBookmark
  BrowserTrigger  <- MCBrowser
  Real   <- MCReal
  InitKc <- MCStale
  None = None
  NSnip = 2
  QCap = 1
  Keys = {"~", "b", "f", "esc", "[", "enter"}
  MaxKeys = 4
  MaxOut = 1
  Faults = TRUE
SPECIFICATION SessionSpec
INVARIANT KeysInOrder
PROPERTIES RejectedNeverSaved LeavesLoop
