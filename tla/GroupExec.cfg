CONSTANTS
  Conns = {c1, c2, c3}
  c1 = c1
  c2 = c2
  c3 = c3
  h1 = h1
  h2 = h2
  j = j
  k1 = k1
  k2 = k2
  good = good
  bad = bad
  None = None
  Target <- MCTarget
  Jump <- MCJump
  Identity = {c2}
  Mux = {c3}
  Shows <- MCShows
  CheckMode = "strict"
  InitHosts <- MCHosts
  InitKc <- MCKc
  Good <- MCGood
  Passwords = {good, bad}
  Edited <- MCEdited
  Limit = 1
  Codes = {0}
SPECIFICATION Spec
INVARIANT UpOnlyTrusted
PROPERTIES DeletedOnlyRefused AllHostsAnswer
