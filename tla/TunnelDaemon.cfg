SPECIFICATION FairSpec
CONSTANTS
  p1 = p1
  p2 = p2
  b1 = b1
  b2 = b2
  port1 = port1
  port2 = port2
  NoEntry = NoEntry
  NoBuf = NoBuf
  Procs = {p1, p2}
  Persistent = {p1}
  Bookmarks = {b1, b2}
  Of <- TwoOf
  Ports <- TwoPorts
  Cmds = {c1}
  MaxDelay = 2
  MaxCount = 1
  MaxFaults = 1
  Kills = TRUE
CHECK_DEADLOCK FALSE
INVARIANTS AllListed
PROPERTIES Reconnects
