SPECIFICATION WorkspaceSpec
CONSTANTS
  c1 = c1
  c2 = c2
  l1 = l1
  l2 = l2
  w1 = w1
  w2 = w2
  d1 = d1
  d2 = d2
  p1 = p1
  p2 = p2
  f1 = f1
  f2 = f2
  k1 = k1
  k2 = k2
  Absent = Absent
  Nobody = Nobody
  Callers <- MCCallers
  Lines <- MCLines
  Words <- MCWords
  Documented <- MCDocumented
  Paths <- MCPaths
  BaseOf <- MCBaseOf
  Bases <- MCBases
  Longer <- MCLonger
  Lengths <- MCLengths
  Scripted <- MCScripted
  Labels <- MCLabels
  Files <- MCFiles
  Commands <- MCCommands
  MaxCalls = 0
  MaxTime = 2
  MaxPages = 2
  MaxJudged = 2
  CanRasterise = FALSE
INVARIANTS
  JudgedOnItsOwn
CHECK_DEADLOCK FALSE
