SPECIFICATION Spec
CONSTANTS
  c1 = c1
  c2 = c2
  Callers <- MCCallers
  MaxPosts = 4
  MaxDeletes = 1
  MaxRestarts = 1
SYMMETRY MCSymmetry
INVARIANTS
  HistoryIsStored
  NothingSaidIsLost
  LiveThreadIsWhole
  ConnectorsStartOnce
  PromptsAreAnswerable
CHECK_DEADLOCK FALSE
