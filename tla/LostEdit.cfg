SPECIFICATION Spec
CONSTANTS
  c1 = c1
  c2 = c2
  l1 = l1
  l2 = l2
  w1 = w1
  w2 = w2
  Absent = Absent
  Callers <- MCCallers
  Lines <- MCLines
  Words <- MCWords
  MaxCalls = 3
  MaxTime = 2
INVARIANT
  EditsAreUndoable
CHECK_DEADLOCK FALSE
