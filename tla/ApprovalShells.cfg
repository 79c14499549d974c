SPECIFICATION ShellsSpec
CONSTANTS
  r1 = r1
  r2 = r2
  p1 = p1
  p2 = p2
  python = python
  NoScope = NoScope
  NoPrompt = NoPrompt
  MaxPosts = 1
  MaxClicks = 2
  Requests <- MCRequests
  Scopes <- MCScopes
  Shells <- MCShells
  Movers <- MCMovers
SYMMETRY Symmetry
INVARIANTS AnswersAreClicks AnsweredPromptClears
CHECK_DEADLOCK FALSE
