SPECIFICATION FairSpec
CONSTANTS
  s1 = s1
  s2 = s2
  light = light
  deep = deep
  pro = pro
  Senders <- MCSenders
  Aliases <- MCAliases
  Permitted <- MCPermitted
  Rate <- MCRate
  MaxRate = 2
  MaxTokens = 1
  MaxSideCost = 1
  MaxSteps = 2
  PerRun = 1
  PerSession = 2
  MaxSends = 2
  MaxRestarts = 1
INVARIANTS
  OvershootBounded
  LedgerMatchesBill
PROPERTY
  EveryTurnGetsVerdict
CHECK_DEADLOCK FALSE
