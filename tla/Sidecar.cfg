SPECIFICATION FairSpec
CONSTANTS
  MaxFailures <- MCMaxFailures
  MaxUserRestarts = 1
  MaxHealthyRuns = 1
INVARIANTS
  TypeOK
  OneSidecar
  DeathsAreNoticed
  EndpointIsCurrent
  CrashLoopEnds
PROPERTIES
  WindowSettles
  RestartHappens
  NoOrphan
CHECK_DEADLOCK FALSE
