SPECIFICATION FairSpec
CONSTANTS
  d1 = d1
  d2 = d2
  r1 = r1
  r2 = r2
  Repairer = {r1}
  Restarter = {r2}
  Nobody = Nobody
  NoDoc = NoDoc
  Doc <- TwoDocs
  BadDoc <- None
  MaxGen = 2
  MaxCrashes = 1
  Faults = {"artifact", "pull", "init", "start", "stop", "policy", "watch"}
CHECK_DEADLOCK FALSE
INVARIANTS StoppedStaysDown RunsCurrentCompose RemovedIsGone HealthSettles
PROPERTIES ExitedComesBack
