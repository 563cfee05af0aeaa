SPECIFICATION Spec
CONSTANTS
  d1 = d1
  d2 = d2
  r1 = r1
  r2 = r2
  Repairer = {r1, r2}
  Restarter = {}
  Nobody = Nobody
  NoDoc = NoDoc
  Doc <- TwoDocs
  BadDoc <- OneBad
  MaxGen = 3
  MaxCrashes = 1
  Faults = {"artifact", "init", "start", "stop", "policy", "watch"}
CHECK_DEADLOCK FALSE
INVARIANTS TypeOK StoppedStaysDown RunsCurrentCompose RemovedIsGone HealthSettles
