SPECIFICATION Spec
CONSTANTS
  d1 = d1
  d2 = d2
  r1 = r1
  r2 = r2
  Repairer = {r1}
  Restarter = {r2}
  Nobody = Nobody
  NoDoc = NoDoc
  Doc <- TwoDocs
  BadDoc <- None
  MaxGen = 2
  MaxCrashes = 0
  Faults = {}
CHECK_DEADLOCK FALSE
INVARIANTS RestartRunsCurrentCompose
