SPECIFICATION FairSpec
CONSTANTS
  v0 = v0
  v1 = v1
  v2 = v2
  v3 = v3
  Version <- ThreeImages
  Factory = v0
  Bad <- OneBad
  Updater = {u1, u2}
  Nobody = Nobody
  NoNum = NoNum
  MaxNum = 4
  Faults = {"power", "write"}
  MaxCuts = 2
CHECK_DEADLOCK FALSE
INVARIANTS FallsBackToProven
PROPERTIES BadTrialRollsBack GoodTrialKept
