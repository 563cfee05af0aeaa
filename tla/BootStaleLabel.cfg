SPECIFICATION Spec
CONSTANTS
  v0 = v0
  v1 = v1
  v2 = v2
  v3 = v3
  Version <- FourImages
  Factory = v0
  Bad <- OneBad
  Updater = {u1}
  Nobody = Nobody
  NoNum = NoNum
  MaxNum = 4
  Faults = {"clean"}
  MaxCuts = 0
CHECK_DEADLOCK FALSE
INVARIANTS ArmsOwnDisk
