SPECIFICATION Spec
CONSTANTS
  v0 = v0
  v1 = v1
  v2 = v2
  v3 = v3
  Version <- ThreeImages
  Factory = v0
  Bad <- OneBad
  Updater = {u1, u2}
  Nobody = Nobody
  NoNum = NoNum
  MaxNum = 4
  Faults = {}
  MaxCuts = 0
CHECK_DEADLOCK FALSE
INVARIANTS CopiesTheNewImage
