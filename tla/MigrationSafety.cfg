SPECIFICATION Spec
CONSTANTS
  a1 = a1
  a2 = a2
  App <- TwoApps
  StopFails = TRUE
  MayCrash = TRUE
INVARIANTS AllOrNothing NoAppLost CommittedIsFinal
SYMMETRY Symmetry
