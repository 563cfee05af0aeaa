SPECIFICATION Spec
CONSTANTS
  c1 = c1
  c2 = c2
  k1 = k1
  q1 = q1
  q2 = q2
  q3 = q3
  s1 = s1
  s2 = s2
  s3 = s3
  none = none
  odd = odd
  Request = {q1, q2, q3}
  NoRequest = NoRequest
  Command <- TwoCommands
  Connector = {k1}
  Nobody = Nobody
  State = {s1, s2}
  StateOf <- TwoStates
  NoState = NoState
  Leftover = {}
  Unreadable = {}
  MaxResults = 2
  MaxArrivals = 3
  History = 1
  MaxLost = 1
  MaxCrashes = 0
CHECK_DEADLOCK FALSE
SYMMETRY Symmetry
INVARIANTS TypeOK SuccessWasApplied OneAnswer
PROPERTIES NewestPublishes
