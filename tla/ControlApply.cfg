SPECIFICATION FairSpec
CONSTANTS
  c1 = c1
  c2 = c2
  k1 = k1
  q1 = q1
  q2 = q2
  q3 = q3
  s1 = s1
  s2 = s2
  s3 = s3
  none = none
  odd = odd
  Request = {q1, q2}
  NoRequest = NoRequest
  Command <- AllCommands
  Connector = {k1}
  Nobody = Nobody
  State = {s1, s2, s3}
  StateOf <- AllStates
  NoState = NoState
  Leftover = {q1}
  Unreadable = {s3}
  MaxResults = 4
  MaxArrivals = 2
  History = 1
  MaxLost = 1
  MaxCrashes = 1
CHECK_DEADLOCK FALSE
INVARIANTS SuccessWasApplied OneAnswer
PROPERTIES NewestPublishes EveryCommandEnds
