SPECIFICATION Spec
CONSTANTS
  a = a  b = b  bad = bad  odd = odd
  r1 = r1  r2 = r2  r3 = r3
  c1 = c1  c2 = c2
  State = {a, b}
  Malformed = {}
  Unreadable = {}
  Generation <- Generations
  NoRequest = NoRequest  NoState = NoState  NoTarget = NoTarget
  Request = {r1, r2, r3}
  Client = {c1, c2}
  TerminalLimit = 3
  Triggers = {"boot"}
  Faults = {}
  MaxCrashes = 0
INVARIANT NewestPayloadDrained
