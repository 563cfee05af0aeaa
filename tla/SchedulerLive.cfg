SPECIFICATION FairSpec
CONSTANTS
  a = a  b = b  bad = bad  odd = odd
  r1 = r1  r2 = r2  r3 = r3
  c1 = c1  c2 = c2
  State = {a}
  Malformed = {}
  Unreadable = {}
  Generation <- Generations
  NoRequest = NoRequest  NoState = NoState  NoTarget = NoTarget
  Request = {r1, r2, r3}
  Client = {c1, c2}
  TerminalLimit = 1
  Triggers = {"migration", "boot"}
  Faults = {}
  MaxCrashes = 1
PROPERTIES FinishedIsFinal EveryWaitAnswered EveryRequestEnds
