SPECIFICATION FairSpec
CONSTANTS
  a = a  b = b  bad = bad  odd = odd
  r1 = r1  r2 = r2  r3 = r3
  c1 = c1  c2 = c2
  State = {a, bad, odd}
  Malformed = {bad}
  Unreadable = {odd}
  Generation <- Generations
  NoRequest = NoRequest  NoState = NoState  NoTarget = NoTarget
  Request = {r1, r2, r3}
  Client = {c1}
  TerminalLimit = 1
  Triggers = {"boot", "migration", "connect", "timer"}
  Faults = {"start", "app", "save", "device"}
  MaxCrashes = 1
INVARIANTS LiveRequestsScheduled NoLostWakeup SuccessMeansDeployed
PROPERTIES ImplementsQueue FinishedIsFinal EveryWaitAnswered
