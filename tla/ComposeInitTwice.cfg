SPECIFICATION Spec
CONSTANTS
  Order <- MigrateFirst
  InitService <- AppInit
  Optional <- AppOptional
  Depends <- AppDepends
  Definition <- AppDefinition
  DocumentOf <- TwoGenerations
  MaxAttempts = 2
  MaxFaults = 0
  MaxCrashes = 0
  MaxForces = 0
PROPERTY InitNeverRepeats
