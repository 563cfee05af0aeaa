SPECIFICATION Spec
CONSTANTS
  Order <- MigrateFirst
  InitService <- AppInit
  Optional <- AppOptional
  Depends <- AppDepends
  Definition <- AppDefinition
  DocumentOf <- ThreeGenerations
  MaxAttempts = 2
  MaxFaults = 2
  MaxCrashes = 1
  MaxForces = 1
PROPERTIES StartsAfterInits InitRunsOnce FailureSticks
