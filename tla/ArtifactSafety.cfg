SPECIFICATION Spec
CONSTANTS
  p1 = p1
  p2 = p2
  Process <- Processes
  Artifact <- Drivers
  Desirable <- States
  Layers <- DriverLayers
  Identity <- DriverIdentity
  HostExt <- Drivers
  Parallel <- KnownHooks
  Builds <- TwoBuilds
  Build <- DriverBuild
  Retain = 1
  Slots = 2
  MaxFaults = 1
INVARIANTS ReadyStaysWhole AdmittedHasBlobs OneProviderPerBoot HookedFitsBoot
SYMMETRY Symmetry
