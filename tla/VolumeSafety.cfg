SPECIFICATION Spec
CONSTANTS
  v1 = v1
  v2 = v2
  Vol <- OneVolume
  CrashInCreate = TRUE
PROPERTIES VolumeDataKept FallbackKept AppSeesItsData
