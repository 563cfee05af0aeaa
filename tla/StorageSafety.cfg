SPECIFICATION Spec
CONSTANTS
  d1 = d1
  d2 = d2
  usb = usb
  Disk <- TwoDisks
  Usb <- usb
  MaxKeys = 2
  MaxBoots = 2
  MaxFaults = 1
  UsbVgFault = FALSE
  Deadline = TRUE
PROPERTIES DataKept CompletePoolTakesNoDisk HealthyBootMounts
SYMMETRY Symmetry
CHECK_DEADLOCK FALSE
