SPECIFICATION Spec
CONSTANTS
  Persistent = {"default", "app", "db"}
  Snapshot = {"backup"}
  First = "default"
  Other = "app"
  Taken = "backup"
  Ring = 5
  MaxTx = 5
  MaxSeq = 5
  MaxFaults = 2
  TornDamage = FALSE
INVARIANTS InSync EvidenceFirst RepairSurvivesFault
CHECK_DEADLOCK FALSE
