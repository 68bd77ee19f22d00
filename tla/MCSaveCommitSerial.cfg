SPECIFICATION FairSpec
CONSTANTS
  Routes = {"UPLOAD", "SINGLE", "ADMIN", "PAIR"}
  Workers = {t1}
  ClientKeys = {u1}
  Bodies = {x, y, z}
  InitialBody = x
  BackupGenerations = 1
  FreshBodies = TRUE
  MaxRevision = 3
  MaxFence = 1
  MaxLogins = 2
  MaxFaults = 1
INVARIANTS StoreIsSound
PROPERTIES RetryRestoresTheSave
CHECK_DEADLOCK FALSE
