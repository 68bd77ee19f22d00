SPECIFICATION Spec
CONSTANTS
  Routes = {"UPLOAD", "ADMIN"}
  Workers = {t1, t2}
  ClientKeys = {u1}
  Bodies = {x, y, z}
  InitialBody = x
  BackupGenerations = 1
  FreshBodies = TRUE
  MaxRevision = 3
  MaxFence = 0
  MaxLogins = 1
  MaxFaults = 0
INVARIANTS Recoverable
