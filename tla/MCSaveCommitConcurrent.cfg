SPECIFICATION Spec
CONSTANTS
  Routes = {"UPLOAD", "ADMIN"}
  Workers = {t1, t2}
  ClientKeys = {u1, u2}
  Bodies = {x, y}
  InitialBody = x
  BackupGenerations = 1
  FreshBodies = FALSE
  MaxRevision = 3
  MaxFence = 0
  MaxLogins = 1
  MaxFaults = 0
SYMMETRY Symmetry
INVARIANTS OneWinnerPerRevision AcknowledgedIsApplied ReplayIsOwnResult
PROPERTIES ImplementsVersionedSave
