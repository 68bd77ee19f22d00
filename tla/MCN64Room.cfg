CONSTANTS
    MaxSessions = 1
    MaxRooms = 2
SPECIFICATION Spec
INVARIANTS ProcessIsServed EndedStaysEnded
PROPERTY LeavesOnlyWhenOut
CHECK_DEADLOCK FALSE
