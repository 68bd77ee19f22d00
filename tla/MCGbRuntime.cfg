SPECIFICATION MCSpec
CONSTANTS
    Buttons = {"A"}
    Requested <- MCRequested
    MaxWrites = 2
    HeaderNames = {"user"}
    Flags = {"paid"}
    MaxUses = 3
    Scenarios = {"battle", "news"}
    Packages <- SomePackages
    FirstFlags = {}
    Requests <- SomeRequests
    Sockets = {1}
    MaxRequests = 2
    MaxRam = 1
    MaxFaults = 1
INVARIANTS KeysAreHeld SavesAreTrue RoutesAreSound ReceiptIsTrue NoOrphan
PROPERTIES UnreadableSavIsKept
CHECK_DEADLOCK FALSE
