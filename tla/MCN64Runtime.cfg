SPECIFICATION Spec
CONSTANTS
    Slots = {1, 2}
    Carts <- SomeCarts
    MaxRuns = 2
INVARIANTS ExitIsTrue CoreOutlivesItsUsers
PROPERTIES ClientIsObeyed
CHECK_DEADLOCK FALSE
