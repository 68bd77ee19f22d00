CONSTANTS
    Games <- SomeGames
    QueueCap = 3
    DecodeCap = 2
    JitterSlots = 2
    Target = 2
    MaxWire = 2
SPECIFICATION Spec
INVARIANTS StreamIsWhole ConfigIsOnItsWay
PROPERTY NoticeIsTaken
CHECK_DEADLOCK FALSE
