CONSTANTS
    Minute = 2
    Hour = 2
    Day = 2
    DayWrap = 2
    Week = 2
    WeekWrap = 2
    Bits = 2
    Length = 2
    MaxCycles = 2
    MaxCalls = 2
    MaxAssists = 2
    MaxDelta = 1
    Rams = {16}
    MaxTarget = 18
    PadsOf <- Owners
    Fingerprint <- Makes
    MaxDevices = 2
    Bindings <- Layout
    MaxOrdinal = 1
    MaxInFlight = 1
    Servers = {"s", "t"}
    Passwords = {1, 2}
    NoKeys <- NoKeysYet
    StoredKeys <- PadEnters
    MaxDelay = 1
    MaxFaults = 1
    MaxChanges = 1
    GbLabels <- GbAsked
    GbLayout <- GbRead
    N64Labels <- N64Asked
    N64Layout <- N64Read
    Utils <- UtilKeys
    Aliases <- AliasKeys
    Controllers = 2
    Keyboard <- KeysPressed
    SDL_GetKeyName <- KeyTexts
    SDL_GetScancodeName <- PlaceTexts
    TextsAtCommas <- CommaTexts
    SDLK_ESCAPE = 27
    SDLK_RETURN = 13
    SDLK_KP_ENTER = 88
    Reserved = {13, 27, 88}
    PadNames = {"p", "q"}
    AxisAt <- AxisPlaces
    Threshold = 1
    MaxBindingDevices = 2
    FirstKeys <- FirstLayouts
    MaxCaptures = 1
SPECIFICATION MCSpec
INVARIANTS CableIsTrue ClockIsTrue InputIsTrue  RememberedIsTrue
PROPERTIES FrameEnds PadsKeepTheirIdentity SectionsAreKept
CHECK_DEADLOCK FALSE
