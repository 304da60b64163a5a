CONSTANTS
    Lines = {"timer", "gpio"}
    Pins = {33, 34}
    Kinds = {"RisingEdge", "AsyncFallingEdge"}
    PinModes <- MCModes
    Period = 2
    MaxLate = 2
    CHANNEL_OUT = 8
    OtherChannel = 1
    Buffer = "page"
    OtherBuffer = "elsewhere"
    Tags = {"memory", "model", "gpio"}
    ParameterTags = {"gpio"}
    KnownTags = {"memory"}
    Boot <- MCBoot
    Depth = 2
    MaxNotices = 2
SPECIFICATION Spec
VIEW Relevant
INVARIANTS
    NoHandlerMissing
    SourcesMatchPins
    EventsAreServed
    TicksAreKept
    TagsAreAnswered
CHECK_DEADLOCK FALSE
