\* Any bytes, any permission requests and any resizes.
CONSTANTS
    RequestIds = {r1, r2}
    NonString = NonString
    NoOption = NoOption
    NoDecision = NoDecision
    NoRequest = NoRequest
    Params <- AnyPayload
    Buffers = {b1, b2, scratch}
    FileBuffers = {b1, b2}
    MaxQueue = 2
    Bytes <- SomeBytes
SPECIFICATION Spec
INVARIANTS HarnessTypeOK RowIsCoherent QueueBehindPrompt OffersAreCurrent ExitKeepsWork ScreenIsFresh
PROPERTY EscapesAreInert
