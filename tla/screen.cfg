\* The message about an undefined key never reaches the screen.
CONSTANTS
    RequestIds = {r1, r2}
    NonString = NonString
    NoOption = NoOption
    NoDecision = NoDecision
    NoRequest = NoRequest
    Params <- OnePayload
    Buffers = {b1}
    FileBuffers = {b1}
    MaxQueue = 2
    Bytes <- SomeBytes
SPECIFICATION Spec
INVARIANT ScreenShowsFrame
