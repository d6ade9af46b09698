\* A turn with no prompt in flight.
CONSTANTS
    SessionIds = {s1}
    RequestIds = {r1, r2}
    NoSession = NoSession
    NonString = NonString
    NoOption = NoOption
    NoDecision = NoDecision
    NoRequest = NoRequest
    Params <- PumpParams
    Buffers = {b1}
    FileBuffers = {b1}
    MaxQueue = 2
    MaxRequests = 4
    MaxPrompts = 2
    MaxSpawns = 2
    MaxBatch = 2
    MaxBacklog = 3
    Conforming = FALSE
SPECIFICATION Spec
INVARIANT TurnHasPrompt
