\* A child that answers: every held prompt goes out.
CONSTANTS
    SessionIds = {s1}
    RequestIds = {r1}
    NoSession = NoSession
    NonString = NonString
    NoOption = NoOption
    NoDecision = NoDecision
    NoRequest = NoRequest
    Params <- OnePayload
    Buffers = {b1}
    FileBuffers = {b1}
    MaxQueue = 2
    MaxRequests = 5
    MaxPrompts = 3
    MaxSpawns = 1
    MaxBatch = 1
    MaxBacklog = 3
    Conforming = TRUE
SPECIFICATION FairSpec
PROPERTY HeldPromptsLeave
