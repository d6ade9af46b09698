\* Any peer: every permission request is answered.
CONSTANTS
    SessionIds = {s1}
    RequestIds = {r1, r2}
    NoSession = NoSession
    NonString = NonString
    NoOption = NoOption
    NoDecision = NoDecision
    NoRequest = NoRequest
    Params <- OnePayload
    Buffers = {b1}
    FileBuffers = {b1}
    MaxQueue = 2
    MaxRequests = 3
    MaxPrompts = 1
    MaxSpawns = 1
    MaxBatch = 1
    MaxBacklog = 1
    Conforming = FALSE
SPECIFICATION UserFairSpec
PROPERTY RequestsAnswered
