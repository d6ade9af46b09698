\* The pump, the machine and the echo row with an arbitrary peer.
CONSTANTS
    SessionIds = {s1}
    RequestIds = {r1, r2}
    NoSession = NoSession
    NonString = NonString
    NoOption = NoOption
    NoDecision = NoDecision
    NoRequest = NoRequest
    Params <- PumpParams
    Buffers = {b1}
    FileBuffers = {b1}
    MaxQueue = 2
    MaxRequests = 4
    MaxPrompts = 2
    MaxSpawns = 2
    MaxBatch = 2
    MaxBacklog = 3
    Conforming = FALSE
SPECIFICATION Spec
INVARIANTS TypeOK RequestsReachUser PayloadsAgree CancelFindsNothing NoStateError OneRequestInFlight PromptsAccounted TranscriptFollowsSession AutoApprovalNeedsConsent
