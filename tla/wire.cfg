\* Three lines from two children in chunks of any size, two agent buffers.
CONSTANTS
    Null = Null
    NotAnObject = NotAnObject
    Messages <- Spoken
    BadPayloads <- Refused
    AgentBuffers = {b1, b2}
    MaxItems = 3
    MaxOdd = 2
    MaxDeaths = 1
SPECIFICATION Spec
INVARIANTS MessagesArriveWhole TranscriptReadsRight
SYMMETRY BufferSymmetry
CHECK_DEADLOCK FALSE
