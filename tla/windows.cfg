\* Two windows, three buffers, a mark in one, a frame that holds both windows and one that holds one.
CONSTANTS
    Scratch = "scratch"
    AgentBase = "agent"
    LogBase = "log"
    TypedNames <- Names
    Paths = {"p"}
    Basename <- OneFile
    AcpSessions = {s1}
    Heights = {3, 7}
    MarkPositions = {1}
    MarkedBuffers <- Marked
    NoMark = NoMark
    NoPath = NoPath
    MaxLen = 1
    MaxOutput = 2
    MaxBuffers = 3
    MaxWindows = 2
SPECIFICATION Spec
INVARIANTS WindowsTypeOK FocusedWindowAgrees ChainsEndOnLeaving BuffersStayApart FrameShowsFocus
PROPERTY PeersKeepOut
