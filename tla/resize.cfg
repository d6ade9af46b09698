\* The terminal is resized while the loop starts and runs; no agent.
CONSTANTS
    MaxChildren = 0
    MaxChunks = 0
    MaxErrors = 0
    MaxFailures = 1
    Sizes = {small, medium, large}
    NoSize = NoSize
    MaxKeys = 1
    MaxResizes = 3
SPECIFICATION FairSpec
PROPERTY FrameFollowsTerminal
