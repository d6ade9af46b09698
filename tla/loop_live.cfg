\* One child and its threads, scheduled fairly.
CONSTANTS
    MaxChildren = 1
    MaxChunks = 1
    MaxErrors = 1
    MaxFailures = 1
    Sizes = {small}
    NoSize = NoSize
    MaxKeys = 1
    MaxResizes = 0
SPECIFICATION FairSpec
PROPERTIES DeathNoticed ThreadsEnd
