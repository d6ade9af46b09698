\* The loop, two children and their threads, with crashes of everything.
CONSTANTS
    MaxChildren = 2
    MaxChunks = 1
    MaxErrors = 0
    MaxFailures = 1
    Sizes = {small}
    NoSize = NoSize
    MaxKeys = 2
    MaxResizes = 0
SPECIFICATION Spec
INVARIANTS LoopTypeOK EventsAreCurrent NoOrphans NoOutputLost
PROPERTY LifeImplemented
