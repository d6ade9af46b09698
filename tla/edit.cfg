\* One buffer, a full kill ring and a full undo history.
CONSTANTS
    Char = {"a", "b", "cr", "newline"}
    CR = "cr"
    NewLine = "newline"
    InitTexts <- Files
    InsertTexts <- Typed
    OtherTexts <- Foreign
    KILL_RING_CAPACITY = 2
    UNDO_CAPACITY = 2
    NoMark = NoMark
    NoText = NoText
    Damaged = Damaged
    MaxCommands = 6
    MaxOrdinary = 4
SPECIFICATION Spec
INVARIANTS EditTypeOK UndoTimeline CleanMeansSaved KillsAppend YankPopReplacesYank
PROPERTY UndoKeepsDirection
