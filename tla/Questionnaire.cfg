SPECIFICATION Spec
CONSTANTS
    Tabs = {t1, t2}
    Role = "BOARD"
    Instrument = "combined"
    Tier = "tier_2"
    Slice <- MCSlice
    Selections <- MCSelections
    MaxEdits = 1
INVARIANTS
    TypeOK
    CompletionIsNotMissed
    ReopenedOnlyByAnEdit
    ProgressIsRepaired
    AskedInOrder
    SecurityAuditIsAnswered
PROPERTIES
    KeepAnsweringAndFinish
CHECK_DEADLOCK FALSE
