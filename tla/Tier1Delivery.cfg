SPECIFICATION Spec
CONSTANTS
    Instruments = {"tier_1", "combined"}
    g1 = g1
    s1 = s1
    Bank <- MCBank
    NoQuestion = NoQuestion
    Requests = {r1, r2}
    Workers = {w1, w2}
    MaxDeaths <- MCMaxDeaths
    NoReport = NoReport
    EditWindow = 1
    DraftLife = 1
    JobTime = 0
    MaxTime = 1
INVARIANTS
    QueuedPartsAreFinished
    LastPartIsQueuedOnce
PROPERTIES
    CompletionIsNoticed
    GenerationSpec
CHECK_DEADLOCK FALSE
