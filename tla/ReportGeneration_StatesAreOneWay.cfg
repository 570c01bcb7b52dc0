SPECIFICATION Spec
CONSTANTS
    Workers = {w1}
    DirectCalls = {d1, d2}
    Requests = {q1}
    NoReport = NoReport
    EditWindow = 3
    DraftLife = 1
    JobTime = 1
    MaxTime = 5
SYMMETRY JobSymmetry
PROPERTY
    StatesAreOneWay
CHECK_DEADLOCK FALSE
