SPECIFICATION Spec
CONSTANTS
    ceo = ceo
    mgr = mgr
    ic = ic
    q1 = q1
    q2 = q2
    q3 = q3
    People = {ceo, mgr, ic}
    NoPerson = NoPerson
    role <- MCRole
    Sees <- MCSees
    size_bracket = "1-25"
    Parts <- MCParts
    Requests = {r1, r2}
    Early = {ceo}
    MaxLapses = 1
SYMMETRY CoverageSymmetry
INVARIANTS
    TypeOK
    CompletionsAreAnnouncedOnce
    LastCompletionClaims
PROPERTIES
    GateSpec
CHECK_DEADLOCK FALSE
