SPECIFICATION Spec
CONSTANTS
    People = {p1}
    NoPerson = NoPerson
    Buyers = {b1}
    Runs = {u1, u2}
    SCHEDULE <- MCSchedule
    NUDGE_COOLDOWN = 2
    RunTime = 1
    Never = Never
    MaxTime = 4
    MaxMails = 3
SYMMETRY RunSymmetry
INVARIANTS
    TypeOK
    MailsAreCounted
    SpacedUnlessRaced
PROPERTIES
    StaleListIsHarmless
CHECK_DEADLOCK FALSE
