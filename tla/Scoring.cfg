SPECIFICATION Spec
CONSTANTS
    r1 = r1
    r2 = r2
    Respondents = {r1, r2}
    RoleOf <- MCRoleOf
    Questions <- MCQuestions
    Selections <- MCSelections
    MaxEdits = 1
    MaxReports = 2
INVARIANTS
    TypeOK
    ScoresAreMeans
    CombiningIsFair
    ScoresWhatWasAsked
PROPERTIES
    BetterAnswersScoreBetter
CHECK_DEADLOCK FALSE
