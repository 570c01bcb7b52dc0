SPECIFICATION Spec
CONSTANTS
    MaxEngagements = 2
    Followed = {1}
    Forms <- MCForms
    NoForm = NoForm
    MaxSessions = 2
    Handlers = {h1, h2}
    MaxFailures = 1
INVARIANT
    Tier2ReportsNeedCoverage
CHECK_DEADLOCK FALSE
