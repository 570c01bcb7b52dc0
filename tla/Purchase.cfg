SPECIFICATION Spec
CONSTANTS
    MaxEngagements = 2
    Followed = {1}
    Forms <- MCForms
    NoForm = NoForm
    MaxSessions = 2
    Handlers = {h1, h2}
    MaxFailures = 1
INVARIANTS
    TypeOK
    PaymentsAreOnRecord
    LinkIsSentOnce
    ChargedAsDeclared
    ReportsAreEarned
PROPERTIES
    PaymentsAreHonoured
CHECK_DEADLOCK FALSE
