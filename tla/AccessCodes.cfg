SPECIFICATION Spec
CONSTANTS
    Submissions = {s1, s2, s3}
    Once = Once
    Twice = Twice
    NoCode = NoCode
    Codes <- MCCodes
    MaxUses <- MCMaxUses
    ExpiresAt <- MCExpiresAt
    Companies = {acme, bolt}
    Emails = {ann, bob}
    MaxTime = 2
SYMMETRY FormSymmetry
INVARIANTS
    TypeOK
    CodesAreAccounted
    CompedIsRedeemed
PROPERTIES
    LedgerSpec
CHECK_DEADLOCK FALSE
