\* Three requests of two users over one account.
SPECIFICATION Spec
CHECK_DEADLOCK FALSE
SYMMETRY Symmetry
CONSTANTS
    Requests = {q1, q2, q3}
    Users = {u1, u2}
    SystemUser = u1
    Null = Null
    NoAnswer = NoAnswer
    NoNumber = NoNumber
    Accounts = {a1}
    AccountOwner <- MCAccountOwner
    Names = {n1, n2}
    Messages <- MCMessages
    Tokens <- MCTokens
    Bodies <- MCBodies
    Patches <- MCPatches
    Rules <- MCRules
    Mapping <- MCMapping
INVARIANTS
    TypeOK
    RowsReferenced
    CreatedConsistent
    ExtractionsLost
    TwinsOverlap
    LevelsQuoted
PROPERTIES
    LoginsOnlyLost
