\* Four requests of two users, one restart, and time for a key to expire.
SPECIFICATION Spec
CHECK_DEADLOCK FALSE
CONSTANTS
    Requests = {q1, q2, q3, q4}
    u1 = u1
    u2 = u2
    env = env
    free = free
    Users = {u1, u2}
    Keys = {env, free}
    EnvKey = env
    KeyUser <- MCKeyUser
    Expires <- MCExpires
    NoUser = NoUser
    NoKey = NoKey
    NoRow = NoRow
    MaxTime = 2
    MaxBoots = 1
SYMMETRY Symmetry
INVARIANTS
    TypeOK
    KeysOwned
PROPERTIES
    GrantedIsLicensed
    LockedOutStays
