\* Two activations at once.
SPECIFICATION Spec
CHECK_DEADLOCK FALSE
CONSTANTS
    Requests = {q1, q2}
    u1 = u1
    u2 = u2
    env = env
    free = free
    Users = {u1, u2}
    Keys = {env, free}
    EnvKey = env
    KeyUser <- MCKeyUser
    Expires <- MCExpires
    NoUser = NoUser
    NoKey = NoKey
    NoRow = NoRow
    MaxTime = 2
    MaxBoots = 1
SYMMETRY Symmetry
INVARIANTS
    OneActive
