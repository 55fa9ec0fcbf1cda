\* One run, three sockets, two users, under fairness.
SPECIFICATION FairSpec
CHECK_DEADLOCK FALSE
CONSTANTS
    Runs = {r1}
    Topics = {r1}
    Sockets = {h1, h2, h3}
    Users = {u1, u2}
    NoUser = NoUser
    NoRun = NoRun
INVARIANTS
    TypeOK
    Registered
PROPERTIES
    SettledStays
    RunsEnd
