\* One run, one socket.
SPECIFICATION Spec
CHECK_DEADLOCK FALSE
CONSTANTS
    Runs = {r1}
    Topics = {r1}
    Sockets = {h1}
    Users = {u1}
    NoUser = NoUser
    NoRun = NoRun
PROPERTIES
    CancelSticks
