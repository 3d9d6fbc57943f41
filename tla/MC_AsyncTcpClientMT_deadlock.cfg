\* One request cancelled twice by the user.
CONSTANTS
    r1 = r1
    r2 = r2
    t1 = t1
    t2 = t2
    User = User
    NoOne = NoOne
    Requests <- MCOneRequest
    Threads <- MCThreads
    MaxCancel = 2
SPECIFICATION Spec
CHECK_DEADLOCK FALSE
INVARIANT
    NoDeadlock
