\* One request cancelled once while its read completes.
CONSTANTS
    r1 = r1
    r2 = r2
    t1 = t1
    t2 = t2
    User = User
    NoOne = NoOne
    Requests <- MCOneRequest
    Threads <- MCThreads
    MaxCancel = 1
SPECIFICATION Spec
CHECK_DEADLOCK FALSE
INVARIANT
    NoSocketRace
