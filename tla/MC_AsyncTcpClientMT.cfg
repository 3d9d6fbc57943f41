\* Two requests, two pool threads, one CancelRequest per id (as main()).
CONSTANTS
    r1 = r1
    r2 = r2
    t1 = t1
    t2 = t2
    User = User
    NoOne = NoOne
    Requests <- MCRequests
    Threads <- MCThreads
    MaxCancel = 1
SPECIFICATION Spec
\* The program ends: after Close() every thread has returned.
CHECK_DEADLOCK FALSE
INVARIANTS
    TypeOK
    CallbackAtMostOnce
    CanceledNeverSucceeds
PROPERTY
    RequestsComplete
    RequestRefinement
