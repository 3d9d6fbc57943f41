\* Two accepts and two chat lines: a broadcast or a departure reaches a
\* session while its own write is in flight, on both sessions, and both
\* operations of a session may fail.
CONSTANTS
    MaxSessions = 2
    MaxLines = 2
SPECIFICATION Spec
INVARIANT TypeOK
INVARIANT WireIsPrefixOfPosted
INVARIANT LeaveAnnouncedOnce
PROPERTY QueueDrains
PROPERTY FailedSessionLeaves
\* Once the bounded peers are done, io_context::run() idles with the next
\* async_accept pending: the server may stop here.
CHECK_DEADLOCK FALSE
