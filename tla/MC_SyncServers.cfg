CONSTANTS
    c1 = c1
    c2 = c2
    c3 = c3
    Clients <- MCClients

SPECIFICATION Spec

INVARIANTS
    TypeOK

PROPERTIES
    ClientsServed
    StopReturnsOnConnect
    ClientNeverHangs

\* the documented hang: Stop() waits in join() while Run blocks in accept()
\* and no client is left to connect; and main's return ends the process
CHECK_DEADLOCK FALSE
