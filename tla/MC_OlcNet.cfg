\* Two clients, reading MaxInputs numbers from std::cin between them.
CONSTANTS
    c1 = c1
    c2 = c2
    t1 = t1
    Garbage = Garbage
    Clients <- MCClients
    Times <- MCTimes
    Values <- MCValues
    SizeOf <- MCSizeOf
    MaxInputs = 3
    MaxResets = 1
SPECIFICATION Spec
SYMMETRY Symmetry
INVARIANT TypeOK
PROPERTY FramingIntact
INVARIANT PingEcho
INVARIANT HelloFromOther
INVARIANT NoUnderflow
\* The clients stop after their inputs, and the server then blocks in
\* Update's wait() forever: the system really stops.
CHECK_DEADLOCK FALSE
