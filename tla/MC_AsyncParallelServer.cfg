\* Three connections; accepts may fail; Stop() at any point.
CONSTANTS
    MaxConns = 3
SPECIFICATION Spec
\* main() returns after Stop(): the joined state is final.
CHECK_DEADLOCK FALSE
INVARIANTS
    TypeOK
    AcceptArmed
PROPERTY
    ServiceCompletes
