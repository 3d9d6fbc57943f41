CONSTANTS
    Request <- MCRequest
    Response <- MCResponse
    Cap = 2
SPECIFICATION Spec
INVARIANTS
    TypeOK
    ExchangeIntact
    WritesDeliverBuffer
    ReadsMessage
PROPERTIES
    ExchangeCompletes
CHECK_DEADLOCK FALSE
