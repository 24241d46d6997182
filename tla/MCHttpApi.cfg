\* One slot for two requests and the loop, whose budget is longer than a handler's
\* deadline and what a slot lingers together; a slot lingers longer than a handler.
SPECIFICATION HttpSpec
CONSTANTS
    r1 = r1
    r2 = r2
    Loop = Loop
    Request <- TwoRequests
    Nobody = Nobody
    c1 = c1
    Conn <- OneConn
    PollTimeout = 4
    HandlerTimeout = 1
    LingerTimeout = 2
    DrainTimeout = 1
INVARIANTS
    HttpTypeOK
    LoopWaitsBounded
    CutOffOnlyOverdue
PROPERTIES
    RequestsEnd
    ProcessExits
