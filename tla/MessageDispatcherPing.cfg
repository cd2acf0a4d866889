\* The answer to a ping, with two calls of any kind, one unsolicited message or lost connection.
CONSTANTS
    r1 = r1
    r2 = r2
    NoRequest = NoRequest
    Request <- TwoRequests
    BatchSize = 2
    MaxUpsets = 1
SPECIFICATION Spec
CHECK_DEADLOCK FALSE
PROPERTIES PingIsAnswered
