SPECIFICATION InboundSpec
CONSTANTS
    InitialBackoff = 1000
    MaxBackoff = 2000
    Requests = {r1, r2}
    Legs = {server, client1}
    NoLeg = NoLeg
    Workers = 1
    Encodable = TRUE
INVARIANTS
    NoAnswerAfterTimeout
