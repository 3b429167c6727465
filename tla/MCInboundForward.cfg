SPECIFICATION InboundSpec
CONSTANTS
    InitialBackoff = 1000
    MaxBackoff = 2000
    Requests = {r1, r2}
    Legs = {server, client1}
    NoLeg = NoLeg
    Workers = 2
    Encodable = TRUE
INVARIANTS
    InboundTypeOK
    NobodyForgotten
    TwoAnswersAreARace
PROPERTIES
    ImplementsReplies
