SPECIFICATION OutboundSpec
CONSTANTS
    Size = 2
    CursorMod = 2
    Callers = {r1, r2}
    NoClient = NoClient
    NoRequest = NoRequest
PROPERTY EveryRequestCompleted
