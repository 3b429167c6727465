SPECIFICATION Spec
CONSTANTS
    InitialBackoff = 1000
    MaxBackoff = 10000
INVARIANTS
    OneRecovery
    ConnectedIsLive
    BackoffFollowsDelay
    LateSessionIsLast
PROPERTIES
    Recovers
    StopCompletes
