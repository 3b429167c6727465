SPECIFICATION CorrelationSpec
CONSTANTS
    Size = 2
    ServerLeg = serverLeg
    r1 = r1
    r2 = r2
    a1 = a1
    a2 = a2
    Requests = {r1, r2}
    Answers = {a1, a2}
    Nothing = nothing
    NodeWideHops = TRUE
SYMMETRY CorrelationSymmetry
CHECK_DEADLOCK FALSE
INVARIANTS CorrelationTypeOK RightAnswer NoAnswerIsLost
PROPERTIES LateAnswersChangeNothing ImplementsEntries
