SPECIFICATION HistorySpec
CONSTANTS
    Size = 3
    CursorMod = 4
    Callers = {c1, c2}
    NoClient = NoClient
    MaxPicks = 9
INVARIANTS
    NothingSteadyIsMissed
    Striped
SYMMETRY CallerSymmetry
