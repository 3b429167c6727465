------------------------ MODULE MCAnswerCorrelation ------------------------
EXTENDS AnswerCorrelation, TLC

CONSTANTS r1, r2, a1, a2

CorrelationSymmetry == Permutations({r1, r2}) \cup Permutations({a1, a2})
=============================================================================
