SPECIFICATION Spec
CONSTANTS
    Requests = {q1, q2}
    Settings = {Off, s1}
    Off = Off
    Arns = {a1, a2}
    Versions = {v1, v2, v3}
    None = None
    MaxVersion = 2
    MaxFaults = 1
    LostAnswers = TRUE
    DeleteFails = TRUE
SYMMETRY Symmetry
INVARIANTS KeyMatches RowOwnsVersion
PROPERTY VerifierKept
CHECK_DEADLOCK FALSE
