SPECIFICATION Spec
CONSTANTS
    Gateways = {g1, g2}
    Legacy = {}
    Workers = {w1, w2}
    Tokens = {t1, t2, t3}
    TgArns = {a1, a2}
    RuleArns = {r1, r2}
    Ports = {p1}
    MaxPriority = 1
    None = None
    MaxRetries = 1
    MaxFaults = 1
    ForceAllowed = FALSE
    EarlyDelete = FALSE
SYMMETRY Symmetry
INVARIANTS StagesRecorded CompletedIsRouted PrioritiesReserved 
PROPERTIES DecommissionReleases
CHECK_DEADLOCK FALSE
