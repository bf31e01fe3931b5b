SPECIFICATION FairSpec
CONSTANTS
    Gateways = {g1, g2}
    Legacy = {g2}
    Workers = {w1}
    Tokens = {t1, t2, t3}
    TgArns = {a1, a2}
    RuleArns = {r1, r2}
    Ports = {p1}
    MaxPriority = 1
    None = None
    MaxRetries = 1
    MaxFaults = 1
    ForceAllowed = TRUE
    EarlyDelete = TRUE
PROPERTIES JobsEnd StaleDrainEnds
CHECK_DEADLOCK FALSE
