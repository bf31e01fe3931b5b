SPECIFICATION FairSpec
CONSTANTS
    Requests = {q1}
    Settings = {Off, s1, s2}
    Off = Off
    Arns = {a1, a2}
    Versions = {v1, v2, v3}
    None = None
    MaxVersion = 2
    MaxFaults = 1
    LostAnswers = FALSE
    DeleteFails = TRUE
 
PROPERTIES GatewayConverges
CHECK_DEADLOCK FALSE
