SPECIFICATION FairSpec
CONSTANTS
    Requests = {q1, q2}
    Window = 2
    LoginRPM = 2
    FailureLimit = 2
    MaxLoginFailures = 2
    LockoutDuration = 3
    GatewayLimit = 2
    MaxFaults = 1
INVARIANTS LoginsBounded GuessesBounded ServedBounded
PROPERTIES RefusalsEnd
