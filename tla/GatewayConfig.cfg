SPECIFICATION FairSpec
CONSTANTS
    Routes = {r1}
    Upstreams = {u1, u2}
    Targets = {t1, t2}
    Policies = {p1}
    Keys = {k1, k2}
    Values = {v1, v2}
    Loads <- MCLoads
    MaxWrites = 2
    MaxFaults = 1
    None = None
INVARIANTS ReloadTakesEffect JWTNeverBehindRoutes ServedRouteResolves
PROPERTIES  RevocationReaches
