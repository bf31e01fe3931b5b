SPECIFICATION FairSpec
CONSTANTS
    t1 = t1
    t2 = t2
    t3 = t3
    a = a
    b = b
    q1 = q1
    q2 = q2
    None = None
    Targets <- MCTargets
    URLs <- MCURLs
    URLOf <- MCURLOf
    OwnURL = a
    Pools <- MCPools
    Requests = {q1, q2}
    Loads <- MCLoads
INVARIANTS InFlightExact WatchListExact
PROPERTIES LeastLoaded HealthConverges NoLastingRefusal
