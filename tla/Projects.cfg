SPECIFICATION FairSpec
CONSTANTS
    Users = {u1, u2}
    Roles = {"editor", "owner"}
    Requests = {q1, q2}
    Origins = {o1, o2}
    Loads <- MCLoads
    None = None
 
PROPERTIES OwnerRemains CachesConverge
CHECK_DEADLOCK FALSE
