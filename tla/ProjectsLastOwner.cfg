SPECIFICATION Spec
CONSTANTS
    Users = {u1, u2}
    Roles = {"editor", "owner"}
    Requests = {q1, q2}
    Origins = {o1}
    Loads <- LastOwnerLoads
    None = None
INVARIANT LastOwnerKept
CHECK_DEADLOCK FALSE
