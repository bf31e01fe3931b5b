SPECIFICATION Spec
CONSTANTS
    Users = {u1}
    Requests = {q1, q2}
    Passwords = {p1, p2}
    Tokens = {t1, t2}
    RefreshTokens = {f1, f2, f3}
    None = None
SYMMETRY Symmetry
INVARIANTS OneUnspentToken SessionsNeverDeadlock
PROPERTIES CredentialsNeedToken  ImplementsSessions
CHECK_DEADLOCK FALSE
