\* A login and a logout, and bans of the user between them.
\* The identifiers and the clock are bounded: the system stops when both are used up.
CHECK_DEADLOCK FALSE
SPECIFICATION FairSpec
CONSTANTS
    u1 = u1
    g1 = g1
    r1 = r1
    r2 = r2
    j1 = j1
    j2 = j2
    j3 = j3
    Users = {u1}
    Guests = {}
    Reqs = {r1, r2}
    Jtis = {j1, j2, j3}
    NoUser = NoUser
    NoJti = NoJti
    Never = Never
    GracePeriod = 0
    TokenLife = 1
    MaxClock = 1
    Ops = {"login", "logout"}
    Environment = {"ban"}
PROPERTIES LogoutRevokes
