\* An account and a guest, two requests, two tokens: requests die, roles change
\* and users are deleted.
\* The identifiers and the clock are bounded: the system stops when both are used up.
CHECK_DEADLOCK FALSE
SPECIFICATION MCSpec
CONSTANTS
    u1 = u1
    g1 = g1
    r1 = r1
    r2 = r2
    j1 = j1
    j2 = j2
    Users = {u1, g1}
    Guests = {g1}
    Reqs = {r1, r2}
    Jtis = {j1, j2}
    NoUser = NoUser
    NoJti = NoJti
    Never = Never
    GracePeriod = 0
    TokenLife = 1
    MaxClock = 0
    Ops = {"login", "guest", "refresh", "disable"}
    Environment = {"crash", "roles", "delete"}
    RoleSets <- MCRoleSets
    WantedSets <- MCWantedSets
    AccessLife = 1
ACTION_CONSTRAINT MCInOrder
INVARIANTS AccessTypeOK DisabledByRight
PROPERTIES ScopesJustified 
