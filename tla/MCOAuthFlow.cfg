\* Two browsers, two logins, two identities, two requests.
\* The logins are bounded: once all are over and their answers lost the system stops.
CHECK_DEADLOCK FALSE
SPECIFICATION Spec
CONSTANTS
    b1 = b1
    b2 = b2
    s1 = s1
    s2 = s2
    i1 = i1
    i2 = i2
    r1 = r1
    r2 = r2
    Browsers = {b1, b2}
    Logins = {s1, s2}
    Identities = {i1, i2}
    Reqs = {r1, r2}
    NoBrowser = NoBrowser
    NoLogin = NoLogin
    NoIdentity = NoIdentity
    Deployments <- MCDeployments
SYMMETRY MCSymmetry
INVARIANTS TypeOK OwnIdentity SessionOwned RefusalExplained
