\* One address (and rows without one), two names, three rows, two requests.
SPECIFICATION FairSpec
CONSTANTS
    i1 = i1
    n1 = n1
    n2 = n2
    g1 = g1
    g2 = g2
    g3 = g3
    r1 = r1
    r2 = r2
    Ips = {i1}
    Names = {n1, n2}
    GuestIds = {g1, g2, g3}
    Reqs = {r1, r2}
    NoIp = NoIp
    NoName = NoName
    NoGuest = NoGuest
INVARIANTS TypeOK GuestBornWithToken TwinsOverlapped
PROPERTIES LoginEnds
