\* Two users who moderate each other; one slot serves ban creations, both
\* serve deletions.
\* The users, the bans and the clock are used up in the end.
CHECK_DEADLOCK FALSE
SPECIFICATION Spec
CONSTANTS
    u1 = u1
    u2 = u2
    r1 = r1
    r2 = r2
    b1 = b1
    b2 = b2
    Users = {u1, u2}
    Bans = {b1, b2}
    Reqs = {r1, r2}
    Creators = {r1}
    NoUser = NoUser
    NoBan = NoBan
    Deleted = Deleted
    Never = Never
    MaxClock = 1
SYMMETRY MCSymmetry
INVARIANTS TypeOK ReferencesExist OneActiveBan
PROPERTIES LedgerRefined
