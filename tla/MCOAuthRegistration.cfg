\* An identity with an address and one that hides it, two requests.
\* The user ids are used up in the end.
CHECK_DEADLOCK FALSE
SPECIFICATION Spec
CONSTANTS
    g1 = g1
    a1 = a1
    e1 = e1
    e2 = e2
    n1 = n1
    n2 = n2
    u1 = u1
    u2 = u2
    u3 = u3
    r1 = r1
    r2 = r2
    Identities = {g1, a1}
    Emails = {e1, e2}
    Names = {n1, n2}
    UserIds = {u1, u2, u3}
    Reqs = {r1, r2}
    NoUser = NoUser
    NoEmail = NoEmail
    NoName = NoName
    NoIdentity = NoIdentity
    EmailOf <- MCEmailOf
    Environment = {"delete", "crash", "edit"}
SYMMETRY MCSymmetry
INVARIANTS TypeOK SessionsLinked LeftoverHasRival
