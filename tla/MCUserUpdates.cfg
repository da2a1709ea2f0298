\* An account that may be the superuser and a second id; two requests or processes.
SPECIFICATION Spec
CONSTANTS
    u1 = u1
    u2 = u2
    root = root
    n1 = n1
    mail = mail
    administrator = administrator
    regular = regular
    r1 = r1
    r2 = r2
    UserIds = {u1, u2}
    Names = {root, n1}
    Emails = {mail}
    RoleSets <- MCRoleSets
    Reqs = {r1, r2}
    Patchers = {r1}
    NoUser = NoUser
    NoEmail = NoEmail
    Absent = Absent
    AdminName = root
    AdminEmail = mail
    AdminRoles <- MCAdminRoles
    FirstUser = u1
    MaxFields = 2
INVARIANTS TypeOK PatchPrefix StartEstablishes
