\* Two submissions of the wizard at a time, from one browser; one statement fails; then
\* one administrator at a time, and registrations.
CONSTANTS
    b1 = b1
    r1 = r1
    r2 = r2
    t1 = t1
    i1 = i1
    i2 = i2
    u1 = u1
    u2 = u2
    u3 = u3
    Browsers = {b1}
    Requests = {r1, r2}
    Ids = {i1, i2}
    NoId = NoId
    Users = {u1, u2, u3}
    NoUser = NoUser
    MaxFaults = 1
    Tasks = {t1}
    Permissions = {"admin:rbac"}
SPECIFICATION FairSpec
INVARIANTS TypeOK InstalledHasAdministrator FirstAdministratorsBounded
PROPERTY RetryCompletes
CHECK_DEADLOCK FALSE
