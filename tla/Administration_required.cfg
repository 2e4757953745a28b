\* One browser, one request, one administrator at a time; nothing fails.
CONSTANTS
    b1 = b1
    r1 = r1
    r2 = r2
    t1 = t1
    i1 = i1
    i2 = i2
    u1 = u1
    u2 = u2
    u3 = u3
    Browsers = {b1}
    Requests = {r1}
    Ids = {i1}
    NoId = NoId
    Users = {u1}
    NoUser = NoUser
    MaxFaults = 0
    Tasks = {t1}
    Permissions = {"admin:rbac", "event:view"}
SPECIFICATION Spec
INVARIANT AdminKeepsRBAC
CHECK_DEADLOCK FALSE
