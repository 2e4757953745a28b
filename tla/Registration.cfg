\* Two requests at a time, from one browser; one statement fails.
CONSTANTS
    b1 = b1
    r1 = r1
    r2 = r2
    u1 = u1
    u2 = u2
    Browsers = {b1}
    Requests = {r1, r2}
    Users = {u1, u2}
    NoUser = NoUser
    NoBrowser = NoBrowser
    HasPositions = TRUE
    MaxAttempts = 1
    RateLimit = 2
    MaxCodes = 3
    MaxFaults = 1
SPECIFICATION Spec
SYMMETRY Symmetry
INVARIANTS CodeVerifiesOneSession UsableCodesBounded HourlyCodesBounded
           GuessesBounded LinkedUserHasRoles
  
CHECK_DEADLOCK FALSE
