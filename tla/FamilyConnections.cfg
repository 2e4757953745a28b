\* Two parents and one youth, two requests at a time, one statement fails.
CONSTANTS
    dad = dad
    mom = mom
    kid = kid
    r1 = r1
    r2 = r2
    l1 = l1
    l2 = l2
    l3 = l3
    l4 = l4
    Parents = {dad, mom}
    Youth = {kid}
    NoProfile = NoProfile
    Links = {l1, l2, l3, l4}
    NoLink = NoLink
    Requests = {r1, r2}
    MaxFaults = 1
SPECIFICATION Spec
SYMMETRY Symmetry
INVARIANTS PendingBounded ActsOnlyConnected
CHECK_DEADLOCK FALSE
