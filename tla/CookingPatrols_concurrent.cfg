\* Two requests at a time, one statement may fail.
CONSTANTS
    ana = ana
    zoe = zoe
    k1 = k1
    k2 = k2
    k3 = k3
    r1 = r1
    r2 = r2
    Profiles = {ana, zoe}
    Adults = {ana}
    Retyped = {zoe}
    Patrols = {k1, k2, k3}
    Requests = {r1, r2}
    NoProfile = NoProfile
    NoPatrol = NoPatrol
    TabOps = {"createYouth", "delete", "place", "listPatrols", "findPatrol", "clearCook"}
    MaxYouth = 1
    MaxFaults = 1
SPECIFICATION Spec
SYMMETRY Symmetry
INVARIANTS TypeOK OneCookPerPatrol MembersHavePatrols
PROPERTY AdultsPlacedWithAdults
CHECK_DEADLOCK FALSE
