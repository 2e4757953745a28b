\* One request at a time, one statement may fail.
CONSTANTS
    ana = ana
    zoe = zoe
    k1 = k1
    k2 = k2
    k3 = k3
    r1 = r1
    Profiles = {ana, zoe}
    Adults = {ana}
    Retyped = {zoe}
    Patrols = {k1, k2, k3}
    Requests = {r1}
    NoProfile = NoProfile
    NoPatrol = NoPatrol
    TabOps = {"createYouth", "delete", "place", "listPatrols", "findPatrol", "clearCook"}
    MaxYouth = 1
    MaxFaults = 1
SPECIFICATION FairSpec
INVARIANT DisabledHasNoPatrols
PROPERTIES OnlyOwnCookCleared EnablingPlacesAdults SignUpPlacesAdult WithdrawnLeavesPatrol
CHECK_DEADLOCK FALSE
