\* Two requests at a time, one statement may fail.
CONSTANTS
    ana = ana
    ben = ben
    cal = cal
    r1 = r1
    r2 = r2
    Profiles = {ana, ben, cal}
    Requests = {r1, r2}
    NoProfile = NoProfile
    SPLYouth = {ana}
    Inactive = {}
    ToggledPosts = {"spl"}
    MaxSeatbelts = 0
    MaxFaults = 1
SPECIFICATION Spec
SYMMETRY Symmetry
INVARIANT OversubscriptionBounded
PROPERTY ReplacementFillsPost
CHECK_DEADLOCK FALSE
