\* One request at a time, no failure.
CONSTANTS
    ana = ana
    ben = ben
    cal = cal
    r1 = r1
    Profiles = {ana, ben, cal}
    Requests = {r1}
    NoProfile = NoProfile
    SPLYouth = {ana}
    Inactive = {}
    ToggledPosts = {"spl"}
    MaxSeatbelts = 1
    MaxFaults = 0
SPECIFICATION Spec
INVARIANTS TypeOK SingletonHolders WithdrawnHoldNoPost
PROPERTY ImplementsRoster
CHECK_DEADLOCK FALSE
