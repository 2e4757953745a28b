\* One request at a time; statements fail, and a withdrawal is repeated.
CONSTANTS
    ana = ana
    ben = ben
    r1 = r1
    Profiles = {ana, ben}
    Requests = {r1}
    NoProfile = NoProfile
    SPLYouth = {ana}
    Inactive = {}
    ToggledPosts = {"spl", "medical_officer"}
    MaxSeatbelts = 1
    MaxFaults = 2
SPECIFICATION FairSpec
INVARIANT ReferentialIntegrity
PROPERTY RetriedWithdrawClears
CHECK_DEADLOCK FALSE
