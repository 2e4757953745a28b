\* One request at a time; no statement fails; a position has the name of a status role.
CONSTANTS
    ana = ana
    ben = ben
    eve = eve
    u1 = u1
    r1 = r1
    Members = {ana, ben}
    Manual = {eve}
    Users = {u1}
    NoUser = NoUser
    Positions = {"SPL", "Scouts BSA"}
    Rosters <- MCRosters
    Requests = {r1}
    MaxFaults = 0
SPECIFICATION Spec
INVARIANT RevertRestores
CHECK_DEADLOCK FALSE
