\* One request at a time; one statement fails; a position has the name of a status role.
CONSTANTS
    ana = ana
    ben = ben
    eve = eve
    u1 = u1
    r1 = r1
    Members = {ana, ben}
    Manual = {eve}
    Users = {u1}
    NoUser = NoUser
    Positions = {"SPL", "Scouts BSA"}
    Rosters <- MCRosters
    Requests = {r1}
    MaxFaults = 1
SPECIFICATION Spec
  
PROPERTIES LinkKept OnlyRevertTakesStatusRoles ManualStaysActive
CHECK_DEADLOCK FALSE
