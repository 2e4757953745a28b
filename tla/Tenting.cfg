\* Two requests at a time, one statement may fail; the event moves, and a member of the
\* roster turns adult and youth again.
CONSTANTS
    ana = ana
    bea = bea
    cat = cat
    dan = dan
    mum = mum
    t1 = t1
    t2 = t2
    r1 = r1
    r2 = r2
    Profiles = {ana, bea, cat, dan}
    Youth = {ana, bea, cat, dan}
    Campers = {ana, cat}
    Retyped = {cat}
    Gender <- MCGender
    Birthdate <- MCBirthdate
    Links <- MCLinks
    MaxAgeGap = 1
    Tents = {t1, t2}
    Requests = {r1, r2}
    NoProfile = NoProfile
    NoTent = NoTent
    NoDate = NoDate
    Starts <- MCStarts
    MaxTents = 2
    MaxFaults = 1
SPECIFICATION Spec
SYMMETRY Symmetry
INVARIANTS MembersHaveTents AgeCountsBirthdays RulesMeanSuitable
PROPERTY JoinObeysRules
CHECK_DEADLOCK FALSE
