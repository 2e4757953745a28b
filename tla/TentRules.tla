------------------------------- MODULE TentRules -------------------------------
(***************************************************************************)
(* The rules a tent must satisfy (internal/domain/event/tent_rules.go), as *)
(* the code computes them, and what they mean.                             *)
(***************************************************************************)
EXTENDS Integers, FiniteSets

\* A calendar date.  The code compares the instants of an event's start and of a
\* birthdate at midnight, which orders them as their dates.
Dates == [year: Nat, month: 1..12, day: 1..31]

Before(a, b) ==
    \/ a.year < b.year
    \/ a.year = b.year /\ a.month < b.month
    \/ a.year = b.year /\ a.month = b.month /\ a.day < b.day

IsLeapYear(year) == year % 4 = 0 /\ (year % 100 # 0 \/ year % 400 = 0)

\* Mutant: 29 February is no birthday in other years than leap years.
AgeWholeYears_LeapDayOnly(birthdate, at) ==
    IF Before(at, birthdate) THEN 0
    ELSE at.year - birthdate.year -
           (IF \/ at.month < birthdate.month
               \/ at.month = birthdate.month /\ at.day < birthdate.day THEN 1 ELSE 0)

\* The day in February that a scout born on the 29th celebrates in a year.
BirthDay(birthdate, year) ==
    IF birthdate.month = 2 /\ birthdate.day = 29 /\ ~IsLeapYear(year) THEN 28
    ELSE birthdate.day

AgeWholeYears(birthdate, at) ==
    LET years == at.year - birthdate.year
        day == BirthDay(birthdate, at.year)
    IN IF Before(at, birthdate) THEN 0
       ELSE IF \/ at.month < birthdate.month
               \/ at.month = birthdate.month /\ at.day < day
            THEN years - 1
            ELSE years

YouthOf(links, parent) == {l[2] : l \in {k \in links : k[1] = parent}}

\* The pairs of youth with a parent in common, from approved links <<parent, youth>>.
SiblingPairs(links) ==
    UNION {{{a, b} : a, b \in YouthOf(links, parent)} : parent \in {l[1] : l \in links}}

\* Mutant: a difference of exactly the gap is too much.
BlockingViolations_Strict(scouts, birthdate, gender, eventStart, maxAgeGap, siblings) ==
    LET age == [p \in scouts |-> AgeWholeYears(birthdate[p], eventStart)]
        mixed == Cardinality({gender[p] : p \in scouts}) > 1
        apart == \E p, q \in scouts :
                    /\ {p, q} \notin siblings
                    /\ age[p] - age[q] >= maxAgeGap
    IN (IF mixed THEN {"mixed_gender"} ELSE {}) \union (IF apart THEN {"age_gap"} ELSE {})

\* The codes of the violations that BlockingViolations returns.
BlockingViolations(scouts, birthdate, gender, eventStart, maxAgeGap, siblings) ==
    LET age == [p \in scouts |-> AgeWholeYears(birthdate[p], eventStart)]
        mixed == Cardinality({gender[p] : p \in scouts}) > 1
        apart == \E p, q \in scouts :
                    /\ {p, q} \notin siblings
                    /\ age[p] - age[q] > maxAgeGap
    IN (IF mixed THEN {"mixed_gender"} ELSE {}) \union (IF apart THEN {"age_gap"} ELSE {})

=============================================================================
