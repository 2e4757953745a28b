----------------------------- MODULE TentingProofs -----------------------------
(***************************************************************************)
(* Theorems about Tenting and TentRules, for every roster, every date of   *)
(* the event, every set of tents and overlapping requests, and every       *)
(* number of failures.                                                     *)
(***************************************************************************)
EXTENDS Tenting, FiniteSetTheorems, TLAPS

-----------------------------------------------------------------------------
(***************************************************************************)
(* The rules.                                                              *)
(***************************************************************************)

\* Whether a birthday has come: always in the years before, and by month and day in
\* the year of the date.
LEMMA BirthdayHasCome ==
  ASSUME NEW b \in Dates, NEW at \in Dates, NEW y \in Nat, y <= at.year
  PROVE  ~Before(at, Birthday(b, y)) <=>
            \/ y < at.year
            \/ at.month > b.month
            \/ at.month = b.month /\ at.day >= BirthDay(b, y)
  <1>1. /\ at.year \in Nat /\ at.month \in 1..12 /\ at.day \in 1..31
        /\ b.year \in Nat /\ b.month \in 1..12 /\ b.day \in 1..31
    BY DEF Dates
  <1>2. /\ Birthday(b, y).year = y
        /\ Birthday(b, y).month = b.month
        /\ Birthday(b, y).day = BirthDay(b, y)
    BY DEF Dates, Birthday, BirthDay
  <1>3. BirthDay(b, y) \in 1..31
    BY <1>1 DEF BirthDay
  <1> QED BY <1>1, <1>2, <1>3 DEF Before

\* The birthdays a scout has had are those of consecutive years.
LEMMA BirthdaysAreAnInterval ==
  ASSUME NEW b \in Dates, NEW at \in Dates
  PROVE  /\ AgeWholeYears(b, at) \in Nat
         /\ Birthdays(b, at) = (b.year + 1)..(b.year + AgeWholeYears(b, at))
  <1>1. /\ at.year \in Nat /\ at.month \in 1..12 /\ at.day \in 1..31
        /\ b.year \in Nat /\ b.month \in 1..12 /\ b.day \in 1..31
    BY DEF Dates
  <1> DEFINE come == \/ at.month > b.month
                     \/ at.month = b.month /\ at.day >= BirthDay(b, at.year)
  <1>2. BirthDay(b, at.year) \in 1..b.day
    BY <1>1 DEF BirthDay
  <1>3. Birthdays(b, at) = {y \in (b.year + 1)..at.year : y < at.year \/ come}
    <2>1. ASSUME NEW y \in (b.year + 1)..at.year
          PROVE  ~Before(at, Birthday(b, y)) <=> (y < at.year \/ come)
      <3>1. y \in Nat /\ y <= at.year
        BY <1>1
      <3>2. CASE y < at.year
        BY <3>1, <3>2, BirthdayHasCome
      <3>3. CASE y = at.year
        <4>1. at.year \in Nat /\ at.year <= at.year
          BY <1>1
        <4>2. ~Before(at, Birthday(b, at.year)) <=> (at.year < at.year \/ come)
          BY <4>1, BirthdayHasCome
        <4> QED BY <3>3, <4>2, Zenon
      <3> QED BY <1>1, <3>1, <3>2, <3>3
    <2> QED BY <2>1 DEF Birthdays
  <1>4. CASE at.year <= b.year
    <2>1. AgeWholeYears(b, at) = 0
      BY <1>1, <1>2, <1>4 DEF AgeWholeYears, Before
    <2>2. (b.year + 1)..at.year = {} /\ (b.year + 1)..b.year = {}
      BY <1>1, <1>4
    <2>3. b.year + AgeWholeYears(b, at) = b.year
      BY <1>1, <2>1
    <2>4. Birthdays(b, at) = {}
      BY <1>3, <2>2
    <2> QED BY <2>1, <2>2, <2>3, <2>4
  <1>5. CASE at.year > b.year
    <2>1. AgeWholeYears(b, at) = IF come THEN at.year - b.year ELSE at.year - b.year - 1
      <3>1. ~Before(at, b)
        BY <1>1, <1>5 DEF Before
      <3>2. AgeWholeYears(b, at) =
              IF \/ at.month < b.month
                 \/ at.month = b.month /\ at.day < BirthDay(b, at.year)
              THEN at.year - b.year - 1 ELSE at.year - b.year
        BY <3>1, Zenon DEF AgeWholeYears
      <3>3. BirthDay(b, at.year) \in Int
        BY <1>1, <1>2
      <3>4. (\/ at.month < b.month
             \/ at.month = b.month /\ at.day < BirthDay(b, at.year)) <=> ~come
        BY <1>1, <3>3
      <3> HIDE DEF come
      <3> QED BY <3>2, <3>4
    <2> HIDE DEF come
    <2>2. CASE come
      <3>1. b.year + AgeWholeYears(b, at) = at.year
        BY <1>1, <2>1, <2>2
      <3>2. Birthdays(b, at) = (b.year + 1)..at.year
        BY <1>3, <2>2
      <3> QED BY <1>1, <1>5, <2>1, <2>2, <3>1, <3>2
    <2>3. CASE ~come
      <3>1. b.year + AgeWholeYears(b, at) = at.year - 1
        BY <1>1, <2>1, <2>3
      <3>2. Birthdays(b, at) = {y \in (b.year + 1)..at.year : y < at.year}
        BY <1>3, <2>3
      <3>3. {y \in (b.year + 1)..at.year : y < at.year} = (b.year + 1)..(at.year - 1)
        BY <1>1
      <3> QED BY <1>1, <1>5, <2>1, <2>3, <3>1, <3>2, <3>3
    <2> QED BY <2>2, <2>3
  <1> QED BY <1>1, <1>4, <1>5

\* AgeWholeYears is the number of birthdays.
LEMMA AgeIsBirthdays ==
  ASSUME NEW b \in Dates, NEW at \in Dates
  PROVE  /\ AgeWholeYears(b, at) = Cardinality(Birthdays(b, at))
         /\ AgeWholeYears(b, at) \in Nat
  <1>1. b.year \in Nat
    BY DEF Dates
  <1>2. AgeWholeYears(b, at) \in Nat
    BY BirthdaysAreAnInterval
  <1>3. Cardinality((b.year + 1)..(b.year + AgeWholeYears(b, at))) = AgeWholeYears(b, at)
    <2>1. ASSUME NEW a \in Nat, NEW n \in Nat PROVE Cardinality((a + 1)..(a + n)) = n
      <3>1. a + 1 \in Int /\ a + n \in Int
        OBVIOUS
      <3>2. Cardinality((a + 1)..(a + n)) = IF a + 1 > a + n THEN 0 ELSE (a + n) - (a + 1) + 1
        BY <3>1, FS_Interval, Zenon
      <3> QED BY <3>2
    <2> QED BY <1>1, <1>2, <2>1
  <1> QED BY <1>2, <1>3, BirthdaysAreAnInterval

LEMMA GendersAreFinite ==
  ASSUME NEW scouts, IsFiniteSet(scouts)
  PROVE  IsFiniteSet({Gender[s] : s \in scouts})
  <1> DEFINE genders == {Gender[s] : s \in scouts}
  <1>1. [s \in scouts |-> Gender[s]] \in [scouts -> genders]
    OBVIOUS
  <1>2. [s \in scouts |-> Gender[s]] \in Surjection(scouts, genders)
    BY <1>1 DEF Surjection
  <1> QED BY <1>2, FS_Surjection

\* Scouts whose genders, collected in a set, are at most one share their gender.
LEMMA OneGender ==
  ASSUME NEW scouts, IsFiniteSet(scouts), Cardinality({Gender[p] : p \in scouts}) <= 1,
         NEW p \in scouts, NEW q \in scouts
  PROVE  Gender[p] = Gender[q]
  <1> DEFINE genders == {Gender[s] : s \in scouts}
  <1>2. IsFiniteSet(genders)
    BY GendersAreFinite
  <1>3. SUFFICES ASSUME Gender[q] \notin {Gender[p]} PROVE FALSE
    OBVIOUS
  <1>4. Cardinality({Gender[p]}) = 1 /\ IsFiniteSet({Gender[p]})
    BY FS_Singleton
  <1>5. Cardinality({Gender[p]} \union {Gender[q]}) =
           IF Gender[q] \in {Gender[p]} THEN Cardinality({Gender[p]})
                                        ELSE Cardinality({Gender[p]}) + 1
    BY <1>4, FS_AddElement, Zenon
  <1>6. ({Gender[p]} \union {Gender[q]}) \in SUBSET genders
    OBVIOUS
  <1>7. Cardinality({Gender[p]} \union {Gender[q]}) <= Cardinality(genders)
    BY <1>2, <1>6, FS_Subset
  <1>8. Cardinality(genders) \in Nat
    BY <1>2, FS_CardinalityType
  <1> QED BY <1>3, <1>4, <1>5, <1>7, <1>8

\* An arrangement in which BlockingViolations finds nothing is suitable, and so is
\* every part of it.
LEMMA NoViolationSuitable ==
  ASSUME NEW at \in Starts, NEW scouts \in SUBSET Profiles, NEW some \in SUBSET scouts,
         BlockingViolations(scouts, Birthdate, Gender, at, MaxAgeGap, SiblingPairs(Links)) = {}
  PROVE  Suitable(some, at)
  <1>1. IsFiniteSet(scouts)
    BY RosterAssumption, FS_Subset
  <1>2. ~(Cardinality({Gender[p] : p \in scouts}) > 1)
    BY DEF BlockingViolations
  <1>3. \A p, q \in scouts :
           \/ {p, q} \in SiblingPairs(Links)
           \/ ~(AgeWholeYears(Birthdate[p], at) - AgeWholeYears(Birthdate[q], at) > MaxAgeGap)
    BY DEF BlockingViolations
  <1>4. ASSUME NEW p \in some, NEW q \in some
        PROVE  /\ Gender[p] = Gender[q]
               /\ Siblings(p, q) \/ Ahead(p, q, at) <= MaxAgeGap
    <2>1. p \in scouts /\ q \in scouts /\ p \in Profiles /\ q \in Profiles
      OBVIOUS
    <2>2. Gender[p] = Gender[q]
      <3>1. Cardinality({Gender[s] : s \in scouts}) \in Nat
        BY <1>1, GendersAreFinite, FS_CardinalityType
      <3> QED BY <1>1, <1>2, <2>1, <3>1, OneGender
    <2>3. CASE {p, q} \in SiblingPairs(Links)
      <3>1. PICK parent \in {l[1] : l \in Links} :
               {p, q} \in {{a, c} : a, c \in YouthOf(Links, parent)}
        BY <2>3 DEF SiblingPairs
      <3>2. p \in YouthOf(Links, parent) /\ q \in YouthOf(Links, parent)
        BY <3>1
      <3>3. Siblings(p, q)
        BY <3>2 DEF YouthOf, Siblings
      <3> QED BY <2>2, <3>3
    <2>4. CASE {p, q} \notin SiblingPairs(Links)
      <3>1. Birthdate[p] \in Dates /\ Birthdate[q] \in Dates /\ at \in Dates /\ MaxAgeGap \in Nat
        BY <2>1, RosterAssumption
      <3>2. /\ AgeWholeYears(Birthdate[p], at) = Cardinality(Birthdays(Birthdate[p], at))
            /\ AgeWholeYears(Birthdate[q], at) = Cardinality(Birthdays(Birthdate[q], at))
            /\ AgeWholeYears(Birthdate[p], at) \in Nat
            /\ AgeWholeYears(Birthdate[q], at) \in Nat
        BY <3>1, AgeIsBirthdays
      <3>3. ~(Cardinality(Birthdays(Birthdate[p], at)) -
              Cardinality(Birthdays(Birthdate[q], at)) > MaxAgeGap)
        BY <1>3, <2>1, <2>4, <3>2
      <3>4. Ahead(p, q, at) <= MaxAgeGap
        BY <3>1, <3>2, <3>3 DEF Ahead
      <3> QED BY <2>2, <3>4
    <2> QED BY <2>3, <2>4
  <1> QED BY <1>4 DEF Suitable

\* A suitable arrangement is not refused.
LEMMA SuitableNoViolation ==
  ASSUME NEW at \in Starts, NEW scouts \in SUBSET Profiles, Suitable(scouts, at)
  PROVE  BlockingViolations(scouts, Birthdate, Gender, at, MaxAgeGap, SiblingPairs(Links)) = {}
  <1>1. ~(Cardinality({Gender[p] : p \in scouts}) > 1)
    <2>1. CASE scouts = {}
      <3>1. {Gender[p] : p \in scouts} = {}
        BY <2>1
      <3>2. Cardinality({Gender[p] : p \in scouts}) = 0
        BY <3>1, FS_EmptySet
      <3> QED BY <3>2
    <2>2. CASE scouts # {}
      <3>1. PICK p \in scouts : TRUE
        BY <2>2
      <3>2. {Gender[q] : q \in scouts} = {Gender[p]}
        BY <3>1 DEF Suitable
      <3>3. Cardinality({Gender[q] : q \in scouts}) = 1
        BY <3>2, FS_Singleton
      <3> QED BY <3>3
    <2> QED BY <2>1, <2>2
  <1>2. ASSUME NEW p \in scouts, NEW q \in scouts
        PROVE  \/ {p, q} \in SiblingPairs(Links)
               \/ ~(AgeWholeYears(Birthdate[p], at) - AgeWholeYears(Birthdate[q], at) > MaxAgeGap)
    <2>1. CASE Siblings(p, q)
      <3>1. PICK l \in Links, m \in Links : l[1] = m[1] /\ l[2] = p /\ m[2] = q
        BY <2>1 DEF Siblings
      <3>2. p \in YouthOf(Links, l[1]) /\ q \in YouthOf(Links, l[1])
        BY <3>1 DEF YouthOf
      <3>3. {p, q} \in {{a, b} : a, b \in YouthOf(Links, l[1])}
        BY <3>2
      <3> QED BY <3>1, <3>3 DEF SiblingPairs
    <2>2. CASE Ahead(p, q, at) <= MaxAgeGap
      <3>1. Birthdate[p] \in Dates /\ Birthdate[q] \in Dates /\ at \in Dates /\ MaxAgeGap \in Nat
        BY RosterAssumption
      <3>2. /\ AgeWholeYears(Birthdate[p], at) = Cardinality(Birthdays(Birthdate[p], at))
            /\ AgeWholeYears(Birthdate[q], at) = Cardinality(Birthdays(Birthdate[q], at))
            /\ AgeWholeYears(Birthdate[p], at) \in Nat
            /\ AgeWholeYears(Birthdate[q], at) \in Nat
        BY <3>1, AgeIsBirthdays
      <3> QED BY <2>2, <3>1, <3>2 DEF Ahead
    <2> QED BY <2>1, <2>2 DEF Suitable
  <1>3. ~(\E p, q \in scouts :
            /\ {p, q} \notin SiblingPairs(Links)
            /\ AgeWholeYears(Birthdate[p], at) - AgeWholeYears(Birthdate[q], at) > MaxAgeGap)
    BY <1>2
  <1> QED BY <1>1, <1>3 DEF BlockingViolations

LEMMA RulesAreExact ==
  ASSUME NEW at \in Starts, NEW scouts \in SUBSET Profiles
  PROVE  BlockingViolations(scouts, Birthdate, Gender, at, MaxAgeGap, SiblingPairs(Links)) = {}
           <=> Suitable(scouts, at)
  <1>1. scouts \in SUBSET scouts
    OBVIOUS
  <1> QED BY <1>1, NoViolationSuitable, SuitableNoViolation

-----------------------------------------------------------------------------
(***************************************************************************)
(* Type correctness.                                                       *)
(***************************************************************************)

LEMMA IdleType == Idle \in RequestRecord
  BY DEF Idle, RequestRecord, Stages

\* Every action on requests leaves one idle, or moves it to a stage that needs no more
\* than it has.
LEMMA FinishType ==
  ASSUME TypeOK, NEW r \in Requests, Finish(r)
  PROVE  req' \in [Requests -> RequestRecord]
  BY IdleType DEF TypeOK, Finish

LEMMA BeginType ==
  ASSUME TypeOK, NEW r \in Requests, Begin(r)
  PROVE  TypeOK'
  <1>1. ASSUME NEW q \in RequestRecord, Admit(r, q) PROVE TypeOK'
    BY <1>1 DEF Admit, TypeOK
  <1>2. CASE TentCreate(r)
    <2>1. [Idle EXCEPT !.stage = "create"] \in RequestRecord
      BY DEF Idle, RequestRecord, Stages
    <2> QED BY <1>1, <1>2, <2>1 DEF TentCreate
  <1>3. ASSUME NEW t \in Tents, TentDelete(r, t) PROVE TypeOK'
    <2>1. [Idle EXCEPT !.stage = "delete", !.tent = t] \in RequestRecord
      BY DEF Idle, RequestRecord, Stages
    <2> QED BY <1>1, <1>3, <2>1 DEF TentDelete
  <1>4. ASSUME NEW p \in Profiles, BeginSignUp(r, p) PROVE TypeOK'
    <2>1. [Idle EXCEPT !.stage = "enrol", !.profile = p] \in RequestRecord
      BY DEF Idle, RequestRecord, Stages
    <2> QED BY <1>1, <1>4, <2>1 DEF BeginSignUp
  <1>5. ASSUME NEW p \in Profiles, BeginWithdraw(r, p) PROVE TypeOK'
    <2>1. [Idle EXCEPT !.stage = "cancel", !.profile = p] \in RequestRecord
      BY DEF Idle, RequestRecord, Stages
    <2> QED BY <1>1, <1>5, <2>1 DEF BeginWithdraw
  <1>6. ASSUME NEW p \in Profiles, TentRemoveMember(r, p) PROVE TypeOK'
    <2>1. [Idle EXCEPT !.stage = "remove", !.profile = p] \in RequestRecord
      BY DEF Idle, RequestRecord, Stages
    <2> QED BY <1>1, <1>6, <2>1 DEF TentRemoveMember
  <1>7. ASSUME NEW p \in Profiles, NEW t \in Tents, TentAssignMember(r, p, t) PROVE TypeOK'
    <2>1. [Idle EXCEPT !.stage = "readType", !.profile = p, !.tent = t] \in RequestRecord
      BY DEF Idle, RequestRecord, Stages
    <2> QED BY <1>1, <1>7, <2>1 DEF TentAssignMember
  <1>8. Campers \subseteq Profiles
    BY RosterAssumption
  <1> QED BY <1>2, <1>3, <1>4, <1>5, <1>6, <1>7, <1>8 DEF Begin

LEMMA ServeType ==
  ASSUME TypeOK, NEW r \in Requests, Serve(r)
  PROVE  TypeOK'
  <1> USE DEF TypeOK
  <1>0. req \in [Requests -> RequestRecord] /\ req[r] \in RequestRecord
    OBVIOUS
  <1>1. CASE Enrol(r)
    BY <1>1, FinishType DEF Enrol
  <1>2. CASE CancelAttendance(r)
    <2>1. [req[r] EXCEPT !.stage = "remove"] \in RequestRecord
      BY <1>0, <1>2 DEF CancelAttendance, RequestRecord, Stages
    <2> QED BY <1>0, <1>2, <2>1 DEF CancelAttendance, GoTo
  <1>3. CASE RemoveTentMember(r)
    BY <1>3, FinishType DEF RemoveTentMember
  <1>4. CASE ListTents(r)
    <2>1. [req[r] EXCEPT !.stage = "listMembers"] \in RequestRecord
      BY <1>0, <1>4 DEF ListTents, RequestRecord, Stages
    <2>2. req' \in [Requests -> RequestRecord]
      BY <1>0, <1>4, <2>1, FinishType DEF ListTents, GoTo
    <2> QED BY <1>4, <2>2 DEF ListTents
  <1>5. CASE ListMembers(r)
    <2>1. [req[r] EXCEPT !.stage = "validate", !.mates = InTent(req[r].tent)] \in RequestRecord
      BY <1>0, <1>5 DEF ListMembers, InTent, RequestRecord, Stages
    <2>2. req' \in [Requests -> RequestRecord]
      BY <1>0, <1>5, <2>1, FinishType DEF ListMembers
    <2> QED BY <1>5, <2>2 DEF ListMembers
  <1>6. CASE Validate(r)
    <2>1. [req[r] EXCEPT !.stage = "insert", !.read = start] \in RequestRecord
      BY <1>0, <1>6 DEF Validate, RequestRecord, Stages
    <2>2. req' \in [Requests -> RequestRecord]
      BY <1>0, <1>6, <2>1, FinishType DEF Validate
    <2> QED BY <1>6, <2>2 DEF Validate
  <1>7. CASE AssignTentMember(r)
    <2>1. req[r].tent \in Tents
      BY <1>0, <1>7 DEF AssignTentMember, RequestRecord
    <2> QED BY <1>7, <2>1, FinishType DEF AssignTentMember
  <1>8. CASE CreateTent(r)
    BY <1>8, FinishType DEF CreateTent, Fresh
  <1>9. CASE DeleteTent(r)
    BY <1>9, FinishType DEF DeleteTent, DeleteRows
  <1>10. CASE ReadType(r)
    <2>1. [req[r] EXCEPT !.stage = "listTents"] \in RequestRecord
      BY <1>0, <1>10 DEF ReadType, RequestRecord, Stages
    <2>2. req' \in [Requests -> RequestRecord]
      BY <1>0, <1>10, <2>1, FinishType DEF ReadType, GoTo
    <2> QED BY <1>10, <2>2 DEF ReadType
  <1> QED BY <1>1, <1>2, <1>3, <1>4, <1>5, <1>6, <1>7, <1>8, <1>9, <1>10 DEF Serve

LEMMA InitType == Init => TypeOK
  BY IdleType, BoundsAssumption, RosterAssumption DEF Init, TypeOK

LEMMA StepType == TypeOK /\ [Next]_vars => TypeOK'
  <1> SUFFICES ASSUME TypeOK, [Next]_vars PROVE TypeOK'
    OBVIOUS
  <1>1. ASSUME NEW r \in Requests, StatementFails(r) PROVE TypeOK'
    <2>1. faults' \in 0..MaxFaults
      BY <1>1, BoundsAssumption DEF TypeOK, StatementFails
    <2> QED BY <1>1, <2>1, FinishType DEF TypeOK, StatementFails
  <1>2. CASE EventEdit
    BY <1>2 DEF EventEdit, TypeOK
  <1>3. CASE EventDelete
    BY <1>3 DEF EventDelete, DeleteRows, TypeOK
  <1>4. CASE UNCHANGED vars
    BY <1>4 DEF TypeOK, vars
  <1>5. ASSUME NEW p \in Retyped, ChangeMemberType(p) PROVE TypeOK'
    BY <1>5, RosterAssumption DEF ChangeMemberType, TypeOK
  <1> QED BY <1>1, <1>2, <1>3, <1>4, <1>5, BeginType, ServeType DEF Next

\* The tables and the memory of every handler keep their types; a handler about to
\* insert a member knows a scout and a tent, not necessarily one that still exists.
THEOREM TypeCorrect == Spec => []TypeOK
  BY InitType, StepType, PTL DEF Spec

\* The ages that the rules compare are numbers of birthdays, wherever the event moves.
THEOREM AgesCountBirthdays == Spec => []AgeCountsBirthdays
  <1>1. TypeOK => AgeCountsBirthdays
    <2> SUFFICES ASSUME TypeOK, NEW p \in Profiles
                 PROVE  AgeWholeYears(Birthdate[p], start) =
                          Cardinality(Birthdays(Birthdate[p], start))
      BY DEF AgeCountsBirthdays
    <2>1. Birthdate[p] \in Dates /\ start \in Dates
      BY RosterAssumption DEF TypeOK
    <2> QED BY <2>1, AgeIsBirthdays
  <1> QED BY <1>1, TypeCorrect, PTL

\* The rules find nothing in exactly the suitable tents, for every roster, every set of
\* approved connections, every age gap and wherever the event moves.
THEOREM RulesExact == Spec => []RulesMeanSuitable
  <1>1. ASSUME NEW a \in Arrangements
        PROVE  (BlockingViolations(a[2], Birthdate, Gender, a[1], MaxAgeGap,
                                   SiblingPairs(Links)) = {}) = Suitable(a[2], a[1])
    <2>1. a[1] \in Starts /\ a[2] \in SUBSET Profiles
      BY DEF Arrangements
    <2>2. Suitable(a[2], a[1]) \in BOOLEAN
      BY DEF Suitable
    <2> HIDE DEF Suitable
    <2> QED BY <2>1, <2>2, RulesAreExact
  <1>2. \A v \in Verdicts : v \in RightVerdicts
    BY <1>1, Zenon DEF Verdicts, RightVerdicts
  <1>3. RulesMeanSuitable
    BY <1>2, Zenon DEF RulesMeanSuitable
  <1> QED BY <1>3, PTL

-----------------------------------------------------------------------------
(***************************************************************************)
(* Integrity, for requests that overlap.                                   *)
(***************************************************************************)

LEMMA StepIntegrity ==
  ASSUME TypeOK, MembersHaveTents, [Next]_vars
  PROVE  MembersHaveTents'
  <1> USE DEF MembersHaveTents
  <1>0. /\ attendee \in [Profiles -> {"none", "signed_up", "canceled"}]
        /\ tents \in SUBSET Tents
        /\ member \in [Profiles -> Tents \union {NoTent}]
        /\ req \in [Requests -> RequestRecord]
    BY DEF TypeOK
  <1>1. ASSUME NEW r \in Requests, Begin(r) PROVE MembersHaveTents'
    BY <1>1 DEF Begin, TentCreate, TentDelete, BeginSignUp, BeginWithdraw, TentRemoveMember,
                TentAssignMember, Admit
  <1>2. ASSUME NEW r \in Requests, Serve(r) PROVE MembersHaveTents'
    <2>1. CASE Enrol(r)
      BY <1>0, <1>2, <2>1 DEF Enrol
    <2>2. CASE CancelAttendance(r)
      BY <1>0, <1>2, <2>2 DEF CancelAttendance
    <2>3. CASE RemoveTentMember(r)
      BY <1>0, <1>2, <2>3 DEF RemoveTentMember
    <2>4. CASE ReadType(r) \/ ListTents(r) \/ ListMembers(r) \/ Validate(r)
      BY <1>2, <2>4 DEF ReadType, ListTents, ListMembers, Validate
    <2>5. CASE AssignTentMember(r)
      <3>1. req[r].profile \in Profiles
        BY <1>0, <2>5 DEF AssignTentMember, RequestRecord
      <3> QED BY <1>0, <2>5, <3>1 DEF AssignTentMember
    <2>6. CASE CreateTent(r)
      BY <1>0, <1>2, <2>6 DEF CreateTent
    <2>7. CASE DeleteTent(r)
      BY <1>0, <1>2, <2>7 DEF DeleteTent, DeleteRows
    <2> QED BY <1>2, <2>1, <2>2, <2>3, <2>4, <2>5, <2>6, <2>7 DEF Serve
  <1>3. CASE EventDelete
    BY <1>0, <1>3 DEF EventDelete, DeleteRows
  <1>4. CASE \/ EventEdit \/ UNCHANGED vars \/ \E p \in Retyped : ChangeMemberType(p)
           \/ \E r \in Requests : StatementFails(r)
    BY <1>4 DEF EventEdit, vars, ChangeMemberType, StatementFails
  <1> QED BY <1>1, <1>2, <1>3, <1>4 DEF Next

\* No interleaving and no failure leaves a member row without its tent or attendee, or
\* leaves tents behind a deleted event: nor does the deletion of a tent between the checks
\* of AssignMember and its INSERT.
THEOREM NoOrphans == Spec => []MembersHaveTents
  <1>1. Init => MembersHaveTents
    BY DEF Init, MembersHaveTents
  <1> QED BY <1>1, StepIntegrity, TypeCorrect, PTL DEF Spec

-----------------------------------------------------------------------------
(***************************************************************************)
(* The rules hold of every assignment, for requests that overlap.  What    *)
(* the rules were applied to is kept by the request, whatever others do to *)
(* the tent; what they leave of it only has fewer scouts in it.            *)
(***************************************************************************)

\* A request about to insert has found no violation among the scouts it has listed and
\* the newcomer, on the date it has read.
Passed(r) ==
    req[r].stage = "insert" =>
        BlockingViolations(Prospective(r), Birthdate, Gender, req[r].read, MaxAgeGap,
                           SiblingPairs(Links)) = {}

\* The statements that do not lead to the INSERT.
LEMMA OtherStages ==
  ASSUME TypeOK, NEW r \in Requests,
         \/ Begin(r) \/ StatementFails(r)
         \/ Serve(r) /\ ~Validate(r)
  PROVE  req'[r].stage # "insert"
  <1>1. req \in [Requests -> RequestRecord] /\ req[r] \in RequestRecord
    BY DEF TypeOK
  <1>2. CASE Begin(r)
    <2>1. ASSUME NEW q, q.stage # "insert", Admit(r, q) PROVE req'[r].stage # "insert"
      BY <1>1, <2>1 DEF Admit
    <2>2. CASE TentCreate(r)
      <3>1. [Idle EXCEPT !.stage = "create"].stage = "create"
        BY DEF Idle
      <3> QED BY <2>1, <2>2, <3>1 DEF TentCreate
    <2>3. ASSUME NEW t \in Tents, TentDelete(r, t) PROVE req'[r].stage # "insert"
      <3>1. [Idle EXCEPT !.stage = "delete", !.tent = t].stage = "delete"
        BY DEF Idle
      <3> QED BY <2>1, <2>3, <3>1 DEF TentDelete
    <2>4. ASSUME NEW p \in Campers, BeginSignUp(r, p) PROVE req'[r].stage # "insert"
      <3>1. [Idle EXCEPT !.stage = "enrol", !.profile = p].stage = "enrol"
        BY DEF Idle
      <3> QED BY <2>1, <2>4, <3>1 DEF BeginSignUp
    <2>5. ASSUME NEW p \in Campers, BeginWithdraw(r, p) PROVE req'[r].stage # "insert"
      <3>1. [Idle EXCEPT !.stage = "cancel", !.profile = p].stage = "cancel"
        BY DEF Idle
      <3> QED BY <2>1, <2>5, <3>1 DEF BeginWithdraw
    <2>6. ASSUME NEW p \in Campers, TentRemoveMember(r, p) PROVE req'[r].stage # "insert"
      <3>1. [Idle EXCEPT !.stage = "remove", !.profile = p].stage = "remove"
        BY DEF Idle
      <3> QED BY <2>1, <2>6, <3>1 DEF TentRemoveMember
    <2>7. ASSUME NEW p \in Campers, NEW t \in Tents, TentAssignMember(r, p, t)
          PROVE  req'[r].stage # "insert"
      <3>1. [Idle EXCEPT !.stage = "readType", !.profile = p, !.tent = t].stage = "readType"
        BY DEF Idle
      <3> QED BY <2>1, <2>7, <3>1 DEF TentAssignMember
    <2> QED BY <1>2, <2>2, <2>3, <2>4, <2>5, <2>6, <2>7 DEF Begin
  <1>3. Finish(r) => req'[r].stage # "insert"
    BY <1>1 DEF Finish, Idle
  <1>4. ASSUME NEW s \in Stages \ {"insert"}, GoTo(r, s) PROVE req'[r].stage # "insert"
    BY <1>1, <1>4 DEF GoTo, RequestRecord
  <1>5. CASE StatementFails(r)
    BY <1>3, <1>5 DEF StatementFails
  <1>6. CASE ListMembers(r)
    <2>1. CASE req[r].profile \in InTent(req[r].tent)
      BY <1>3, <1>6, <2>1 DEF ListMembers
    <2>2. CASE req[r].profile \notin InTent(req[r].tent)
      <3>1. req'[r].stage = "validate"
        BY <1>1, <1>6, <2>2 DEF ListMembers, RequestRecord
      <3> QED BY <3>1
    <2> QED BY <2>1, <2>2
  <1>7. CASE Serve(r) /\ ~Validate(r) /\ ~ListMembers(r)
    BY <1>3, <1>4, <1>7
       DEF Serve, Enrol, CancelAttendance, RemoveTentMember, ReadType, ListTents,
           AssignTentMember, CreateTent, DeleteTent, Stages
  <1> QED BY <1>2, <1>5, <1>6, <1>7

\* A step changes the record of one request only.
LEMMA OthersKept ==
  ASSUME TypeOK, [Next]_vars, NEW r \in Requests, req'[r] # req[r]
  PROVE  Begin(r) \/ Serve(r) \/ StatementFails(r)
  <1>1. ~(EventEdit \/ EventDelete \/ UNCHANGED vars \/ \E p \in Retyped : ChangeMemberType(p))
    BY DEF EventEdit, EventDelete, ChangeMemberType, vars
  <1>2. PICK s \in Requests : Begin(s) \/ Serve(s) \/ StatementFails(s)
    BY <1>1 DEF Next
  <1>3. \A q : req' = [req EXCEPT ![s] = q] => s = r
    BY DEF TypeOK
  <1>4. s = r
    BY <1>2, <1>3
       DEF Begin, TentCreate, TentDelete, BeginSignUp, BeginWithdraw, TentRemoveMember,
           TentAssignMember, Admit, Serve, Enrol, CancelAttendance, RemoveTentMember, ReadType,
           ListTents, ListMembers, Validate, AssignTentMember, CreateTent, DeleteTent, Finish,
           GoTo, StatementFails
  <1> QED BY <1>2, <1>4

LEMMA StepPassed ==
  ASSUME TypeOK, [Next]_vars, NEW r \in Requests, Passed(r)
  PROVE  Passed(r)'
  <1>1. CASE req'[r] = req[r]
    BY <1>1 DEF Passed, Prospective
  <1>2. CASE Validate(r)
    <2>1. req \in [Requests -> RequestRecord] /\ req[r] \in RequestRecord
      BY DEF TypeOK
    <2>2. CASE Finish(r)
      BY <2>1, <2>2 DEF Finish, Idle, Passed
    <2>3. CASE ~Finish(r)
      <3>1. /\ req' = [req EXCEPT ![r].stage = "insert", ![r].read = start]
            /\ BlockingViolations(Prospective(r), Birthdate, Gender, start, MaxAgeGap,
                                  SiblingPairs(Links)) = {}
        BY <1>2, <2>3 DEF Validate
      <3>2. /\ req'[r].mates = req[r].mates
            /\ req'[r].profile = req[r].profile
            /\ req'[r].read = start
        BY <2>1, <3>1 DEF RequestRecord
      <3>3. Prospective(r)' = Prospective(r)
        BY <3>2 DEF Prospective
      <3> QED BY <3>1, <3>2, <3>3 DEF Passed
    <2> QED BY <2>2, <2>3
  <1>3. CASE req'[r] # req[r] /\ ~Validate(r)
    BY <1>3, OthersKept, OtherStages DEF Passed
  <1> QED BY <1>1, <1>2, <1>3

\* The INSERT of an assignment leaves in the tent what was found free of violations,
\* unless a scout has entered it since, or the event has been moved.
LEMMA InsertionSuitable ==
  ASSUME TypeOK, [Next]_vars, NEW r \in Requests, Passed(r),
         req[r].stage = "insert", member' # member, req'[r] # req[r],
         InTent(req[r].tent) \subseteq req[r].mates, req[r].read = start
  PROVE  Suitable({p \in Profiles : member'[p] = req[r].tent}, start)
  <1>1. /\ member \in [Profiles -> Tents \union {NoTent}]
        /\ req[r] \in RequestRecord
        /\ start \in Starts
    BY DEF TypeOK
  <1>2. /\ req[r].profile \in Profiles
        /\ req[r].mates \in SUBSET Profiles
    BY <1>1 DEF RequestRecord
  <1>3. AssignTentMember(r)
    <2>1. ~Begin(r)
      BY DEF Begin, TentCreate, TentDelete, BeginSignUp, BeginWithdraw, TentRemoveMember,
             TentAssignMember, Admit
    <2>2. ~StatementFails(r)
      BY DEF StatementFails
    <2>3. Serve(r)
      BY <2>1, <2>2, OthersKept
    <2> QED BY <2>3 DEF Serve, Enrol, CancelAttendance, RemoveTentMember, ReadType, ListTents,
                        ListMembers, Validate, CreateTent, DeleteTent
  <1>4. {p \in Profiles : member'[p] = req[r].tent} \in SUBSET Prospective(r)
    <2>1. \A p \in Profiles : p # req[r].profile => member'[p] = member[p]
      BY <1>1, <1>3 DEF AssignTentMember
    <2> QED BY <2>1 DEF Prospective, InTent
  <1>5. Prospective(r) \in SUBSET Profiles
    BY <1>2 DEF Prospective
  <1>6. BlockingViolations(Prospective(r), Birthdate, Gender, start, MaxAgeGap,
                           SiblingPairs(Links)) = {}
    BY DEF Passed
  <1> QED BY <1>1, <1>4, <1>5, <1>6, NoViolationSuitable

\* Every scout who enters a tent makes an arrangement that satisfies the rules, for every
\* roster, every date and every age gap, whatever overlaps: unless another scout has
\* entered the tent, or the event has been moved, since AssignMember looked.
THEOREM AssignmentsObeyRules == Spec => JoinObeysRules
  <1> DEFINE Inv == \A r \in Requests : Passed(r)
             Obeys == \A r \in Requests :
                 req[r].stage = "insert" /\ member' # member /\ req'[r] # req[r] =>
                    \/ Suitable({p \in Profiles : member'[p] = req[r].tent}, start)
                    \/ ~(InTent(req[r].tent) \subseteq req[r].mates)
                    \/ req[r].read # start
  <1>1. Init => Inv
    BY DEF Init, Passed, Idle
  <1>2. TypeOK /\ Inv /\ [Next]_vars => Inv'
    BY StepPassed
  <1>3. TypeOK /\ Inv /\ [Next]_vars => [Obeys]_vars
    BY InsertionSuitable
  <1>4. Spec => [][Obeys]_vars
    <2> HIDE DEF Inv, Obeys
    <2> QED BY <1>1, <1>2, <1>3, TypeCorrect, PTL DEF Spec
  <1> QED BY <1>4, PTL DEF JoinObeysRules
=============================================================================
