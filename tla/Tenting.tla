-------------------------------- MODULE Tenting --------------------------------
(***************************************************************************)
(* The tents of one event: the tables event_tents and event_tent_members,  *)
(* and the handlers and the TentService that change them.  Every action is *)
(* one SQL statement of a request, as in EventAttendance.  AssignMember    *)
(* reads the tent, its members and the event, applies the rules, and       *)
(* inserts the member in a last statement that knows nothing of the rules. *)
(*                                                                         *)
(* Birthdates, genders, approved parent links and the setting of the age   *)
(* gap are constants: a request may read them at any time.  The start of   *)
(* the event is not, EventEdit moves it; nor is the member type, which a   *)
(* roster synchronisation rewrites, and which decides who may have a tent. *)
(* That the event has passed only refuses further requests, and is left    *)
(* out.                                                                    *)
(***************************************************************************)
EXTENDS TentRules

CONSTANTS
    Profiles,     \* rows of the profiles table
    Youth,        \* those whose member_type is "youth" when the event is created
    Birthdate,    \* profiles.birthdate, a function
    Gender,       \* profiles.gender, a function
    Links,        \* the approved connections <<parent, youth>>
    MaxAgeGap,    \* the setting MAX_TENT_AGE_GAP
    Tents,        \* ids of tents
    Requests,     \* handlers that can be in flight at the same time
    NoProfile,    \* no profile
    NoTent,       \* no tent
    NoDate,       \* no date
    Campers,      \* bound: the profiles that are signed up and assigned
    Retyped,      \* bound: the profiles whose member type changes
    Starts,       \* bound: the dates on which the event may start
    MaxTents,     \* bound: tents that exist at the same time
    MaxFaults     \* bound: statements that fail

ASSUME RosterAssumption ==
    /\ NoProfile \notin Profiles
    /\ IsFiniteSet(Profiles)
    /\ Youth \subseteq Profiles
    /\ Campers \union Retyped \subseteq Profiles
    /\ Birthdate \in [Profiles -> Dates]
    /\ Starts \subseteq Dates
    /\ NoDate \notin Dates
    /\ MaxAgeGap \in Nat

ASSUME BoundsAssumption ==
    /\ NoTent \notin Tents
    /\ MaxTents \in Nat
    /\ MaxFaults \in Nat

VARIABLES
    exists,          \* the event has not been deleted
    tentingEnabled,  \* events.tenting_enabled
    start,           \* the date of events.start_time
    youth,           \* the profiles whose member_type is "youth"
    attendee,        \* event_attendees.status, "none" without a row
    tents,           \* the rows of event_tents
    member,          \* the tent that each profile has a member row for
    req,             \* the handlers in flight
    faults           \* statements that have failed so far

vars == <<exists, tentingEnabled, start, youth, attendee, tents, member, req, faults>>

Stages == {"idle", "enrol", "cancel", "remove", "create", "delete",
           "readType", "listTents", "listMembers", "validate", "insert"}

\* mates: the members of the tent as AssignMember has listed them; read: the start of
\* the event as it has read it.
Idle == [stage |-> "idle", profile |-> NoProfile, tent |-> NoTent, mates |-> {},
         read |-> NoDate]

RequestRecord ==
    {q \in [stage: Stages, profile: Profiles \union {NoProfile}, tent: Tents \union {NoTent},
            mates: SUBSET Profiles, read: Starts \union {NoDate}] :
        /\ q.stage \in {"enrol", "cancel", "remove", "readType", "listTents", "listMembers",
                        "validate", "insert"} => q.profile \in Profiles
        /\ q.stage \in {"delete", "readType", "listTents", "listMembers", "validate",
                        "insert"} => q.tent \in Tents}

TypeOK ==
    /\ exists \in BOOLEAN
    /\ tentingEnabled \in BOOLEAN
    /\ start \in Starts
    /\ youth \in SUBSET Profiles
    /\ attendee \in [Profiles -> {"none", "signed_up", "canceled"}]
    /\ tents \in SUBSET Tents
    /\ member \in [Profiles -> Tents \union {NoTent}]
    /\ req \in [Requests -> RequestRecord]
    /\ faults \in 0..MaxFaults

\* The event as EventCreate inserts it.
Init ==
    /\ exists = TRUE
    /\ tentingEnabled \in BOOLEAN
    /\ start \in Starts
    /\ youth = Youth
    /\ attendee = [p \in Profiles |-> "none"]
    /\ tents = {}
    /\ member = [p \in Profiles |-> NoTent]
    /\ req = [r \in Requests |-> Idle]
    /\ faults = 0

-----------------------------------------------------------------------------

GoTo(r, stage) == req' = [req EXCEPT ![r].stage = stage]
Finish(r) == req' = [req EXCEPT ![r] = Idle]

InTent(t) == {p \in Profiles : member[p] = t}

\* An id is fresh when no row has it and no handler remembers it.
Fresh == {t \in Tents \ tents : \A r \in Requests : req[r].tent # t}

(***************************************************************************)
(* Admission.  The operations on tents are refused while tenting is        *)
(* disabled; a form may name a tent deleted since the page was loaded, or  *)
(* a profile that is not signed up.                                        *)
(***************************************************************************)

Admit(r, request) ==
    /\ exists
    /\ req[r] = Idle
    /\ req' = [req EXCEPT ![r] = request]
    /\ UNCHANGED <<exists, tentingEnabled, start, youth, attendee, tents, member, faults>>

BeginSignUp(r, p) == Admit(r, [Idle EXCEPT !.stage = "enrol", !.profile = p])

BeginWithdraw(r, p) == Admit(r, [Idle EXCEPT !.stage = "cancel", !.profile = p])

TentCreate(r) == tentingEnabled /\ Admit(r, [Idle EXCEPT !.stage = "create"])

TentDelete(r, t) == tentingEnabled /\ Admit(r, [Idle EXCEPT !.stage = "delete", !.tent = t])

TentAssignMember(r, p, t) ==
    /\ tentingEnabled
    /\ Admit(r, [Idle EXCEPT !.stage = "readType", !.profile = p, !.tent = t])

TentRemoveMember(r, p) ==
    tentingEnabled /\ Admit(r, [Idle EXCEPT !.stage = "remove", !.profile = p])

-----------------------------------------------------------------------------
(***************************************************************************)
(* Sign-up and withdrawal: the attendee row, and the tent of who withdraws.*)
(***************************************************************************)

Enrol(r) ==
    /\ req[r].stage = "enrol"
    /\ attendee' = IF exists THEN [attendee EXCEPT ![req[r].profile] = "signed_up"]
                             ELSE attendee
    /\ Finish(r)
    /\ UNCHANGED <<exists, tentingEnabled, start, youth, tents, member, faults>>

CancelAttendance(r) ==
    LET p == req[r].profile
    IN /\ req[r].stage = "cancel"
       /\ attendee' = [attendee EXCEPT ![p] = IF @ = "signed_up" THEN "canceled" ELSE @]
       /\ GoTo(r, "remove")
       /\ UNCHANGED <<exists, tentingEnabled, start, youth, tents, member, faults>>

RemoveTentMember(r) ==
    /\ req[r].stage = "remove"
    /\ member' = [member EXCEPT ![req[r].profile] = NoTent]
    /\ Finish(r)
    /\ UNCHANGED <<exists, tentingEnabled, start, youth, attendee, tents, faults>>

(***************************************************************************)
(* AssignMember.                                                           *)
(***************************************************************************)

\* An adult is refused.
ReadType(r) ==
    /\ req[r].stage = "readType"
    /\ IF req[r].profile \in youth THEN GoTo(r, "listTents") ELSE Finish(r)
    /\ UNCHANGED <<exists, tentingEnabled, start, youth, attendee, tents, member, faults>>

ListTents(r) ==
    /\ req[r].stage = "listTents"
    /\ IF req[r].tent \in tents THEN GoTo(r, "listMembers") ELSE Finish(r)
    /\ UNCHANGED <<exists, tentingEnabled, start, youth, attendee, tents, member, faults>>

\* Nothing is left to do for a profile that is in the tent already.
ListMembers(r) ==
    LET mates == InTent(req[r].tent)
    IN /\ req[r].stage = "listMembers"
       /\ IF req[r].profile \in mates
          THEN Finish(r)
          ELSE req' = [req EXCEPT ![r].stage = "validate", ![r].mates = mates]
       /\ UNCHANGED <<exists, tentingEnabled, start, youth, attendee, tents, member, faults>>

\* Mutant: the rules are applied to the tent as it is, without the newcomer.
Prospective_NotTheNewcomer(r) == req[r].mates

\* The members of the tent together with the newcomer.
Prospective(r) == req[r].mates \union {req[r].profile}

Validate(r) ==
    /\ req[r].stage = "validate"
    /\ IF exists /\ BlockingViolations(Prospective(r), Birthdate, Gender, start, MaxAgeGap,
                                       SiblingPairs(Links)) = {}
       THEN req' = [req EXCEPT ![r].stage = "insert", ![r].read = start]
       ELSE Finish(r)
    /\ UNCHANGED <<exists, tentingEnabled, start, youth, attendee, tents, member, faults>>

\* The INSERT ... SELECT needs the tent, and the foreign key an attendee row of
\* whatever status.
AssignTentMember(r) ==
    LET p == req[r].profile
        t == req[r].tent
    IN /\ req[r].stage = "insert"
       /\ member' = IF t \in tents /\ attendee[p] # "none" THEN [member EXCEPT ![p] = t]
                                                           ELSE member
       /\ Finish(r)
       /\ UNCHANGED <<exists, tentingEnabled, start, youth, attendee, tents, faults>>

(***************************************************************************)
(* Tents and the event.                                                    *)
(***************************************************************************)

CreateTent(r) ==
    /\ req[r].stage = "create"
    /\ \/ /\ exists
          /\ Cardinality(tents) < MaxTents
          /\ \E t \in Fresh : tents' = tents \union {t}
       \/ UNCHANGED tents      \* the event is gone, or the transaction is aborted
    /\ Finish(r)
    /\ UNCHANGED <<exists, tentingEnabled, start, youth, attendee, member, faults>>

\* Mutant: deleting tents leaves their member rows.
DeleteRows_KeepsMembers(doomed) ==
    /\ tents' = tents \ doomed
    /\ UNCHANGED member

\* Deleting tents deletes their member rows.
DeleteRows(doomed) ==
    /\ tents' = tents \ doomed
    /\ member' = [p \in Profiles |-> IF member[p] \in doomed THEN NoTent ELSE member[p]]

DeleteTent(r) ==
    /\ req[r].stage = "delete"
    /\ DeleteRows({req[r].tent})
    /\ Finish(r)
    /\ UNCHANGED <<exists, tentingEnabled, start, youth, attendee, faults>>

\* EventEdit leaves the tents alone, whatever it does to their toggle and the date.
EventEdit ==
    /\ exists
    /\ tentingEnabled' \in BOOLEAN
    /\ start' \in Starts
    /\ UNCHANGED <<exists, youth, attendee, tents, member, req, faults>>

EventDelete ==
    /\ exists
    /\ exists' = FALSE
    /\ attendee' = [p \in Profiles |-> "none"]
    /\ DeleteRows(Tents)
    /\ UNCHANGED <<tentingEnabled, start, youth, req, faults>>

\* A roster synchronisation, or its Revert, rewrites the member type of a profile, and
\* leaves the tents alone.
ChangeMemberType(p) ==
    /\ youth' = IF p \in youth THEN youth \ {p} ELSE youth \union {p}
    /\ UNCHANGED <<exists, tentingEnabled, start, attendee, tents, member, req, faults>>

\* A statement fails and the handler gives up.
StatementFails(r) ==
    /\ faults < MaxFaults
    /\ faults' = faults + 1
    /\ req[r] # Idle
    /\ Finish(r)
    /\ UNCHANGED <<exists, tentingEnabled, start, youth, attendee, tents, member>>

-----------------------------------------------------------------------------

Begin(r) ==
    \/ TentCreate(r)
    \/ \E t \in Tents : TentDelete(r, t)
    \/ \E p \in Campers :
        \/ BeginSignUp(r, p) \/ BeginWithdraw(r, p) \/ TentRemoveMember(r, p)
        \/ \E t \in Tents : TentAssignMember(r, p, t)

Serve(r) ==
    \/ Enrol(r) \/ CancelAttendance(r) \/ RemoveTentMember(r)
    \/ ReadType(r) \/ ListTents(r) \/ ListMembers(r) \/ Validate(r) \/ AssignTentMember(r)
    \/ CreateTent(r) \/ DeleteTent(r)

Next ==
    \/ \E r \in Requests : Begin(r) \/ Serve(r) \/ StatementFails(r)
    \/ EventEdit \/ EventDelete
    \/ \E p \in Retyped : ChangeMemberType(p)

Spec == Init /\ [][Next]_vars

-----------------------------------------------------------------------------
(***************************************************************************)
(* Properties.                                                             *)
(***************************************************************************)

\* The birthday of a scout in a later year: the one of 29 February falls on the 28th
\* when there is no 29th.
Birthday(birthdate, year) ==
    [birthdate EXCEPT !.year = year,
                      !.day = IF @ = 29 /\ birthdate.month = 2 /\ ~IsLeapYear(year) THEN 28
                              ELSE @]

\* The birthdays that a scout has had by the date of the event.
Birthdays(birthdate, at) ==
    {year \in (birthdate.year + 1)..at.year : ~Before(at, Birthday(birthdate, year))}

\* AgeWholeYears, which looks at the last year only, counts the birthdays, wherever the
\* event is moved.
AgeCountsBirthdays ==
    \A p \in Profiles :
        AgeWholeYears(Birthdate[p], start) = Cardinality(Birthdays(Birthdate[p], start))

Siblings(p, q) == \E l, m \in Links : l[1] = m[1] /\ l[2] = p /\ m[2] = q

\* The number of birthdays one scout is ahead of another on a date.
Ahead(p, q, at) == Cardinality(Birthdays(Birthdate[p], at)) -
                   Cardinality(Birthdays(Birthdate[q], at))

Suitable(scouts, at) ==
    \A p, q \in scouts :
        /\ Gender[p] = Gender[q]
        /\ Siblings(p, q) \/ Ahead(p, q, at) <= MaxAgeGap

Arrangements == Starts \X SUBSET Profiles

\* For every date and set of scouts: whether the rules find nothing, and whether they should.
Verdicts ==
    {<<a, BlockingViolations(a[2], Birthdate, Gender, a[1], MaxAgeGap, SiblingPairs(Links)) = {}>>
        : a \in Arrangements}

RightVerdicts == {<<a, Suitable(a[2], a[1])>> : a \in Arrangements}

\* The rules as the code computes them, from the number of genders, differences of ages
\* taken both ways round and pairs of siblings, find nothing in exactly those tents whose
\* scouts share their gender and, siblings excepted, are at most MaxAgeGap birthdays apart,
\* wherever the event is moved.
RulesMeanSuitable == \A v \in Verdicts : v[1][1] = start => v \in RightVerdicts

\* A scout enters a tent only if all its scouts share their gender and, siblings
\* excepted, nobody is more than MaxAgeGap birthdays ahead of another: provided that
\* nobody has entered the tent since AssignMember listed it, and the event has not been
\* moved since it was read.  Who has left, which tents came and went, and what fails
\* does not matter.
JoinObeysRules ==
    [][\A r \in Requests :
         req[r].stage = "insert" /\ member' # member /\ req'[r] # req[r] =>
            \/ Suitable({p \in Profiles : member'[p] = req[r].tent}, start)
            \/ ~(InTent(req[r].tent) \subseteq req[r].mates)
            \/ req[r].read # start
      ]_vars

\* Every member row belongs to a tent and an attendee, and tents have an event,
\* whatever is deleted between the checks of AssignMember and its INSERT.
MembersHaveTents ==
    /\ \A p \in Profiles : member[p] # NoTent =>
          member[p] \in tents /\ attendee[p] # "none"
    /\ ~exists => tents = {}

=============================================================================
