--------------------------- MODULE EventAttendance ---------------------------
(***************************************************************************)
(* Attendance, responsibilities and drivers of one event.                  *)
(*                                                                         *)
(* A request is one HTTP handler of internal/api/events.go.  A handler has *)
(* no transaction: it is a sequence of SQL statements on the tables        *)
(* event_attendees and event_attendee_responsibilities, each atomic, and   *)
(* the statements of requests served at the same time interleave.  Every   *)
(* action below is one statement; what a handler remembers from one        *)
(* statement to the next is the record req[r].                             *)
(*                                                                         *)
(* The statements the same handlers run on cooking patrols and tents touch *)
(* other tables only and are left to the modules of those components.      *)
(***************************************************************************)
EXTENDS Naturals, Sequences, FiniteSets

CONSTANTS
    Profiles,      \* rows of the profiles table
    Requests,      \* handlers that can be in flight at the same time
    NoProfile,     \* no profile
    SPLYouth,      \* youth whose Positions name the Senior Patrol Leader
    Inactive,      \* profiles with status "inactive"
    ToggledPosts,  \* bound: the posts that ToggleResponsibility is asked for
    MaxSeatbelts,  \* bound: the largest seatbelt_count of a form, 0 for no driver
    MaxFaults      \* bound: statements that fail

\* The singleton responsibilities of event.go.
Posts == {"spl", "coordinator", "medical_officer"}

ASSUME ProfilesAssumption ==
    /\ NoProfile \notin Profiles
    /\ SPLYouth \subseteq Profiles
    /\ Inactive \subseteq Profiles
    /\ ToggledPosts \subseteq Posts

ASSUME BoundsAssumption ==
    /\ IsFiniteSet(Requests)
    /\ MaxSeatbelts \in Nat
    /\ MaxFaults \in Nat

VARIABLES
    event,           \* the row of the event, and whether its end time has passed
    driversEnabled,  \* events.drivers_enabled
    attendee,        \* event_attendees.status, "none" without a row
    holds,           \* the posts each profile has a responsibility row for
    seatbelts,       \* seatbelt_count of the driver row, 0 without a row
    req,             \* the handlers in flight
    faults           \* statements that have failed so far

tables == <<attendee, holds, seatbelts>>
vars == <<event, driversEnabled, attendee, holds, seatbelts, req, faults>>

Stages == {"idle", "enrol", "select", "insert", "cancel", "cascade",
           "addDriver", "removeDriver", "updateSeatbelts",
           "attending", "holding", "release", "evict", "reselect"}

Idle == [stage |-> "idle", op |-> "none", profile |-> NoProfile, post |-> "none",
         holder |-> NoProfile, belts |-> 0, step |-> 1]

\* Mutant: the cascade forgets the Senior Patrol Leader.
CascadeOrder_NoSPL == <<"driver", "coordinator", "medical_officer", "driver">>

\* What Withdraw deletes after the cancellation, in its order.
CascadeOrder == <<"driver", "spl", "coordinator", "medical_officer", "driver">>

\* The stages of a request that is about to read or write the rows of a post.
PostStages == {"attending", "holding", "release", "select", "evict", "reselect", "insert"}

RequestRecord ==
    {q \in [stage: Stages, op: {"none", "create", "signUp", "toggle"},
            profile: Profiles \union {NoProfile}, post: Posts \union {"none"},
            holder: Profiles \union {NoProfile}, belts: 0..MaxSeatbelts,
            step: 1..Len(CascadeOrder)] :
        /\ q.stage # "idle" => q.profile \in Profiles
        /\ q.stage \in PostStages => q.post \in Posts
        /\ q.stage = "evict" => q.holder \in Profiles}

TypeOK ==
    /\ event \in {"unborn", "upcoming", "past", "deleted"}
    /\ driversEnabled \in BOOLEAN
    /\ attendee \in [Profiles -> {"none", "signed_up", "canceled"}]
    /\ holds \in [Profiles -> SUBSET Posts]
    /\ seatbelts \in [Profiles -> 0..MaxSeatbelts]
    /\ req \in [Requests -> RequestRecord]
    /\ faults \in 0..MaxFaults

Init ==
    /\ event = "unborn"
    /\ driversEnabled = FALSE
    /\ attendee = [p \in Profiles |-> "none"]
    /\ holds = [p \in Profiles |-> {}]
    /\ seatbelts = [p \in Profiles |-> 0]
    /\ req = [r \in Requests |-> Idle]
    /\ faults = 0

-----------------------------------------------------------------------------
(***************************************************************************)
(* Admission.  A handler first reads the event and refuses a past one; the *)
(* decision is not taken again when its statements run.                    *)
(***************************************************************************)

Admit(r, request) ==
    /\ req[r] = Idle
    /\ req' = [req EXCEPT ![r] = request]
    /\ UNCHANGED <<event, driversEnabled, tables, faults>>

BeginSignUp(r, p) ==
    /\ event = "upcoming"
    /\ p \notin Inactive
    /\ Admit(r, [Idle EXCEPT !.stage = "enrol", !.op = "signUp", !.profile = p])

BeginWithdraw(r, p) ==
    /\ event = "upcoming"
    /\ Admit(r, [Idle EXCEPT !.stage = "cancel", !.profile = p])

BeginToggle(r, p, post) ==
    /\ event = "upcoming"
    /\ Admit(r, [Idle EXCEPT !.stage = "attending", !.op = "toggle",
                             !.profile = p, !.post = post])

BeginDriver(r, p, stage, n) ==
    /\ event = "upcoming"
    /\ driversEnabled
    /\ Admit(r, [Idle EXCEPT !.stage = stage, !.profile = p, !.belts = n])

(***************************************************************************)
(* The event row.  EventCreate goes on, as a request, to sign its creator  *)
(* up, unless the creator has no profile.  Deleting the row deletes the    *)
(* rows that reference it.                                                 *)
(***************************************************************************)

EventCreate(r) ==
    /\ event = "unborn"
    /\ req[r] = Idle
    /\ event' \in {"upcoming", "past"}
    /\ driversEnabled' \in BOOLEAN
    /\ \/ UNCHANGED req
       \/ \E p \in Profiles :
            req' = [req EXCEPT ![r] = [Idle EXCEPT !.stage = "enrol", !.op = "create",
                                                   !.profile = p]]
    /\ UNCHANGED <<tables, faults>>

EventEdit ==
    /\ event \in {"upcoming", "past"}
    /\ event' \in {"upcoming", "past"}
    /\ driversEnabled' \in BOOLEAN
    /\ UNCHANGED <<tables, req, faults>>

EventDelete ==
    /\ event \in {"upcoming", "past"}
    /\ event' = "deleted"
    /\ attendee' = [p \in Profiles |-> "none"]
    /\ holds' = [p \in Profiles |-> {}]
    /\ seatbelts' = [p \in Profiles |-> 0]
    /\ UNCHANGED <<driversEnabled, req, faults>>

EndTimePasses ==
    /\ event = "upcoming"
    /\ event' = "past"
    /\ UNCHANGED <<driversEnabled, tables, req, faults>>

-----------------------------------------------------------------------------
(***************************************************************************)
(* Statements.  GoTo and Finish move the request that runs one.            *)
(***************************************************************************)

GoTo(r, stage) == req' = [req EXCEPT ![r].stage = stage]
Finish(r) == req' = [req EXCEPT ![r] = Idle]

Holders(post) == {p \in Profiles : post \in holds[p]}

\* A responsibility row references the row of the attendee, of whatever status.
HasAttendeeRow(p) == attendee[p] # "none"

\* DELETE of one responsibility row, the driver's among them.
DeleteResponsibility(p, responsibility) ==
    /\ holds' = [holds EXCEPT ![p] = @ \ {responsibility}]
    /\ seatbelts' = IF responsibility = "driver" THEN [seatbelts EXCEPT ![p] = 0]
                                                 ELSE seatbelts

\* The post that SignUp and EventCreate assign after the sign-up, if any.
AutoPost(op, p) == IF op = "create" THEN "coordinator"
                   ELSE IF p \in SPLYouth THEN "spl" ELSE "none"

Enrol(r) ==
    LET p == req[r].profile
        post == AutoPost(req[r].op, p)
    IN /\ req[r].stage = "enrol"
       /\ \/ /\ event \in {"upcoming", "past"}
             /\ attendee' = [attendee EXCEPT ![p] = "signed_up"]
             /\ IF post = "none"
                THEN Finish(r)
                ELSE req' = [req EXCEPT ![r].stage = "select", ![r].post = post]
          \/ /\ event = "deleted"      \* the foreign key refuses the row
             /\ Finish(r)
             /\ UNCHANGED attendee
       /\ UNCHANGED <<event, driversEnabled, holds, seatbelts, faults>>

(***************************************************************************)
(* AssignResponsibility: a SELECT that looks for another holder, then an   *)
(* INSERT.  A conflict ends a sign-up; a toggle evicts the holder that the *)
(* SELECT happened to return and tries once more.                          *)
(***************************************************************************)

\* Mutant: the assignment that follows a sign-up does not look for another holder.
OtherHolders_AutoUnchecked(r) ==
    IF req[r].op = "toggle" THEN Holders(req[r].post) \ {req[r].profile} ELSE {}

OtherHolders(r) == Holders(req[r].post) \ {req[r].profile}

\* Mutant: a toggle does not assign after it has evicted.
SelectHolder_NotAgain(r) ==
    /\ req[r].stage \in {"select", "reselect"}
    /\ IF req[r].stage = "reselect" THEN Finish(r)
       ELSE IF OtherHolders(r) = {} THEN GoTo(r, "insert")
       ELSE \E h \in OtherHolders(r) :
              req' = [req EXCEPT ![r].stage = "evict", ![r].holder = h]
    /\ UNCHANGED <<event, driversEnabled, tables, faults>>

SelectHolder(r) ==
    /\ req[r].stage \in {"select", "reselect"}
    /\ \/ /\ OtherHolders(r) = {}
          /\ GoTo(r, "insert")
       \/ /\ OtherHolders(r) # {}
          /\ IF req[r].op = "toggle" /\ req[r].stage = "select"
             THEN \E h \in OtherHolders(r) :
                    req' = [req EXCEPT ![r].stage = "evict", ![r].holder = h]
             ELSE Finish(r)
    /\ UNCHANGED <<event, driversEnabled, tables, faults>>

\* Mutant: no foreign key to the attendee.
InsertPost_NoForeignKey(r) ==
    /\ req[r].stage = "insert"
    /\ holds' = [holds EXCEPT ![req[r].profile] = @ \union {req[r].post}]
    /\ Finish(r)
    /\ UNCHANGED <<event, driversEnabled, attendee, seatbelts, faults>>

InsertPost(r) ==
    LET p == req[r].profile
    IN /\ req[r].stage = "insert"
       /\ IF HasAttendeeRow(p)
          THEN holds' = [holds EXCEPT ![p] = @ \union {req[r].post}]
          ELSE UNCHANGED holds
       /\ Finish(r)
       /\ UNCHANGED <<event, driversEnabled, attendee, seatbelts, faults>>

EvictHolder(r) ==
    /\ req[r].stage = "evict"
    /\ DeleteResponsibility(req[r].holder, req[r].post)
    /\ GoTo(r, "reselect")
    /\ UNCHANGED <<event, driversEnabled, attendee, faults>>

\* Mutant: a profile that is not signed up is not refused.
CheckAttending_Anyone(r) ==
    /\ req[r].stage = "attending"
    /\ IF HasAttendeeRow(req[r].profile) THEN GoTo(r, "holding") ELSE Finish(r)
    /\ UNCHANGED <<event, driversEnabled, tables, faults>>

\* ToggleResponsibility: is the profile signed up, does it hold the post?
CheckAttending(r) ==
    /\ req[r].stage = "attending"
    /\ IF attendee[req[r].profile] = "signed_up" THEN GoTo(r, "holding") ELSE Finish(r)
    /\ UNCHANGED <<event, driversEnabled, tables, faults>>

CheckHolding(r) ==
    /\ req[r].stage = "holding"
    /\ GoTo(r, IF req[r].post \in holds[req[r].profile] THEN "release" ELSE "select")
    /\ UNCHANGED <<event, driversEnabled, tables, faults>>

ReleasePost(r) ==
    /\ req[r].stage = "release"
    /\ DeleteResponsibility(req[r].profile, req[r].post)
    /\ Finish(r)
    /\ UNCHANGED <<event, driversEnabled, attendee, faults>>

(***************************************************************************)
(* Withdraw: cancel the attendance, then delete the responsibilities one   *)
(* statement at a time.                                                    *)
(***************************************************************************)

\* Mutant: a withdrawal that cancels no attendance does not run the cascade.
CancelAttendance_OnlyFirst(r) ==
    LET p == req[r].profile
    IN /\ req[r].stage = "cancel"
       /\ IF attendee[p] = "signed_up"
          THEN attendee' = [attendee EXCEPT ![p] = "canceled"] /\ GoTo(r, "cascade")
          ELSE UNCHANGED attendee /\ Finish(r)
       /\ UNCHANGED <<event, driversEnabled, holds, seatbelts, faults>>

CancelAttendance(r) ==
    LET p == req[r].profile
    IN /\ req[r].stage = "cancel"
       /\ attendee' = [attendee EXCEPT ![p] = IF @ = "signed_up" THEN "canceled" ELSE @]
       /\ GoTo(r, "cascade")
       /\ UNCHANGED <<event, driversEnabled, holds, seatbelts, faults>>

NextInCascade(r) ==
    IF req[r].step < Len(CascadeOrder) THEN req' = [req EXCEPT ![r].step = @ + 1]
                                       ELSE Finish(r)

CascadeDelete(r) ==
    /\ req[r].stage = "cascade"
    /\ DeleteResponsibility(req[r].profile, CascadeOrder[req[r].step])
    /\ NextInCascade(r)
    /\ UNCHANGED <<event, driversEnabled, attendee, faults>>

\* Mutant: a driver who is added again adds seatbelts to the row.
AddDriver_Accumulates(r) ==
    LET p == req[r].profile
    IN /\ req[r].stage = "addDriver"
       /\ IF HasAttendeeRow(p)
          THEN seatbelts' = [seatbelts EXCEPT ![p] = @ + req[r].belts]
          ELSE UNCHANGED seatbelts
       /\ Finish(r)
       /\ UNCHANGED <<event, driversEnabled, attendee, holds, faults>>

\* The three driver handlers, each with one statement on the caller's own profile.
AddDriver(r) ==
    LET p == req[r].profile
    IN /\ req[r].stage = "addDriver"
       /\ IF HasAttendeeRow(p)
          THEN seatbelts' = [seatbelts EXCEPT ![p] = req[r].belts]
          ELSE UNCHANGED seatbelts
       /\ Finish(r)
       /\ UNCHANGED <<event, driversEnabled, attendee, holds, faults>>

RemoveDriver(r) ==
    /\ req[r].stage = "removeDriver"
    /\ DeleteResponsibility(req[r].profile, "driver")
    /\ Finish(r)
    /\ UNCHANGED <<event, driversEnabled, attendee, faults>>

UpdateDriverSeatbelt(r) ==
    LET p == req[r].profile
    IN /\ req[r].stage = "updateSeatbelts"
       /\ seatbelts' = [seatbelts EXCEPT ![p] = IF @ > 0 THEN req[r].belts ELSE @]
       /\ Finish(r)
       /\ UNCHANGED <<event, driversEnabled, attendee, holds, faults>>

(***************************************************************************)
(* A statement fails: the database is unreachable or the client has gone   *)
(* and the context of the request is cancelled.  Every handler gives up,   *)
(* but Withdraw ignores the errors of its cascade and runs the rest of it. *)
(***************************************************************************)

StatementFails(r) ==
    /\ faults < MaxFaults
    /\ faults' = faults + 1
    /\ req[r].stage # "idle"
    /\ \/ Finish(r)
       \/ /\ req[r].stage = "cascade"
          /\ NextInCascade(r)
    /\ UNCHANGED <<event, driversEnabled, tables>>

-----------------------------------------------------------------------------

Begin(r) ==
    \/ EventCreate(r)
    \/ \E p \in Profiles :
        \/ BeginSignUp(r, p)
        \/ BeginWithdraw(r, p)
        \/ \E post \in ToggledPosts : BeginToggle(r, p, post)
        \/ \E n \in 1..MaxSeatbelts, stage \in {"addDriver", "updateSeatbelts"} :
             BeginDriver(r, p, stage, n)
        \/ MaxSeatbelts > 0 /\ BeginDriver(r, p, "removeDriver", 0)

Serve(r) ==
    \/ Enrol(r) \/ SelectHolder(r) \/ InsertPost(r) \/ EvictHolder(r)
    \/ CheckAttending(r) \/ CheckHolding(r) \/ ReleasePost(r)
    \/ CancelAttendance(r) \/ CascadeDelete(r)
    \/ AddDriver(r) \/ RemoveDriver(r) \/ UpdateDriverSeatbelt(r)

Next ==
    \/ \E r \in Requests : Begin(r) \/ Serve(r) \/ StatementFails(r)
    \/ EventEdit \/ EventDelete \/ EndTimePasses

Spec == Init /\ [][Next]_vars

\* net/http runs every handler it has accepted to its end.
FairSpec == Spec /\ \A r \in Requests : WF_vars(Serve(r))

-----------------------------------------------------------------------------
(***************************************************************************)
(* Properties.                                                             *)
(***************************************************************************)

\* At most one profile holds a singleton responsibility of the event
\* (AssignResponsibility refuses to add a second holder).
SingletonHolders == \A post \in Posts : \A p, q \in Holders(post) : p = q

\* The profiles that hold a post, or whose INSERT is the next statement of a
\* request that found nobody else in it.
Claims(post) == Holders(post) \union
    {req[r].profile : r \in {s \in Requests : req[s].stage = "insert" /\ req[s].post = post}}

\* The SELECT and the INSERT of AssignResponsibility are not one transaction, so
\* overlapping requests can each add a holder; there are never more holders, or
\* requests about to add one, than requests in flight at the same time.
OversubscriptionBounded ==
    \A post \in Posts : Cardinality(Claims(post)) <= Cardinality(Requests)

\* Whatever fails and whatever overlaps, EventDelete included, a responsibility
\* row has an attendee row, and an attendee row has an event.
ReferentialIntegrity ==
    \A p \in Profiles :
        /\ holds[p] # {} \/ seatbelts[p] > 0 => HasAttendeeRow(p)
        /\ HasAttendeeRow(p) => event \in {"upcoming", "past"}

\* When no handler is at work on a profile that has withdrawn, it is left with no
\* post (the cascade of Withdraw, and the check of ToggleResponsibility).
WithdrawnHoldNoPost ==
    \A p \in Profiles :
        attendee[p] = "canceled" /\ (\A r \in Requests : req[r].profile # p) => holds[p] = {}

\* A Withdraw that meets no error leaves its profile with nothing, also when it
\* repeats one that failed between the cancellation and the end of the cascade.
RetriedWithdrawClears ==
    \A p \in Profiles :
        (faults = MaxFaults /\ \E r \in Requests : /\ req[r].stage = "cancel"
                                                   /\ req[r].profile = p)
            ~> (holds[p] = {} /\ seatbelts[p] = 0)

\* A toggle that has evicted the holder of a post, and meets no error, does not end with
\* the post empty: either its profile is still an attendee and gets the post, or whoever
\* has come in between is left in it, unless the event has been deleted.
ReplacementFillsPost ==
    [][\A r \in Requests :
         /\ req[r].op = "toggle" /\ req[r].stage \in {"evict", "reselect", "insert"}
         /\ req'[r] = Idle /\ faults' = faults
         => (\E p \in Profiles : req[r].post \in holds'[p]) \/ event = "deleted"
      ]_vars

(***************************************************************************)
(* The refinement mapping.  A profile in the cascade of its withdrawal has *)
(* left already; a post whose holder is evicted to make room is still the  *)
(* holder's until the INSERT.                                              *)
(***************************************************************************)

Leaving == {req[r].profile : r \in {s \in Requests : req[s].stage = "cascade"}}

Staying(post) ==
    (Holders(post) \ Leaving) \union
        {req[r].holder : r \in {s \in Requests :
            req[s].post = post /\ req[s].holder \in Profiles /\ event # "deleted"}}

Roster == INSTANCE EventRoster WITH
    exists    <- event \in {"upcoming", "past"},
    known     <- {p \in Profiles : HasAttendeeRow(p)},
    attending <- {p \in Profiles : attendee[p] = "signed_up"},
    holder    <- [post \in Posts |-> IF Staying(post) = {} THEN NoProfile
                                     ELSE CHOOSE p \in Staying(post) : TRUE],
    seats     <- [p \in Profiles |-> IF p \in Leaving THEN 0 ELSE seatbelts[p]]

\* With one request at a time and no failure, the handlers do what EventRoster
\* promises: a withdrawal and a replacement look atomic.
ImplementsRoster == Roster!RosterSpec

=============================================================================
