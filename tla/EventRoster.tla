----------------------------- MODULE EventRoster -----------------------------
(***************************************************************************)
(* What the attendance of an event promises to its users: each operation   *)
(* takes effect at once, a post has one holder or none, and whoever        *)
(* withdraws gives up the posts and the driver's seat in the same instant. *)
(* EventAttendance implements it when one request runs at a time and no    *)
(* statement fails.                                                        *)
(***************************************************************************)
EXTENDS Naturals

CONSTANTS Profiles, NoProfile, Posts, MaxSeatbelts

VARIABLES
    exists,     \* the event has been created and not deleted
    known,      \* the profiles that have ever signed up
    attending,  \* the profiles signed up now
    holder,     \* the holder of each post, or NoProfile
    seats       \* the seatbelts each profile offers as a driver, 0 for none

rosterVars == <<exists, known, attending, holder, seats>>

RosterInit ==
    /\ exists = FALSE
    /\ known = {}
    /\ attending = {}
    /\ holder = [post \in Posts |-> NoProfile]
    /\ seats = [p \in Profiles |-> 0]

\* The event appears, once, and it disappears with everything that belongs to it.
Open == /\ ~exists
        /\ exists' = TRUE
        /\ UNCHANGED <<known, attending, holder, seats>>

Close == /\ exists
         /\ exists' = FALSE
         /\ known' = {}
         /\ attending' = {}
         /\ holder' = [post \in Posts |-> NoProfile]
         /\ seats' = [p \in Profiles |-> 0]

SignUp(p) ==
    /\ exists
    /\ known' = known \union {p}
    /\ attending' = attending \union {p}
    /\ UNCHANGED <<exists, holder, seats>>

Withdraw(p) ==
    /\ p \in attending
    /\ attending' = attending \ {p}
    /\ holder' = [post \in Posts |-> IF holder[post] = p THEN NoProfile ELSE holder[post]]
    /\ seats' = [seats EXCEPT ![p] = 0]
    /\ UNCHANGED <<exists, known>>

\* Someone signed up takes a post, from its holder if it has one.
TakePost(p, post) ==
    /\ p \in attending
    /\ holder' = [holder EXCEPT ![post] = p]
    /\ UNCHANGED <<exists, known, attending, seats>>

LeavePost(p, post) ==
    /\ holder[post] = p
    /\ holder' = [holder EXCEPT ![post] = NoProfile]
    /\ UNCHANGED <<exists, known, attending, seats>>

\* A driver comes, goes or changes the number of seatbelts.
OfferSeats(p, n) ==
    /\ p \in known
    /\ seats' = [seats EXCEPT ![p] = n]
    /\ UNCHANGED <<exists, known, attending, holder>>

RosterNext ==
    \/ Open \/ Close
    \/ \E p \in Profiles :
        \/ SignUp(p) \/ Withdraw(p)
        \/ \E post \in Posts : TakePost(p, post) \/ LeavePost(p, post)
        \/ \E n \in 0..MaxSeatbelts : OfferSeats(p, n)

RosterSpec == RosterInit /\ [][RosterNext]_rosterVars
=============================================================================
