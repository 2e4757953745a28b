---------------------------- MODULE CookingPatrols ----------------------------
(***************************************************************************)
(* The cooking patrols of one event: the tables event_cooking_patrols and  *)
(* event_cooking_patrol_members, the cooking toggle of the event, and the  *)
(* handlers and the CookingPatrolService that change them.                 *)
(*                                                                         *)
(* As in EventAttendance, a request is one HTTP handler and every action   *)
(* is one SQL statement of it; here two operations, SetCookingPatrolCook   *)
(* and UpdateWithCooking, are transactions and take effect in one step.    *)
(* The event is upcoming throughout: that it has passed only refuses       *)
(* further requests.  A synchronisation with Scoutbook (RosterSync) may    *)
(* change the type of a member at any time.                                *)
(***************************************************************************)
EXTENDS Naturals, FiniteSets

CONSTANTS
    Profiles,    \* rows of the profiles table
    Adults,      \* those whose member_type is "adult" when the event is created
    Retyped,     \* bound: those whose member_type a synchronisation may change
    Patrols,     \* ids of cooking patrols
    Requests,    \* handlers that can be in flight at the same time
    NoProfile,   \* no profile
    NoPatrol,    \* no patrol
    TabOps,      \* bound: the operations of the cooking tab that are asked for
    MaxYouth,    \* bound: youth patrols that exist at the same time
    MaxFaults    \* bound: statements that fail

\* The operations of the cooking tab, by the first statement of their handlers.
AllTabOps == {"createYouth", "delete", "place", "listPatrols", "findPatrol", "clearCook"}

ASSUME ConstantsAssumption ==
    /\ Adults \subseteq Profiles
    /\ Retyped \subseteq Profiles
    /\ NoProfile \notin Profiles
    /\ NoPatrol \notin Patrols
    /\ TabOps \subseteq AllTabOps
    /\ MaxYouth \in Nat
    /\ MaxFaults \in Nat

VARIABLES
    exists,          \* the event has not been deleted
    cookingEnabled,  \* events.cooking_enabled
    adults,          \* the profiles whose member_type is "adult"
    attendee,        \* event_attendees.status, "none" without a row
    patrol,          \* the kind of each patrol, "none" without a row
    member,          \* the patrol that each profile has a member row for
    cook,            \* the profiles whose member row has is_cook
    req,             \* the handlers in flight
    faults           \* statements that have failed so far

vars == <<exists, cookingEnabled, adults, attendee, patrol, member, cook, req, faults>>

Stages == AllTabOps \union
    {"idle", "enrol", "readToggle", "findAdultPatrol", "createAdult", "assign",
     "readType", "checkPatrol", "cancel", "listMembers", "clearListed", "remove", "setCook",
     "update"}

\* adult: the member type as read; seen: the patrols of ListCookingPatrols; was, wanted:
\* the toggle of an EventEdit.
Idle == [stage |-> "idle", profile |-> NoProfile, adult |-> FALSE, patrol |-> NoPatrol,
         seen |-> {}, was |-> FALSE, wanted |-> FALSE]

RequestRecord ==
    {q \in [stage: Stages, profile: Profiles \union {NoProfile},
            adult: BOOLEAN, patrol: Patrols \union {NoPatrol}, seen: SUBSET Patrols,
            was: BOOLEAN, wanted: BOOLEAN] :
        /\ q.stage \in {"enrol", "readToggle", "readType", "findAdultPatrol", "createAdult",
                        "place", "checkPatrol", "assign", "cancel", "listPatrols",
                        "listMembers", "clearListed", "remove", "findPatrol",
                        "setCook"} => q.profile \in Profiles
        /\ q.stage \in {"place", "checkPatrol", "assign", "delete", "clearListed", "findPatrol",
                        "setCook", "clearCook"} => q.patrol \in Patrols}

TypeOK ==
    /\ exists \in BOOLEAN
    /\ cookingEnabled \in BOOLEAN
    /\ adults \in SUBSET Profiles
    /\ attendee \in [Profiles -> {"none", "signed_up", "canceled"}]
    /\ patrol \in [Patrols -> {"none", "adult", "youth"}]
    /\ member \in [Profiles -> Patrols \union {NoPatrol}]
    /\ cook \in SUBSET Profiles
    /\ req \in [Requests -> RequestRecord]
    /\ faults \in 0..MaxFaults

\* The event as EventCreate inserts it: with or without cooking, and no patrol yet.
Init ==
    /\ exists = TRUE
    /\ cookingEnabled \in BOOLEAN
    /\ adults = Adults
    /\ attendee = [p \in Profiles |-> "none"]
    /\ patrol = [k \in Patrols |-> "none"]
    /\ member = [p \in Profiles |-> NoPatrol]
    /\ cook = {}
    /\ req = [r \in Requests |-> Idle]
    /\ faults = 0

-----------------------------------------------------------------------------

GoTo(r, stage) == req' = [req EXCEPT ![r].stage = stage]
Finish(r) == req' = [req EXCEPT ![r] = Idle]

OfKind(kind) == {k \in Patrols : patrol[k] = kind}
Members(k) == {p \in Profiles : member[p] = k}

\* An id is fresh when no row has it and no handler remembers it.
Fresh == {k \in OfKind("none") : \A r \in Requests : req[r].patrol # k /\ k \notin req[r].seen}

(***************************************************************************)
(* Admission.  The operations of the cooking tab are refused while cooking *)
(* is disabled; the form that asks for one may name a patrol that has been *)
(* deleted since the page was loaded.                                      *)
(***************************************************************************)

Admit(r, request) ==
    /\ exists
    /\ req[r] = Idle
    /\ req' = [req EXCEPT ![r] = request]
    /\ UNCHANGED <<exists, cookingEnabled, adults, attendee, patrol, member, cook, faults>>

BeginSignUp(r, p) == Admit(r, [Idle EXCEPT !.stage = "enrol", !.profile = p])

BeginWithdraw(r, p) == Admit(r, [Idle EXCEPT !.stage = "cancel", !.profile = p])

BeginTab(r, op, p, k) ==
    /\ cookingEnabled
    /\ Admit(r, [Idle EXCEPT !.stage = op, !.profile = p, !.patrol = k])

\* EventEdit reads the toggle here and compares it in its transaction later.
BeginEdit(r, wanted) ==
    Admit(r, [Idle EXCEPT !.stage = "update", !.was = cookingEnabled, !.wanted = wanted])

Begin(r) ==
    \/ \E p \in Profiles : BeginSignUp(r, p) \/ BeginWithdraw(r, p)
    \/ \E wanted \in BOOLEAN : BeginEdit(r, wanted)
    \/ "createYouth" \in TabOps /\ BeginTab(r, "createYouth", NoProfile, NoPatrol)
    \/ \E k \in Patrols, op \in TabOps \intersect {"delete", "clearCook"} :
         BeginTab(r, op, NoProfile, k)
    \/ \E p \in Profiles, k \in Patrols, op \in TabOps \intersect {"place", "findPatrol"} :
         BeginTab(r, op, p, k)
    \/ \E p \in Profiles :
         "listPatrols" \in TabOps /\ BeginTab(r, "listPatrols", p, NoPatrol)

-----------------------------------------------------------------------------
(***************************************************************************)
(* SignUp: the attendee row, then AfterSignUp.                             *)
(***************************************************************************)

Enrol(r) ==
    /\ req[r].stage = "enrol"
    /\ IF exists
       THEN /\ attendee' = [attendee EXCEPT ![req[r].profile] = "signed_up"]
            /\ GoTo(r, "readToggle")
       ELSE Finish(r) /\ UNCHANGED attendee
    /\ UNCHANGED <<exists, cookingEnabled, adults, patrol, member, cook, faults>>

ReadToggle(r) ==
    /\ req[r].stage = "readToggle"
    /\ IF exists /\ cookingEnabled THEN GoTo(r, "readType") ELSE Finish(r)
    /\ UNCHANGED <<exists, cookingEnabled, adults, attendee, patrol, member, cook, faults>>

\* Placing, on a sign-up, is for adults only.
ReadType(r) ==
    /\ req[r].stage = "readType"
    /\ IF req[r].profile \in adults
       THEN req' = [req EXCEPT ![r].stage = "findAdultPatrol", ![r].adult = TRUE]
       ELSE Finish(r)
    /\ UNCHANGED <<exists, cookingEnabled, adults, attendee, patrol, member, cook, faults>>

FindAdultPatrol(r) ==
    /\ req[r].stage = "findAdultPatrol"
    /\ \/ \E k \in OfKind("adult") :
            req' = [req EXCEPT ![r].stage = "assign", ![r].patrol = k]
       \/ /\ OfKind("adult") = {}
          /\ GoTo(r, "createAdult")
    /\ UNCHANGED <<exists, cookingEnabled, adults, attendee, patrol, member, cook, faults>>

\* Mutant: the sign-up creates the adult patrol and does not join it.
CreateAdult_NotJoined(r) ==
    /\ req[r].stage = "createAdult"
    /\ IF exists /\ OfKind("adult") = {}
       THEN \E k \in Fresh : patrol' = [patrol EXCEPT ![k] = "adult"]
       ELSE UNCHANGED patrol
    /\ Finish(r)
    /\ UNCHANGED <<exists, cookingEnabled, adults, attendee, member, cook, faults>>

\* The index on is_adult refuses a second adult patrol, and the sign-up gives up.
CreateAdult(r) ==
    /\ req[r].stage = "createAdult"
    /\ \/ /\ exists
          /\ OfKind("adult") = {}
          /\ \E k \in Fresh :
               /\ patrol' = [patrol EXCEPT ![k] = "adult"]
               /\ req' = [req EXCEPT ![r].stage = "assign", ![r].patrol = k]
       \/ /\ ~exists \/ OfKind("adult") # {}
          /\ Finish(r)
          /\ UNCHANGED patrol
    /\ UNCHANGED <<exists, cookingEnabled, adults, attendee, member, cook, faults>>

(***************************************************************************)
(* AssignMember: an adult only into a patrol that ListCookingPatrols shows *)
(* to be the adults'.  The INSERT needs the patrol and the attendee row,   *)
(* of whatever status.                                                     *)
(***************************************************************************)

Place(r) ==
    /\ req[r].stage = "place"
    /\ IF req[r].profile \in adults
       THEN req' = [req EXCEPT ![r].stage = "checkPatrol", ![r].adult = TRUE]
       ELSE req' = [req EXCEPT ![r].stage = "assign", ![r].adult = FALSE]
    /\ UNCHANGED <<exists, cookingEnabled, adults, attendee, patrol, member, cook, faults>>

\* Mutant: the adult is refused only when the listing shows no such patrol.
CheckPatrol_AnyPatrol(r) ==
    /\ req[r].stage = "checkPatrol"
    /\ IF patrol[req[r].patrol] # "none" THEN GoTo(r, "assign") ELSE Finish(r)
    /\ UNCHANGED <<exists, cookingEnabled, adults, attendee, patrol, member, cook, faults>>

CheckPatrol(r) ==
    /\ req[r].stage = "checkPatrol"
    /\ IF patrol[req[r].patrol] = "adult" THEN GoTo(r, "assign") ELSE Finish(r)
    /\ UNCHANGED <<exists, cookingEnabled, adults, attendee, patrol, member, cook, faults>>

\* Mutants: a member who is moved stays a cook; the patrol need not exist.
Assign_KeepsCook(r) ==
    LET p == req[r].profile
        k == req[r].patrol
    IN /\ req[r].stage = "assign"
       /\ member' = IF patrol[k] # "none" /\ attendee[p] # "none"
                    THEN [member EXCEPT ![p] = k] ELSE member
       /\ Finish(r)
       /\ UNCHANGED <<exists, cookingEnabled, adults, attendee, patrol, cook, faults>>

Assign_AnyPatrolId(r) ==
    LET p == req[r].profile
    IN /\ req[r].stage = "assign"
       /\ IF attendee[p] # "none"
          THEN /\ member' = [member EXCEPT ![p] = req[r].patrol]
               /\ cook' = cook \ {p}
          ELSE UNCHANGED <<member, cook>>
       /\ Finish(r)
       /\ UNCHANGED <<exists, cookingEnabled, adults, attendee, patrol, faults>>

Assign(r) ==
    LET p == req[r].profile
        k == req[r].patrol
    IN /\ req[r].stage = "assign"
       /\ IF patrol[k] # "none" /\ attendee[p] # "none"
          THEN /\ member' = [member EXCEPT ![p] = k]
               /\ cook' = cook \ {p}
          ELSE UNCHANGED <<member, cook>>
       /\ Finish(r)
       /\ UNCHANGED <<exists, cookingEnabled, adults, attendee, patrol, faults>>

(***************************************************************************)
(* Withdraw and RemoveMember: find out, in two SELECTs, which patrol the   *)
(* profile cooks for; clear the cook of that patrol; delete the row.       *)
(***************************************************************************)

\* Mutant: a withdrawal that cancels no attendance does not run the cascade.
CancelAttendance_OnlyFirst(r) ==
    LET p == req[r].profile
    IN /\ req[r].stage = "cancel"
       /\ IF attendee[p] = "signed_up"
          THEN attendee' = [attendee EXCEPT ![p] = "canceled"] /\ GoTo(r, "listPatrols")
          ELSE UNCHANGED attendee /\ Finish(r)
       /\ UNCHANGED <<exists, cookingEnabled, adults, patrol, member, cook, faults>>

CancelAttendance(r) ==
    LET p == req[r].profile
    IN /\ req[r].stage = "cancel"
       /\ attendee' = [attendee EXCEPT ![p] = IF @ = "signed_up" THEN "canceled" ELSE @]
       /\ GoTo(r, "listPatrols")
       /\ UNCHANGED <<exists, cookingEnabled, adults, patrol, member, cook, faults>>

ListPatrols(r) ==
    /\ req[r].stage = "listPatrols"
    /\ req' = [req EXCEPT ![r].stage = "listMembers",
                          ![r].seen = {k \in Patrols : patrol[k] # "none"}]
    /\ UNCHANGED <<exists, cookingEnabled, adults, attendee, patrol, member, cook, faults>>

\* Mutant: the cook of the patrol is cleared whether it is the profile or not.
ListMembers_AnyCook(r) ==
    LET p == req[r].profile
    IN /\ req[r].stage = "listMembers"
       /\ req' = [req EXCEPT ![r] =
             [Idle EXCEPT !.stage = "clearListed", !.profile = p, !.patrol = member[p]]]
       /\ UNCHANGED <<exists, cookingEnabled, adults, attendee, patrol, member, cook, faults>>

ListMembers(r) ==
    LET p == req[r].profile
        k == member[p]
    IN /\ req[r].stage = "listMembers"
       /\ req' = [req EXCEPT ![r] =
             IF p \in cook /\ k \in req[r].seen
             THEN [Idle EXCEPT !.stage = "clearListed", !.profile = p, !.patrol = k]
             ELSE [Idle EXCEPT !.stage = "remove", !.profile = p]]
       /\ UNCHANGED <<exists, cookingEnabled, adults, attendee, patrol, member, cook, faults>>

ClearListed(r) ==
    /\ req[r].stage = "clearListed"
    /\ cook' = cook \ Members(req[r].patrol)
    /\ GoTo(r, "remove")
    /\ UNCHANGED <<exists, cookingEnabled, adults, attendee, patrol, member, faults>>

Remove(r) ==
    LET p == req[r].profile
    IN /\ req[r].stage = "remove"
       /\ member' = [member EXCEPT ![p] = NoPatrol]
       /\ cook' = cook \ {p}
       /\ Finish(r)
       /\ UNCHANGED <<exists, cookingEnabled, adults, attendee, patrol, faults>>

(***************************************************************************)
(* The cooks, and the youth patrols.                                       *)
(***************************************************************************)

FindPatrol(r) ==
    /\ req[r].stage = "findPatrol"
    /\ IF patrol[req[r].patrol] # "none" THEN GoTo(r, "setCook") ELSE Finish(r)
    /\ UNCHANGED <<exists, cookingEnabled, adults, attendee, patrol, member, cook, faults>>

SetCook(r) ==
    LET p == req[r].profile
        k == req[r].patrol
    IN /\ req[r].stage = "setCook"
       /\ cook' = IF member[p] = k THEN (cook \ Members(k)) \union {p} ELSE cook
       /\ Finish(r)
       /\ UNCHANGED <<exists, cookingEnabled, adults, attendee, patrol, member, faults>>

ClearCook(r) ==
    /\ req[r].stage = "clearCook"
    /\ cook' = cook \ Members(req[r].patrol)
    /\ Finish(r)
    /\ UNCHANGED <<exists, cookingEnabled, adults, attendee, patrol, member, faults>>

CreateYouth(r) ==
    /\ req[r].stage = "createYouth"
    /\ \/ /\ exists
          /\ Cardinality(OfKind("youth")) < MaxYouth
          /\ \E k \in Fresh : patrol' = [patrol EXCEPT ![k] = "youth"]
       \/ UNCHANGED patrol      \* the event is gone, or the transaction is aborted
    /\ Finish(r)
    /\ UNCHANGED <<exists, cookingEnabled, adults, attendee, member, cook, faults>>

\* Deleting patrols deletes their member rows.
DeletePatrols(doomed) ==
    /\ patrol' = [k \in Patrols |-> IF k \in doomed THEN "none" ELSE patrol[k]]
    /\ member' = [p \in Profiles |-> IF member[p] \in doomed THEN NoPatrol ELSE member[p]]
    /\ cook' = {p \in cook : member[p] \notin doomed}

Delete(r) ==
    /\ req[r].stage = "delete"
    /\ DeletePatrols({req[r].patrol})
    /\ Finish(r)
    /\ UNCHANGED <<exists, cookingEnabled, adults, attendee, faults>>

(***************************************************************************)
(* EventEdit: UpdateWithCooking, one transaction, sets the toggle and acts *)
(* on a change from what the handler read before.  EventDelete.            *)
(***************************************************************************)

SignedUpAdults == {p \in adults : attendee[p] = "signed_up"}

\* The adult patrol, or the id of a new one.
AdultPatrol == IF OfKind("adult") # {} THEN OfKind("adult") ELSE Fresh

\* The index on is_cook refuses two cooks in patrol k, where the adults keep theirs.
CooksCollide(k) == \E p, q \in cook : p # q /\ {p, q} \subseteq SignedUpAdults \union Members(k)

\* Mutant: the adult patrol is created, and nobody is placed.
EnableCooking_NobodyPlaced(k) ==
    /\ patrol' = [patrol EXCEPT ![k] = "adult"]
    /\ UNCHANGED <<member, cook>>

EnableCooking(k) ==
    /\ ~ CooksCollide(k)
    /\ patrol' = [patrol EXCEPT ![k] = "adult"]
    /\ member' = [p \in Profiles |-> IF p \in SignedUpAdults THEN k ELSE member[p]]
    /\ UNCHANGED cook

\* Mutant: disabling cooking leaves the adult patrol.
ApplyToggle_KeepsAdults(was, wanted) ==
    \/ /\ was = wanted
       /\ UNCHANGED <<patrol, member, cook>>
    \/ /\ wanted /\ ~was
       /\ \E k \in AdultPatrol : EnableCooking(k)
    \/ /\ was /\ ~wanted
       /\ DeletePatrols(OfKind("youth"))

ApplyToggle(was, wanted) ==
    \/ /\ was = wanted
       /\ UNCHANGED <<patrol, member, cook>>
    \/ /\ wanted /\ ~was
       /\ \E k \in AdultPatrol : EnableCooking(k)
    \/ /\ was /\ ~wanted
       /\ DeletePatrols(Patrols)

\* Nothing is changed when the event is gone or the transaction refused.
Update(r) ==
    /\ req[r].stage = "update"
    /\ \/ /\ exists
          /\ cookingEnabled' = req[r].wanted
          /\ ApplyToggle(req[r].was, req[r].wanted)
       \/ /\ \/ ~exists
             \/ req[r].wanted /\ ~req[r].was /\ \E k \in AdultPatrol : CooksCollide(k)
          /\ UNCHANGED <<cookingEnabled, patrol, member, cook>>
    /\ Finish(r)
    /\ UNCHANGED <<exists, adults, attendee, faults>>

EventDelete ==
    /\ exists
    /\ exists' = FALSE
    /\ attendee' = [p \in Profiles |-> "none"]
    /\ DeletePatrols(Patrols)
    /\ UNCHANGED <<cookingEnabled, adults, req, faults>>

\* A synchronisation, or the Revert of one, changes the type of a member.
ChangeMemberType(p) ==
    /\ adults' = IF p \in adults THEN adults \ {p} ELSE adults \union {p}
    /\ UNCHANGED <<exists, cookingEnabled, attendee, patrol, member, cook, req, faults>>

\* A statement fails: the handler gives up, or logs the error and goes on to
\* what does not concern the patrols.
StatementFails(r) ==
    /\ faults < MaxFaults
    /\ faults' = faults + 1
    /\ req[r] # Idle
    /\ Finish(r)
    /\ UNCHANGED <<exists, cookingEnabled, adults, attendee, patrol, member, cook>>

-----------------------------------------------------------------------------

Serve(r) ==
    \/ Enrol(r) \/ ReadToggle(r) \/ ReadType(r) \/ FindAdultPatrol(r) \/ CreateAdult(r)
    \/ Place(r) \/ CheckPatrol(r) \/ Assign(r)
    \/ CancelAttendance(r) \/ ListPatrols(r) \/ ListMembers(r) \/ ClearListed(r) \/ Remove(r)
    \/ FindPatrol(r) \/ SetCook(r) \/ ClearCook(r)
    \/ CreateYouth(r) \/ Delete(r) \/ Update(r)

Next ==
    \/ \E r \in Requests : Begin(r) \/ Serve(r) \/ StatementFails(r)
    \/ EventDelete
    \/ \E p \in Retyped : ChangeMemberType(p)

Spec == Init /\ [][Next]_vars

\* net/http runs every handler it has accepted to its end.
FairSpec == Spec /\ \A r \in Requests : WF_vars(Serve(r))

-----------------------------------------------------------------------------
(***************************************************************************)
(* Properties.                                                             *)
(***************************************************************************)

InYouthPatrol(p) == member[p] # NoPatrol /\ patrol[member[p]] = "youth"

\* No statement puts an adult into a youth patrol, although AssignMember checks the
\* patrol before its INSERT and patrols come and go in between, but the INSERT of a
\* placement that has read the type while the profile was a youth.  One who has become
\* an adult as a member of a youth patrol stays in it.
AdultsPlacedWithAdults ==
    [][\A p \in adults :
          InYouthPatrol(p)' /\ (member'[p] # member[p] \/ ~InYouthPatrol(p)) =>
              \E r \in Requests : /\ req[r].stage = "assign" /\ req[r].profile = p
                                 /\ ~req[r].adult /\ req'[r] = Idle]_vars

\* No statement leaves two cooks in one patrol.  The index that forbids them refuses
\* one transaction only, the enabling of cooking, which moves members without
\* resetting is_cook; no other handler relies on it.
OneCookPerPatrol ==
    \A p, q \in cook : member[p] = member[q] => p = q

\* Every member row belongs to a patrol and to an attendee, every cook is a
\* member, and patrols have an event, whatever is deleted in between.
MembersHavePatrols ==
    /\ \A p \in Profiles : member[p] # NoPatrol =>
          member[p] \in Patrols /\ patrol[member[p]] # "none" /\ attendee[p] # "none"
    /\ \A p \in cook : member[p] # NoPatrol
    /\ ~exists => \A k \in Patrols : patrol[k] = "none"

\* A withdrawal or a removal takes the designation of cook from nobody else: the
\* comment in Withdraw says "clear cook designation if held".
OnlyOwnCookCleared ==
    [][\A r \in Requests :
         req[r].stage = "clearListed" /\ req'[r] # req[r] => cook \ cook' \subseteq {req[r].profile}
      ]_vars

\* While cooking is disabled, and no handler is at work, the event has no patrols.
DisabledHasNoPatrols ==
    ~cookingEnabled /\ (\A r \in Requests : req[r] = Idle) => \A k \in Patrols : patrol[k] = "none"

\* Enabling cooking places every adult who is signed up.
EnablingPlacesAdults ==
    [][~cookingEnabled /\ cookingEnabled' =>
         \A p \in SignedUpAdults : member'[p] # NoPatrol /\ patrol'[member'[p]] = "adult"]_vars

\* An adult whose sign-up meets no error is placed into the adult patrol, unless
\* cooking is disabled, the event deleted or the adult found a youth meanwhile.
SignUpPlacesAdult ==
    \A r \in Requests, p \in Profiles :
        (faults = MaxFaults /\ req[r].stage = "readToggle" /\ req[r].profile = p)
            ~> (member[p] \in OfKind("adult") \/ ~cookingEnabled \/ ~exists \/ p \notin adults)

\* A withdrawal that meets no error takes its profile out of its patrol, also when
\* it repeats one that failed between the cancellation and the end of the cascade.
WithdrawnLeavesPatrol ==
    \A p \in Profiles :
        (faults = MaxFaults /\ \E r \in Requests : /\ req[r].stage = "cancel"
                                                   /\ req[r].profile = p)
            ~> member[p] = NoPatrol

=============================================================================
