----------------------------- MODULE Onboarding -----------------------------
(***************************************************************************)
(* The first-run setup (internal/api/onboarding.go): a wizard of four      *)
(* pages that keeps its fields in a session cookie, and whose last page    *)
(* creates the first administrator and the configuration.                  *)
(*                                                                         *)
(* The pages are open to everybody until the configuration says that the   *)
(* setup is complete, so several browsers may go through them at once.     *)
(* The handler of the last page runs eight statements without a            *)
(* transaction; every action of a request is one of them.                  *)
(***************************************************************************)
EXTENDS Naturals, Sequences, FiniteSets

CONSTANTS
    Browsers,   \* cookie jars
    Requests,   \* submissions of the last page that can be in flight at the same time
    Ids,        \* BSA IDs that are entered
    NoId,       \* no BSA ID
    Users,      \* bound: the users that can be created
    NoUser,     \* no user
    MaxFaults   \* bound: statements that fail

ASSUME OnboardingAssumption ==
    /\ NoId \notin Ids
    /\ NoUser \notin Users
    /\ IsFiniteSet(Ids)
    /\ IsFiniteSet(Users)
    /\ IsFiniteSet(Requests)
    /\ MaxFaults \in Nat

VARIABLES
    complete,  \* ONBOARDING_COMPLETE is "true" in app_config
    config,    \* the other keys of app_config that have a value
    users,     \* rows of the users table
    roles,     \* user_roles
    profile,   \* the profile of a BSA ID: its user_id, NoUser without a row
    form,      \* the session of the wizard: pages done, and the BSA ID entered
    req,       \* submissions of the last page in flight
    faults     \* statements that have failed so far

setup == <<complete, config, users, roles, profile>>
onboardingVars == <<complete, config, users, roles, profile, form, req, faults>>

\* "admin" comes from the wizard or an administrator, "parent" from a registration.
Roles == {"admin", "parent"}

\* Mutant: the setup is complete before the timezone is saved.
ConfigKeys_CompleteEarly == <<"org_guid", "unit_type", "unit_number", "complete", "timezone">>

\* The keys the last page sets, in its order.
ConfigKeys == <<"org_guid", "unit_type", "unit_number", "timezone", "complete">>

Settings == {"org_guid", "unit_type", "unit_number", "timezone"}

NoForm == [page |-> 0, id |-> NoId]

Stages == {"idle", "createUser", "assignAdmin", "createProfile", "setConfig"}

SubmitRecord ==
    {q \in [stage: Stages, browser: Browsers \union {NoId}, id: Ids \union {NoId},
            user: Users \union {NoUser}, key: 1..Len(ConfigKeys)] :
        /\ q.stage # "idle" => q.id \in Ids /\ q.browser \in Browsers
        /\ q.stage \in {"assignAdmin", "createProfile", "setConfig"} => q.user \in Users}

Idle == [stage |-> "idle", browser |-> NoId, id |-> NoId, user |-> NoUser, key |-> 1]

OnboardingTypeOK ==
    /\ complete \in BOOLEAN
    /\ config \in SUBSET Settings
    /\ users \in SUBSET Users
    /\ roles \in [Users -> SUBSET Roles]
    /\ profile \in [Ids -> Users \union {NoUser}]
    /\ form \in [Browsers -> [page: 0..3, id: Ids \union {NoId}]]
    /\ \A b \in Browsers : form[b].page > 0 => form[b].id \in Ids
    /\ req \in [Requests -> SubmitRecord]
    /\ faults \in 0..MaxFaults

OnboardingInit ==
    /\ complete = FALSE
    /\ config = {}
    /\ users = {}
    /\ roles = [u \in Users |-> {}]
    /\ profile = [id \in Ids |-> NoUser]
    /\ form = [b \in Browsers |-> NoForm]
    /\ req = [r \in Requests |-> Idle]
    /\ faults = 0

-----------------------------------------------------------------------------
(***************************************************************************)
(* The pages.  RedirectIfOnboarded closes them once the setup is complete, *)
(* unless it fails to read the configuration.  The first page starts the   *)
(* form over; the others ask for the one before.                           *)
(***************************************************************************)

\* Mutant: the pages are not behind it.
RedirectIfOnboarded_Absent == UNCHANGED faults

RedirectIfOnboarded ==
    \/ ~complete /\ UNCHANGED faults
    \/ complete /\ faults < MaxFaults /\ faults' = faults + 1

FillForm(b, page, id) ==
    /\ RedirectIfOnboarded
    /\ form' = [form EXCEPT ![b] = [page |-> page, id |-> id]]
    /\ UNCHANGED <<setup, req>>

Personal(b, id) == FillForm(b, 1, id)
Unit(b)         == form[b].page >= 1 /\ FillForm(b, 2, form[b].id)
Timezone(b)     == form[b].page >= 2 /\ FillForm(b, 3, form[b].id)

\* The bound on users leaves one to every submission.
UserLeft == Cardinality(Users \ users) > Cardinality({r \in Requests : req[r].stage = "createUser"})

BeginPassword(r, b) ==
    /\ RedirectIfOnboarded
    /\ form[b].page = 3
    /\ req[r] = Idle
    /\ UserLeft
    /\ req' = [req EXCEPT ![r] = [Idle EXCEPT !.stage = "createUser", !.browser = b,
                                              !.id = form[b].id]]
    /\ UNCHANGED <<setup, form>>

-----------------------------------------------------------------------------
(***************************************************************************)
(* The last page.  Whether it fails or succeeds it clears the form.        *)
(***************************************************************************)

GoTo(r, stage) == req' = [req EXCEPT ![r].stage = stage]

End(r) ==
    /\ req' = [req EXCEPT ![r] = Idle]
    /\ form' = [form EXCEPT ![req[r].browser] = NoForm]

\* A row with an id that no other has.
NewUser == CHOOSE u \in Users : u \notin users

\* Mutant: the id of the new row is not read back.
CreateUser_Forgets(r) ==
    /\ req[r].stage = "createUser"
    /\ users' = users \union {NewUser}
    /\ GoTo(r, "assignAdmin")
    /\ UNCHANGED <<complete, config, roles, profile, form, faults>>

CreateUser(r) ==
    /\ req[r].stage = "createUser"
    /\ users' = users \union {NewUser}
    /\ req' = [req EXCEPT ![r].stage = "assignAdmin", ![r].user = NewUser]
    /\ UNCHANGED <<complete, config, roles, profile, form, faults>>

AssignAdmin(r) ==
    /\ req[r].stage = "assignAdmin"
    /\ roles' = [roles EXCEPT ![req[r].user] = @ \union {"admin"}]
    /\ GoTo(r, "createProfile")
    /\ UNCHANGED <<complete, config, users, profile, form, faults>>

\* bsa_id is unique.
CreateProfile(r) ==
    LET id == req[r].id
    IN /\ req[r].stage = "createProfile"
       /\ \/ /\ profile[id] = NoUser
             /\ profile' = [profile EXCEPT ![id] = req[r].user]
             /\ GoTo(r, "setConfig")
             /\ UNCHANGED form
          \/ /\ profile[id] # NoUser
             /\ End(r)
             /\ UNCHANGED profile
       /\ UNCHANGED <<complete, config, users, roles, faults>>

\* Mutant: the last key is not set.
SetConfig_Incomplete(r) ==
    LET key == ConfigKeys[req[r].key]
    IN /\ req[r].stage = "setConfig"
       /\ config' = config \union ({key} \intersect Settings)
       /\ IF req[r].key < Len(ConfigKeys)
          THEN req' = [req EXCEPT ![r].key = @ + 1] /\ UNCHANGED form
          ELSE End(r)
       /\ UNCHANGED <<complete, users, roles, profile, faults>>

SetConfig(r) ==
    LET key == ConfigKeys[req[r].key]
    IN /\ req[r].stage = "setConfig"
       /\ config' = config \union ({key} \intersect Settings)
       /\ complete' = (complete \/ key = "complete")
       /\ IF req[r].key < Len(ConfigKeys)
          THEN req' = [req EXCEPT ![r].key = @ + 1] /\ UNCHANGED form
          ELSE End(r)
       /\ UNCHANGED <<users, roles, profile, faults>>

\* A statement fails: the handler clears the form and gives up.
StatementFails(r) ==
    /\ faults < MaxFaults
    /\ faults' = faults + 1
    /\ req[r].stage # "idle"
    /\ End(r)
    /\ UNCHANGED setup

Serve(r) == CreateUser(r) \/ AssignAdmin(r) \/ CreateProfile(r) \/ SetConfig(r)

OnboardingNext ==
    \/ \E b \in Browsers :
         \/ \E id \in Ids : Personal(b, id)
         \/ Unit(b)
         \/ Timezone(b)
         \/ \E r \in Requests : BeginPassword(r, b)
    \/ \E r \in Requests : Serve(r) \/ StatementFails(r)

-----------------------------------------------------------------------------
(***************************************************************************)
(* Properties of the setup by itself.                                      *)
(***************************************************************************)

\* Submissions that have not created their profile yet.
Submitting == {r \in Requests : req[r].stage \in {"createUser", "assignAdmin", "createProfile"}}

\* The profiles the wizard has created: its users never get the role of a registration.
FirstAdministrators == {id \in Ids : profile[id] # NoUser /\ "parent" \notin roles[profile[id]]}

\* The wizard makes one administrator who can sign in; more only by submissions that
\* overlap the one that completes the setup, or that a failure has stopped after the
\* profile was created.  Nothing it has left in flight adds to them later.
FirstAdministratorsBounded ==
    Cardinality(FirstAdministrators) + Cardinality(Submitting) <= Cardinality(Requests) + faults

\* After the last failure, a submission of a BSA ID that no earlier one has used
\* completes the setup.
RetryCompletes ==
    \A r \in Requests :
        (faults = MaxFaults /\ req[r].stage = "createUser" /\ profile[req[r].id] = NoUser)
            ~> complete

=============================================================================
