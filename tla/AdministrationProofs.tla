------------------------ MODULE AdministrationProofs ------------------------
(***************************************************************************)
(* Theorems about Administration and the setup it is composed with, for    *)
(* any number of browsers, submissions, administrators' requests, users,   *)
(* permissions and failures.                                               *)
(***************************************************************************)
EXTENDS Administration, Counting

LEMMA IdleType == Idle \in SubmitRecord /\ NoForm \in [page: 0..3, id: Ids \union {NoId}]
  <1>1. Len(ConfigKeys) = 5
    BY DEF ConfigKeys
  <1> QED BY <1>1 DEF Idle, SubmitRecord, Stages, NoForm

\* What a submission is about to do is on record.
LEMMA SubmitFields ==
  ASSUME OnboardingTypeOK, NEW r \in Requests
  PROVE  /\ req[r] \in SubmitRecord
         /\ req[r].stage # "idle" => req[r].id \in Ids /\ req[r].browser \in Browsers
         /\ req[r].stage \in {"assignAdmin", "createProfile", "setConfig"} => req[r].user \in Users
         /\ req[r].stage \in Stages
         /\ req[r].key \in 1..Len(ConfigKeys)
  BY DEF OnboardingTypeOK, SubmitRecord

\* The end of a submission, whatever its outcome.
LEMMA EndType ==
  ASSUME OnboardingTypeOK, NEW r \in Requests, req[r].stage # "idle", End(r)
  PROVE  /\ req' \in [Requests -> SubmitRecord]
         /\ form' \in [Browsers -> [page: 0..3, id: Ids \union {NoId}]]
         /\ \A b \in Browsers : form'[b].page > 0 => form'[b].id \in Ids
         /\ req'[r].stage = "idle" /\ req'[r].key = 1
         /\ \A s \in Requests \ {r} : req'[s] = req[s]
  <1>1. req' \in [Requests -> SubmitRecord] /\ req'[r] = Idle
        /\ \A s \in Requests \ {r} : req'[s] = req[s]
    BY IdleType DEF End, OnboardingTypeOK
  <1>2. req[r].browser \in Browsers
    BY SubmitFields
  <1>3. form' \in [Browsers -> [page: 0..3, id: Ids \union {NoId}]]
    BY <1>2, IdleType DEF End, OnboardingTypeOK
  <1>4. \A b \in Browsers : form'[b].page > 0 => form'[b].id \in Ids
    BY <1>2 DEF End, OnboardingTypeOK, NoForm
  <1> QED BY <1>1, <1>3, <1>4 DEF Idle

\* On to the next statement of a submission that has a user, or needs none.
LEMMA MoveType ==
  ASSUME OnboardingTypeOK, NEW r \in Requests, req[r].stage # "idle",
         NEW s \in Stages, req[r].user \in Users, GoTo(r, s)
  PROVE  /\ req' \in [Requests -> SubmitRecord]
         /\ req'[r].stage = s
         /\ req'[r].id = req[r].id
         /\ req'[r].user = req[r].user
         /\ req'[r].key = req[r].key
         /\ \A q \in Requests \ {r} : req'[q] = req[q]
  <1>1. req[r] \in SubmitRecord /\ req \in [Requests -> SubmitRecord]
    BY DEF OnboardingTypeOK
  <1>2. [req[r] EXCEPT !.stage = s] \in SubmitRecord
    BY <1>1 DEF SubmitRecord
  <1>3. /\ [req[r] EXCEPT !.stage = s].stage = s
        /\ [req[r] EXCEPT !.stage = s].id = req[r].id
        /\ [req[r] EXCEPT !.stage = s].user = req[r].user
        /\ [req[r] EXCEPT !.stage = s].key = req[r].key
    BY <1>1 DEF SubmitRecord
  <1>4. req' = [req EXCEPT ![r] = [req[r] EXCEPT !.stage = s]]
    BY DEF GoTo
  <1> QED BY <1>1, <1>2, <1>3, <1>4

-----------------------------------------------------------------------------
(***************************************************************************)
(* Room for the users.  NewUser is a user that does not exist yet, because *)
(* the bound on users leaves one to every submission.                      *)
(***************************************************************************)

Creating == {r \in Requests : req[r].stage = "createUser"}

RoomInv == Cardinality(Users \ users) >= Cardinality(Creating)

LEMMA Finite ==
  /\ \A S \in SUBSET Requests : IsFiniteSet(S) /\ Cardinality(S) \in Nat
                                /\ Cardinality(S) <= Cardinality(Requests)
  /\ \A S \in SUBSET Users : IsFiniteSet(S) /\ Cardinality(S) \in Nat
  /\ \A S \in SUBSET Ids : IsFiniteSet(S) /\ Cardinality(S) \in Nat
  <1>1. IsFiniteSet(Requests) /\ IsFiniteSet(Users) /\ IsFiniteSet(Ids)
    BY OnboardingAssumption
  <1> QED BY <1>1, CountSame

LEMMA NewUserIsNew ==
  ASSUME RoomInv, \/ UserLeft
                  \/ \E r \in Requests : req[r].stage = "createUser"
  PROVE  NewUser \in Users /\ NewUser \notin users
  <1>1. /\ IsFiniteSet(Creating) /\ Cardinality(Creating) \in Nat
        /\ IsFiniteSet(Users \ users) /\ Cardinality(Users \ users) \in Nat
    <2>1. Creating \in SUBSET Requests /\ Users \ users \in SUBSET Users
      BY DEF Creating
    <2> QED BY <2>1, Finite
  <1>2. Cardinality(Users \ users) # 0
    <2>1. CASE UserLeft
      BY <1>1, <2>1 DEF UserLeft, Creating
    <2>2. CASE \E r \in Requests : req[r].stage = "createUser"
      <3>1. Creating # {}
        BY <2>2 DEF Creating
      <3>2. Cardinality(Creating) # 0
        BY <1>1, <3>1, FS_EmptySet
      <3> QED BY <1>1, <3>2 DEF RoomInv
    <2> QED BY <2>1, <2>2
  <1>3. Users \ users # {}
    BY <1>1, <1>2, FS_EmptySet
  <1> QED BY <1>3 DEF NewUser

-----------------------------------------------------------------------------
(***************************************************************************)
(* Types.                                                                  *)
(***************************************************************************)

\* The pages of the wizard change the form only.
LEMMA PagesType ==
  ASSUME OnboardingTypeOK, NEW b \in Browsers,
         \/ \E id \in Ids : Personal(b, id)
         \/ Unit(b)
         \/ Timezone(b)
  PROVE  OnboardingTypeOK' /\ UNCHANGED <<setup, req>> /\ (faults' = faults \/ faults' = faults + 1)
  <1>1. ASSUME NEW page \in 1..3, NEW id \in Ids, FillForm(b, page, id)
        PROVE  OnboardingTypeOK' /\ UNCHANGED <<setup, req>>
               /\ (faults' = faults \/ faults' = faults + 1)
    <2>1. [page |-> page, id |-> id] \in [page: 0..3, id: Ids \union {NoId}]
      OBVIOUS
    <2>2. form' \in [Browsers -> [page: 0..3, id: Ids \union {NoId}]]
      BY <1>1, <2>1 DEF FillForm, OnboardingTypeOK
    <2>3. \A c \in Browsers : form'[c].page > 0 => form'[c].id \in Ids
      BY <1>1, <2>1 DEF FillForm, OnboardingTypeOK
    <2>4. faults' \in 0..MaxFaults /\ (faults' = faults \/ faults' = faults + 1)
      BY <1>1, OnboardingAssumption DEF FillForm, RedirectIfOnboarded, OnboardingTypeOK
    <2>5. UNCHANGED <<setup, req>>
      BY <1>1 DEF FillForm
    <2> QED BY <2>2, <2>3, <2>4, <2>5 DEF OnboardingTypeOK, setup
  <1>2. form[b].page \in 0..3 /\ (form[b].page > 0 => form[b].id \in Ids)
    BY DEF OnboardingTypeOK
  <1>3. ASSUME NEW id \in Ids, Personal(b, id)
        PROVE  OnboardingTypeOK' /\ UNCHANGED <<setup, req>>
               /\ (faults' = faults \/ faults' = faults + 1)
    BY <1>1, <1>3 DEF Personal
  <1>4. CASE Unit(b)
    <2>1. form[b].id \in Ids /\ FillForm(b, 2, form[b].id)
      BY <1>2, <1>4 DEF Unit
    <2> QED BY <1>1, <2>1
  <1>5. CASE Timezone(b)
    <2>1. form[b].id \in Ids /\ FillForm(b, 3, form[b].id)
      BY <1>2, <1>5 DEF Timezone
    <2> QED BY <1>1, <2>1
  <1> QED BY <1>3, <1>4, <1>5

LEMMA BeginType ==
  ASSUME OnboardingTypeOK, NEW r \in Requests, NEW b \in Browsers, BeginPassword(r, b)
  PROVE  /\ OnboardingTypeOK'
         /\ UNCHANGED setup
         /\ req[r].stage = "idle"
         /\ req'[r].stage = "createUser" /\ req'[r].key = 1
         /\ \A s \in Requests \ {r} : req'[s] = req[s]
         /\ IF complete THEN faults' = faults + 1 ELSE faults' = faults
         /\ UserLeft
  <1>1. form[b].id \in Ids
    BY DEF BeginPassword, OnboardingTypeOK
  <1>2. [Idle EXCEPT !.stage = "createUser", !.browser = b, !.id = form[b].id] \in SubmitRecord
    BY <1>1, IdleType DEF Idle, SubmitRecord, Stages
  <1>3. /\ req' \in [Requests -> SubmitRecord]
        /\ req'[r].stage = "createUser" /\ req'[r].key = 1
        /\ \A s \in Requests \ {r} : req'[s] = req[s]
    BY <1>2 DEF BeginPassword, OnboardingTypeOK, Idle
  <1>4. /\ faults' \in 0..MaxFaults
        /\ IF complete THEN faults' = faults + 1 ELSE faults' = faults
    BY OnboardingAssumption DEF BeginPassword, RedirectIfOnboarded, OnboardingTypeOK
  <1> QED BY <1>3, <1>4 DEF BeginPassword, OnboardingTypeOK, setup, Idle

LEMMA CreateUserType ==
  ASSUME OnboardingTypeOK, RoomInv, NEW r \in Requests, CreateUser(r)
  PROVE  /\ OnboardingTypeOK'
         /\ NewUser \in Users /\ NewUser \notin users
         /\ req'[r].stage = "assignAdmin" /\ req'[r].user = NewUser
         /\ req'[r].key = req[r].key
         /\ \A s \in Requests \ {r} : req'[s] = req[s]
  <1>1. NewUser \in Users /\ NewUser \notin users
    BY NewUserIsNew DEF CreateUser
  <1>2. req[r] \in SubmitRecord /\ req \in [Requests -> SubmitRecord]
    BY DEF OnboardingTypeOK
  <1> DEFINE new == [req[r] EXCEPT !.stage = "assignAdmin", !.user = NewUser]
  <1>3. /\ new \in SubmitRecord /\ new.stage = "assignAdmin" /\ new.user = NewUser
        /\ new.key = req[r].key
    BY <1>1, <1>2 DEF SubmitRecord, Stages, CreateUser
  <1>4. req' = [req EXCEPT ![r] = new]
    BY DEF CreateUser
  <1> HIDE DEF new
  <1>5. /\ req' \in [Requests -> SubmitRecord]
        /\ req'[r] = new
        /\ \A s \in Requests \ {r} : req'[s] = req[s]
    BY <1>2, <1>3, <1>4
  <1> QED BY <1>1, <1>3, <1>5 DEF CreateUser, OnboardingTypeOK

LEMMA AssignAdminType ==
  ASSUME OnboardingTypeOK, NEW r \in Requests, AssignAdmin(r)
  PROVE  /\ OnboardingTypeOK'
         /\ req[r].user \in Users
         /\ "admin" \in roles'[req[r].user]
         /\ \A u \in Users : roles[u] \subseteq roles'[u]
                             /\ ("parent" \in roles'[u] => "parent" \in roles[u])
         /\ req'[r].stage = "createProfile" /\ req'[r].user = req[r].user
         /\ req'[r].key = req[r].key
         /\ \A s \in Requests \ {r} : req'[s] = req[s]
  <1>1. req[r].user \in Users
    BY SubmitFields DEF AssignAdmin
  <1>2. /\ req' \in [Requests -> SubmitRecord]
        /\ req'[r].stage = "createProfile" /\ req'[r].user = req[r].user
        /\ req'[r].key = req[r].key
        /\ \A s \in Requests \ {r} : req'[s] = req[s]
    BY <1>1, MoveType DEF AssignAdmin, Stages
  <1>3. /\ roles' \in [Users -> SUBSET Roles]
        /\ "admin" \in roles'[req[r].user]
        /\ \A u \in Users : roles[u] \subseteq roles'[u]
                            /\ ("parent" \in roles'[u] => "parent" \in roles[u])
    BY <1>1 DEF AssignAdmin, OnboardingTypeOK, Roles
  <1> QED BY <1>1, <1>2, <1>3 DEF AssignAdmin, OnboardingTypeOK

LEMMA CreateProfileType ==
  ASSUME OnboardingTypeOK, NEW r \in Requests, CreateProfile(r)
  PROVE  /\ OnboardingTypeOK'
         /\ req[r].user \in Users /\ req[r].id \in Ids
         /\ \A s \in Requests \ {r} : req'[s] = req[s]
         /\ \/ /\ profile[req[r].id] = NoUser
               /\ profile'[req[r].id] = req[r].user
               /\ \A id \in Ids \ {req[r].id} : profile'[id] = profile[id]
               /\ req'[r].stage = "setConfig" /\ req'[r].user = req[r].user
               /\ req'[r].id = req[r].id /\ req'[r].key = req[r].key
            \/ profile' = profile /\ req'[r].stage = "idle" /\ req'[r].key = 1
  <1>1. req[r].user \in Users /\ req[r].id \in Ids /\ req[r].stage = "createProfile"
    BY SubmitFields DEF CreateProfile
  <1>2. CASE profile[req[r].id] = NoUser
    <2>1. /\ req' \in [Requests -> SubmitRecord]
          /\ req'[r].stage = "setConfig" /\ req'[r].user = req[r].user
          /\ req'[r].id = req[r].id /\ req'[r].key = req[r].key
          /\ \A s \in Requests \ {r} : req'[s] = req[s]
      BY <1>1, <1>2, MoveType DEF CreateProfile, Stages
    <2>2. /\ profile' = [profile EXCEPT ![req[r].id] = req[r].user]
          /\ profile' \in [Ids -> Users \union {NoUser}]
      BY <1>1, <1>2 DEF CreateProfile, OnboardingTypeOK
    <2> QED BY <1>1, <1>2, <2>1, <2>2 DEF CreateProfile, OnboardingTypeOK
  <1>3. CASE profile[req[r].id] # NoUser
    BY <1>1, <1>3, EndType DEF CreateProfile, OnboardingTypeOK
  <1> QED BY <1>2, <1>3

LEMMA SetConfigType ==
  ASSUME OnboardingTypeOK, NEW r \in Requests, SetConfig(r)
  PROVE  /\ OnboardingTypeOK'
         /\ \A s \in Requests \ {r} : req'[s] = req[s]
         /\ config \subseteq config'
         /\ \/ /\ req[r].key < 5
               /\ req'[r].stage = "setConfig" /\ req'[r].user = req[r].user
               /\ req'[r].id = req[r].id /\ req'[r].key = req[r].key + 1
               /\ ConfigKeys[req[r].key] \in config'
               /\ complete' = complete
            \/ /\ req[r].key = 5
               /\ req'[r].stage = "idle" /\ req'[r].key = 1
               /\ complete'
  <1>1. /\ req[r] \in SubmitRecord /\ req \in [Requests -> SubmitRecord]
        /\ req[r].stage = "setConfig" /\ req[r].key \in 1..5
    BY SubmitFields DEF SetConfig, OnboardingTypeOK, ConfigKeys
  <1>2. Len(ConfigKeys) = 5
    BY DEF ConfigKeys
  <1>3. /\ complete' \in BOOLEAN
        /\ config' \in SUBSET Settings
        /\ config \subseteq config'
    BY DEF SetConfig, OnboardingTypeOK
  <1>4. CASE req[r].key < 5
    <2> DEFINE new == [req[r] EXCEPT !.key = req[r].key + 1]
    <2>1. /\ new \in SubmitRecord /\ new.stage = req[r].stage /\ new.user = req[r].user
          /\ new.id = req[r].id /\ new.key = req[r].key + 1
      BY <1>1, <1>2, <1>4 DEF SubmitRecord
    <2>2. req' = [req EXCEPT ![r] = new] /\ UNCHANGED form
      BY <1>2, <1>4 DEF SetConfig
    <2> HIDE DEF new
    <2>3. /\ req' \in [Requests -> SubmitRecord] /\ req'[r] = new
          /\ \A s \in Requests \ {r} : req'[s] = req[s]
      BY <1>1, <2>1, <2>2
    <2>4. ConfigKeys[req[r].key] \in Settings /\ ConfigKeys[req[r].key] # "complete"
      BY <1>1, <1>4 DEF ConfigKeys, Settings
    <2>5. complete' = complete /\ ConfigKeys[req[r].key] \in config'
      <3>1. complete' = (complete \/ ConfigKeys[req[r].key] = "complete")
        BY DEF SetConfig
      <3>2. complete \in BOOLEAN
        BY DEF OnboardingTypeOK
      <3>3. complete' = complete
        BY <2>4, <3>1, <3>2, Zenon
      <3>4. ConfigKeys[req[r].key] \in config'
        BY <2>4 DEF SetConfig
      <3> QED BY <3>3, <3>4
    <2>6. OnboardingTypeOK'
      BY <1>3, <2>2, <2>3 DEF SetConfig, OnboardingTypeOK
    <2>7. /\ req'[r].stage = "setConfig" /\ req'[r].user = req[r].user
          /\ req'[r].id = req[r].id /\ req'[r].key = req[r].key + 1
      BY <1>1, <2>1, <2>3
    <2> QED BY <1>3, <1>4, <2>3, <2>5, <2>6, <2>7, Zenon
  <1>5. CASE req[r].key = 5
    <2>1. ConfigKeys[req[r].key] = "complete"
      BY <1>5 DEF ConfigKeys
    <2>2. complete'
      BY <2>1, Zenon DEF SetConfig
    <2>3. End(r)
      BY <1>2, <1>5 DEF SetConfig
    <2>4. /\ req'[r].stage = "idle" /\ req'[r].key = 1
          /\ \A s \in Requests \ {r} : req'[s] = req[s]
      BY <1>1, <2>3, EndType
    <2>5. OnboardingTypeOK'
      BY <1>1, <1>3, <2>3, EndType DEF SetConfig, OnboardingTypeOK
    <2> QED BY <1>3, <1>5, <2>2, <2>4, <2>5, Zenon
  <1> QED BY <1>1, <1>4, <1>5

LEMMA FailsType ==
  ASSUME OnboardingTypeOK, NEW r \in Requests, StatementFails(r)
  PROVE  /\ OnboardingTypeOK'
         /\ UNCHANGED setup
         /\ faults' = faults + 1
         /\ req'[r].stage = "idle" /\ req'[r].key = 1
         /\ \A s \in Requests \ {r} : req'[s] = req[s]
  <1>1. faults' \in 0..MaxFaults
    BY OnboardingAssumption DEF StatementFails, OnboardingTypeOK
  <1> QED BY <1>1, EndType DEF StatementFails, OnboardingTypeOK, setup

-----------------------------------------------------------------------------
(***************************************************************************)
(* The administrators' requests.                                           *)
(***************************************************************************)

LEMMA TaskFields ==
  ASSUME TypeOK, NEW t \in Tasks
  PROVE  /\ task[t] \in TaskRecord
         /\ task[t].stage \in {"grant", "remove"} => task[t].user \in Users
  BY DEF TypeOK, TaskRecord

\* A task changes nothing of the setup but the roles, of which the wizard's first ones
\* stay unless they are on record in dismissed, and nobody becomes a parent.
LEMMA TaskType ==
  ASSUME TypeOK, NEW t \in Tasks, BeginTask(t) \/ ServeTask(t)
  PROVE  /\ TypeOK'
         /\ UNCHANGED <<complete, config, users, profile, form, req, faults>>
         /\ dismissed \subseteq dismissed'
         /\ \A u \in Users : "admin" \in roles[u] => "admin" \in roles'[u] \/ u \in dismissed'
         /\ \A u \in Users : "parent" \in roles'[u] <=> "parent" \in roles[u]
  <1>0. /\ task \in [Tasks -> TaskRecord] /\ granted \in [Roles -> SUBSET Permissions]
        /\ NoTask \in TaskRecord /\ OnboardingTypeOK /\ dismissed \in SUBSET Users
        /\ roles \in [Users -> SUBSET Roles]
    BY DEF TypeOK, NoTask, TaskRecord, Roles, OnboardingTypeOK
  <1> DEFINE Same == UNCHANGED <<complete, config, users, profile, form, req, faults>>
             Goal == /\ TypeOK'
                     /\ Same
                     /\ dismissed \subseteq dismissed'
                     /\ \A u \in Users : "admin" \in roles[u] => "admin" \in roles'[u] \/ u \in dismissed'
                     /\ \A u \in Users : "parent" \in roles'[u] <=> "parent" \in roles[u]
  <1>1. ASSUME UNCHANGED <<onboardingVars, dismissed>>,
               task' \in [Tasks -> TaskRecord], granted' \in [Roles -> SUBSET Permissions]
        PROVE  Goal
    <2>1. OnboardingTypeOK'
      BY <1>0, <1>1 DEF OnboardingTypeOK, onboardingVars
    <2> QED BY <1>0, <1>1, <2>1 DEF TypeOK, onboardingVars
  <1>2. ASSUME NEW u \in Users, NEW role \in Roles, BeginSave(t, u, role) PROVE Goal
    <2>1. PICK ticked \in Submittable(role) :
            task' = [task EXCEPT ![t] = [NoTask EXCEPT !.stage = "save", !.role = role,
                                                       !.ticked = ticked]]
      BY <1>2 DEF BeginSave
    <2>2. ticked \in SUBSET Permissions
      BY DEF Submittable
    <2>3. [NoTask EXCEPT !.stage = "save", !.role = role, !.ticked = ticked] \in TaskRecord
      BY <2>2 DEF NoTask, TaskRecord
    <2>4. task' \in [Tasks -> TaskRecord]
      BY <1>0, <2>1, <2>3
    <2> QED BY <1>0, <1>1, <1>2, <2>4 DEF BeginSave
  <1>3. ASSUME NEW u \in Users, NEW target \in Users, NEW stage \in {"grant", "remove"},
               BeginToggleAdmin(t, u, target, stage)
        PROVE  Goal
    <2>1. [NoTask EXCEPT !.stage = stage, !.user = target] \in TaskRecord
      BY DEF NoTask, TaskRecord, Roles
    <2>2. task' \in [Tasks -> TaskRecord]
      BY <1>0, <1>3, <2>1 DEF BeginToggleAdmin
    <2> QED BY <1>0, <1>1, <1>3, <2>2 DEF BeginToggleAdmin
  <1>4. ASSUME SavePermissions(t) PROVE Goal
    <2>1. task[t].role \in Roles /\ task[t].ticked \in SUBSET Permissions
      BY <1>0 DEF TaskRecord
    <2>2. granted' \in [Roles -> SUBSET Permissions]
      BY <1>0, <1>4, <2>1 DEF SavePermissions
    <2>3. task' \in [Tasks -> TaskRecord]
      BY <1>0, <1>4 DEF SavePermissions
    <2> QED BY <1>1, <1>4, <2>2, <2>3 DEF SavePermissions
  <1>5. ASSUME GrantAdmin(t) \/ RemoveAdmin(t) PROVE Goal
    <2>1. task[t].user \in Users
      BY <1>5, TaskFields DEF GrantAdmin, RemoveAdmin
    <2>2. task' \in [Tasks -> TaskRecord] /\ Same /\ UNCHANGED granted
      BY <1>0, <1>5 DEF GrantAdmin, RemoveAdmin
    <2>3. /\ roles' \in [Users -> SUBSET Roles]
          /\ dismissed' \in SUBSET Users
          /\ dismissed \subseteq dismissed'
      BY <1>0, <1>5, <2>1 DEF GrantAdmin, RemoveAdmin, Roles
    <2>4. \A u \in Users : "admin" \in roles[u] => "admin" \in roles'[u] \/ u \in dismissed'
      BY <1>0, <1>5, <2>1 DEF GrantAdmin, RemoveAdmin
    <2>5. \A u \in Users : "parent" \in roles'[u] <=> "parent" \in roles[u]
      BY <1>0, <1>5, <2>1 DEF GrantAdmin, RemoveAdmin
    <2>6. OnboardingTypeOK'
      BY <1>0, <2>2, <2>3 DEF OnboardingTypeOK
    <2> QED BY <1>0, <2>2, <2>3, <2>4, <2>5, <2>6 DEF TypeOK
  <1> QED BY <1>2, <1>3, <1>4, <1>5 DEF BeginTask, ServeTask

LEMMA RegisterType ==
  ASSUME TypeOK, RoomInv, Register
  PROVE  /\ TypeOK'
         /\ NewUser \in Users /\ NewUser \notin users
         /\ users' = users \union {NewUser}
         /\ "parent" \in roles'[NewUser]
         /\ \A u \in Users \ {NewUser} : roles'[u] = roles[u]
         /\ \A id \in Ids : profile'[id] # profile[id] =>
                                profile[id] = NoUser /\ profile'[id] = NewUser
         /\ UserLeft
         /\ UNCHANGED <<complete, config, req, faults, dismissed>>
  <1>1. NewUser \in Users /\ NewUser \notin users
    BY NewUserIsNew DEF Register
  <1>2. PICK id \in Ids : profile[id] = NoUser /\ profile' = [profile EXCEPT ![id] = NewUser]
    BY DEF Register
  <1>3. /\ roles' \in [Users -> SUBSET Roles] /\ "parent" \in roles'[NewUser]
        /\ \A u \in Users \ {NewUser} : roles'[u] = roles[u]
    BY <1>1 DEF Register, TypeOK, OnboardingTypeOK, Roles
  <1>4. /\ profile' \in [Ids -> Users \union {NoUser}]
        /\ \A i \in Ids : profile'[i] # profile[i] => profile[i] = NoUser /\ profile'[i] = NewUser
    BY <1>1, <1>2 DEF TypeOK, OnboardingTypeOK
  <1> QED BY <1>1, <1>3, <1>4 DEF Register, TypeOK, OnboardingTypeOK

-----------------------------------------------------------------------------

LEMMA ServeType ==
  ASSUME OnboardingTypeOK, RoomInv, NEW r \in Requests, Serve(r)
  PROVE  OnboardingTypeOK'
  BY CreateUserType, AssignAdminType, CreateProfileType, SetConfigType DEF Serve

LEMMA StepType == TypeOK /\ RoomInv /\ [Next]_vars => TypeOK'
  <1> SUFFICES ASSUME TypeOK, RoomInv, [Next]_vars PROVE TypeOK'
    OBVIOUS
  <1>1. OnboardingTypeOK
    BY DEF TypeOK
  <1>2. ASSUME OnboardingNext, UNCHANGED <<granted, dismissed, task>> PROVE TypeOK'
    <2>1. OnboardingTypeOK'
      BY <1>1, <1>2, PagesType, BeginType, ServeType, FailsType DEF OnboardingNext
    <2> QED BY <1>2, <2>1 DEF TypeOK
  <1>3. CASE UNCHANGED vars
    BY <1>3 DEF vars, TypeOK, OnboardingTypeOK
  <1> QED BY <1>2, <1>3, TaskType, RegisterType DEF Next

LEMMA StepRoom == TypeOK /\ RoomInv /\ [Next]_vars => RoomInv'
  <1> SUFFICES ASSUME TypeOK, RoomInv, [Next]_vars PROVE RoomInv'
    OBVIOUS
  <1> DEFINE Room == Users \ users
  <1>0. /\ OnboardingTypeOK
        /\ IsFiniteSet(Creating) /\ IsFiniteSet(Creating') /\ IsFiniteSet(Room) /\ IsFiniteSet(Room')
        /\ Cardinality(Creating) \in Nat /\ Cardinality(Creating') \in Nat
        /\ Cardinality(Room) \in Nat /\ Cardinality(Room') \in Nat
        /\ Cardinality(Room) >= Cardinality(Creating)
    <2>1. /\ Creating \in SUBSET Requests /\ Creating' \in SUBSET Requests
          /\ Room \in SUBSET Users /\ Room' \in SUBSET Users
      BY DEF Creating
    <2>2. Cardinality(Room) >= Cardinality(Creating) /\ OnboardingTypeOK
      BY DEF RoomInv, TypeOK
    <2> HIDE DEF Room
    <2> QED BY <2>1, <2>2, Finite
  <1>1. Cardinality(Room') >= Cardinality(Creating') => RoomInv'
    BY DEF RoomInv
  \* Nobody joins, and no user is made.
  <1>2. ASSUME Creating' \subseteq Creating, users' = users PROVE RoomInv'
    <2>1. Cardinality(Creating') <= Cardinality(Creating)
      BY <1>0, <1>2, CountSame
    <2>2. Room' = Room
      BY <1>2
    <2> HIDE DEF Room
    <2> QED BY <1>0, <1>1, <2>1, <2>2
  <1>3. ASSUME NEW r \in Requests, NEW b \in Browsers, BeginPassword(r, b) PROVE RoomInv'
    <2>1. Creating' \subseteq Creating \union {r}
      BY <1>0, <1>3, BeginType DEF Creating
    <2>2. Cardinality(Room) > Cardinality(Creating)
      BY <1>3 DEF BeginPassword, UserLeft, Creating
    <2>3. Room' = Room
      BY <1>3 DEF BeginPassword, setup
    <2> HIDE DEF Room
    <2>4. Cardinality(Creating') <= Cardinality(Creating) + 1
      BY <1>0, <2>1, CountUp
    <2> QED BY <1>0, <1>1, <2>2, <2>3, <2>4
  <1>4. ASSUME NEW r \in Requests, CreateUser(r) PROVE RoomInv'
    <2>1. r \in Creating /\ Creating' \subseteq Creating \ {r}
      BY <1>0, <1>4, CreateUserType DEF Creating, CreateUser
    <2>2. Room \subseteq Room' \union {NewUser}
      BY <1>4 DEF CreateUser
    <2> HIDE DEF Room
    <2>3. Cardinality(Creating') <= Cardinality(Creating) - 1
      BY <1>0, <2>1, CountDown
    <2>4. Cardinality(Room) <= Cardinality(Room') + 1
      BY <1>0, <2>2, CountUp
    <2> QED BY <1>0, <1>1, <2>3, <2>4
  <1>5. ASSUME NEW r \in Requests,
               AssignAdmin(r) \/ CreateProfile(r) \/ SetConfig(r) \/ StatementFails(r)
        PROVE  RoomInv'
    <2>1. Creating' \subseteq Creating
      BY <1>0, <1>5, AssignAdminType, CreateProfileType, SetConfigType, FailsType DEF Creating
    <2>2. users' = users
      BY <1>5 DEF AssignAdmin, CreateProfile, SetConfig, StatementFails, setup
    <2> QED BY <1>2, <2>1, <2>2
  <1>6. ASSUME Register PROVE RoomInv'
    <2>1. Cardinality(Room) > Cardinality(Creating)
      BY <1>6 DEF Register, UserLeft, Creating
    <2>2. Room \subseteq Room' \union {NewUser} /\ Creating' = Creating
      BY <1>6 DEF Register, Creating
    <2> HIDE DEF Room
    <2>3. Cardinality(Room) <= Cardinality(Room') + 1
      BY <1>0, <2>2, CountUp
    <2> QED BY <1>0, <1>1, <2>1, <2>2, <2>3
  <1>7. ASSUME \/ \E b \in Browsers : \/ \E id \in Ids : Personal(b, id)
                                      \/ Unit(b)
                                      \/ Timezone(b)
               \/ \E t \in Tasks : BeginTask(t) \/ ServeTask(t)
               \/ UNCHANGED vars
        PROVE  RoomInv'
    <2>1. users' = users /\ req' = req
      BY <1>0, <1>7, PagesType, TaskType DEF setup, vars
    <2> QED BY <1>2, <2>1 DEF Creating
  <1> QED BY <1>3, <1>4, <1>5, <1>6, <1>7 DEF Next, OnboardingNext, Serve

LEMMA TypedInvariant == Spec => [](TypeOK /\ RoomInv)
  <1>1. Init => TypeOK
    <2>1. NoForm.page = 0 /\ NoTask \in TaskRecord
      BY DEF NoForm, NoTask, TaskRecord, Roles
    <2>2. ASSUME OnboardingInit PROVE OnboardingTypeOK
      <3>1. complete \in BOOLEAN /\ config \in SUBSET Settings /\ users \in SUBSET Users
        BY <2>2 DEF OnboardingInit
      <3>2. roles \in [Users -> SUBSET Roles] /\ profile \in [Ids -> Users \union {NoUser}]
        BY <2>2 DEF OnboardingInit
      <3>3. /\ form \in [Browsers -> [page: 0..3, id: Ids \union {NoId}]]
            /\ \A b \in Browsers : form[b].page > 0 => form[b].id \in Ids
        BY <2>1, <2>2, IdleType DEF OnboardingInit
      <3>4. req \in [Requests -> SubmitRecord] /\ faults \in 0..MaxFaults
        BY <2>2, IdleType, OnboardingAssumption DEF OnboardingInit
      <3> QED BY <3>1, <3>2, <3>3, <3>4 DEF OnboardingTypeOK
    <2>3. [role \in Roles |-> IF role = "admin" THEN Permissions ELSE {}]
            \in [Roles -> SUBSET Permissions]
      OBVIOUS
    <2> QED BY <2>1, <2>2, <2>3 DEF Init, TypeOK
  <1>2. Init => RoomInv
    <2> SUFFICES ASSUME Init PROVE RoomInv
      OBVIOUS
    <2>1. Creating = {} /\ Users \ users \in SUBSET Users
      BY DEF Init, OnboardingInit, Creating, Idle
    <2>2. Cardinality(Creating) = 0 /\ Cardinality(Users \ users) \in Nat
      BY <2>1, Finite, FS_EmptySet
    <2> QED BY <2>2 DEF RoomInv
  <1> QED BY <1>1, <1>2, StepType, StepRoom, PTL DEF Spec

\* The tables, the cookies and the memory of every handler keep their types; a handler
\* that is about to use a user, or a BSA ID, has one.
THEOREM TypeCorrect == Spec => []TypeOK
  BY TypedInvariant, PTL

-----------------------------------------------------------------------------
(***************************************************************************)
(* The first administrator.  A submission that sets the configuration has  *)
(* a profile, with a user that was made an administrator, and has set all  *)
(* the keys before its own.                                                *)
(***************************************************************************)

WasAdmin(u) == "admin" \in roles[u] \/ u \in dismissed

SubmitInv(r) ==
    /\ req[r].stage \in {"assignAdmin", "createProfile", "setConfig"} => req[r].user \in users
    /\ req[r].stage \in {"createProfile", "setConfig"} => WasAdmin(req[r].user)
    /\ req[r].stage = "setConfig" => profile[req[r].id] = req[r].user
    /\ \A j \in 1..(req[r].key - 1) : ConfigKeys[j] \in config

AdminInv ==
    /\ \A id \in Ids : profile[id] # NoUser => profile[id] \in users
    /\ \A r \in Requests : SubmitInv(r)
    /\ InstalledHasAdministrator

\* What no step takes back.
Grows ==
    /\ users \subseteq users'
    /\ config \subseteq config'
    /\ complete => complete'
    /\ \A id \in Ids : profile[id] # NoUser => profile'[id] = profile[id]
    /\ \A u \in users : WasAdmin(u) => WasAdmin(u)'

LEMMA StepGrows ==
  ASSUME TypeOK, RoomInv, [Next]_vars
  PROVE  Grows
  <1>0. OnboardingTypeOK /\ users \in SUBSET Users
    BY DEF TypeOK, OnboardingTypeOK
  <1>1. ASSUME UNCHANGED <<setup, dismissed>> PROVE Grows
    BY <1>1 DEF setup, Grows, WasAdmin
  <1>2. ASSUME NEW b \in Browsers,
               \/ \E id \in Ids : Personal(b, id)
               \/ Unit(b)
               \/ Timezone(b)
               \/ \E r \in Requests : BeginPassword(r, b),
               UNCHANGED dismissed
        PROVE  Grows
    BY <1>0, <1>1, <1>2, PagesType, BeginType
  <1>3. ASSUME NEW r \in Requests, StatementFails(r), UNCHANGED dismissed PROVE Grows
    BY <1>0, <1>1, <1>3, FailsType
  <1>4. ASSUME NEW r \in Requests, CreateUser(r), UNCHANGED dismissed PROVE Grows
    BY <1>4 DEF CreateUser, Grows, WasAdmin
  <1>5. ASSUME NEW r \in Requests, AssignAdmin(r), UNCHANGED dismissed PROVE Grows
    <2>1. \A u \in users : WasAdmin(u) => WasAdmin(u)'
      BY <1>0, <1>5, AssignAdminType DEF WasAdmin
    <2> QED BY <1>5, <2>1 DEF AssignAdmin, Grows
  <1>6. ASSUME NEW r \in Requests, CreateProfile(r), UNCHANGED dismissed PROVE Grows
    <2>1. \A id \in Ids : profile[id] # NoUser => profile'[id] = profile[id]
      BY <1>0, <1>6, CreateProfileType
    <2> QED BY <1>6, <2>1 DEF CreateProfile, Grows, WasAdmin
  <1>7. ASSUME NEW r \in Requests, SetConfig(r), UNCHANGED dismissed PROVE Grows
    <2>1. config \subseteq config' /\ UNCHANGED <<users, profile, roles>>
      BY <1>7 DEF SetConfig
    <2>2. complete => complete'
      BY <1>7, Zenon DEF SetConfig
    <2> QED BY <1>7, <2>1, <2>2 DEF Grows, WasAdmin
  <1>8. ASSUME NEW t \in Tasks, BeginTask(t) \/ ServeTask(t) PROVE Grows
    <2>1. UNCHANGED <<complete, config, users, profile>>
      BY <1>8, TaskType
    <2>2. \A u \in users : WasAdmin(u) => WasAdmin(u)'
      BY <1>0, <1>8, TaskType DEF WasAdmin
    <2> QED BY <2>1, <2>2 DEF Grows
  <1>9. ASSUME Register PROVE Grows
    BY <1>0, <1>9, RegisterType DEF Grows, WasAdmin
  <1>10. ASSUME UNCHANGED vars PROVE Grows
    BY <1>1, <1>10 DEF vars, setup
  <1> QED BY <1>2, <1>3, <1>4, <1>5, <1>6, <1>7, <1>8, <1>9, <1>10
      DEF Next, OnboardingNext, Serve

\* A submission that a step leaves alone keeps what it has.
LEMMA SubmitStays ==
  ASSUME TypeOK, Grows, NEW s \in Requests, SubmitInv(s), req'[s] = req[s]
  PROVE  SubmitInv(s)'
  <1>1. /\ req[s].stage \in {"assignAdmin", "createProfile", "setConfig"} =>
             req[s].user \in Users /\ req[s].user # NoUser /\ req[s].user \in users
        /\ req[s].stage # "idle" => req[s].id \in Ids
    BY SubmitFields, OnboardingAssumption DEF SubmitInv, TypeOK
  <1>2. req[s].stage \in {"createProfile", "setConfig"} => WasAdmin(req[s].user)'
    BY <1>1 DEF SubmitInv, Grows
  <1>3. req[s].stage = "setConfig" => profile'[req[s].id] = req[s].user
    BY <1>1 DEF SubmitInv, Grows
  <1>4. \A j \in 1..(req[s].key - 1) : ConfigKeys[j] \in config'
    BY DEF SubmitInv, Grows
  <1>5. req[s].user \in users => req[s].user \in users'
    BY DEF Grows
  <1>6. /\ (req[s].stage = req'[s].stage) /\ (req[s].user = req'[s].user)
        /\ (req[s].id = req'[s].id) /\ (req[s].key = req'[s].key)
    OBVIOUS
  <1>7. req'[s].stage \in {"createProfile", "setConfig"} => WasAdmin(req[s].user)'
    BY <1>2, <1>6
  <1> QED BY <1>1, <1>3, <1>4, <1>5, <1>6, <1>7 DEF SubmitInv, WasAdmin

LEMMA StepSubmit ==
  ASSUME TypeOK, RoomInv, AdminInv, [Next]_vars, NEW s \in Requests
  PROVE  SubmitInv(s)'
  <1>0. OnboardingTypeOK /\ Grows /\ SubmitInv(s)
    BY StepGrows DEF TypeOK, AdminInv
  <1>1. CASE req'[s] = req[s]
    BY <1>0, <1>1, SubmitStays
  \* A request that starts or ends has nothing yet, or nothing more.
  <1>2. ASSUME req'[s].stage \in {"idle", "createUser"}, req'[s].key = 1 PROVE SubmitInv(s)'
    BY <1>2 DEF SubmitInv
  <1>3. ASSUME NEW r \in Requests, r # s,
               Serve(r) \/ StatementFails(r) \/ \E b \in Browsers : BeginPassword(r, b)
        PROVE  req'[s] = req[s]
    BY <1>0, <1>3, CreateUserType, AssignAdminType, CreateProfileType, SetConfigType, FailsType,
       BeginType DEF Serve
  <1>4. ASSUME StatementFails(s) \/ \E b \in Browsers : BeginPassword(s, b) PROVE SubmitInv(s)'
    BY <1>0, <1>2, <1>4, FailsType, BeginType
  <1>5. ASSUME CreateUser(s) PROVE SubmitInv(s)'
    <2>1. /\ req'[s].stage = "assignAdmin" /\ req'[s].user \in users' /\ req'[s].key = req[s].key
          /\ config' = config
      <3>1. users' = users \union {NewUser} /\ config' = config
        BY <1>5 DEF CreateUser
      <3>2. /\ req'[s].stage = "assignAdmin" /\ req'[s].user = NewUser
            /\ req'[s].key = req[s].key
        BY <1>0, <1>5, CreateUserType
      <3> QED BY <3>1, <3>2
    <2> QED BY <1>0, <2>1 DEF SubmitInv
  <1>6. ASSUME AssignAdmin(s) PROVE SubmitInv(s)'
    <2>1. /\ req'[s].stage = "createProfile" /\ req'[s].user = req[s].user
          /\ req'[s].key = req[s].key /\ "admin" \in roles'[req[s].user]
          /\ config' = config /\ users' = users /\ req[s].stage = "assignAdmin"
      BY <1>0, <1>6, AssignAdminType DEF AssignAdmin
    <2> QED BY <1>0, <2>1 DEF SubmitInv, WasAdmin
  <1>7. ASSUME CreateProfile(s), UNCHANGED dismissed PROVE SubmitInv(s)'
    <2>1. /\ config' = config /\ users' = users /\ roles' = roles
          /\ req[s].stage = "createProfile"
      BY <1>7 DEF CreateProfile
    <2>2. CASE req'[s].stage = "idle" /\ req'[s].key = 1
      BY <1>2, <2>2
    <2>3. CASE ~ (req'[s].stage = "idle" /\ req'[s].key = 1)
      <3>1. /\ profile'[req[s].id] = req[s].user
            /\ req'[s].stage = "setConfig" /\ req'[s].user = req[s].user
            /\ req'[s].id = req[s].id /\ req'[s].key = req[s].key
        BY <1>0, <1>7, <2>3, CreateProfileType
      <3> QED BY <1>0, <1>7, <2>1, <3>1 DEF SubmitInv, WasAdmin
    <2> QED BY <2>2, <2>3
  <1>8. ASSUME SetConfig(s), UNCHANGED dismissed PROVE SubmitInv(s)'
    <2>1. CASE req'[s].stage = "idle" /\ req'[s].key = 1
      BY <1>2, <2>1
    <2>2. CASE ~ (req'[s].stage = "idle" /\ req'[s].key = 1)
      <3>1. /\ req'[s].stage = "setConfig" /\ req'[s].user = req[s].user
            /\ req'[s].id = req[s].id /\ req'[s].key = req[s].key + 1
            /\ ConfigKeys[req[s].key] \in config' /\ config \subseteq config'
        BY <1>0, <1>8, <2>2, SetConfigType
      <3>2. UNCHANGED <<users, roles, profile>> /\ req[s].stage = "setConfig"
        BY <1>8 DEF SetConfig
      <3>3. req[s].key \in 1..5
        BY <1>0, SubmitFields DEF ConfigKeys
      <3>4. \A j \in 1..(req'[s].key - 1) : ConfigKeys[j] \in config'
        BY <1>0, <3>1, <3>3 DEF SubmitInv
      <3> QED BY <1>0, <1>8, <3>1, <3>2, <3>4 DEF SubmitInv, WasAdmin
    <2> QED BY <2>1, <2>2
  <1>9. ASSUME \/ \E b \in Browsers : \/ \E id \in Ids : Personal(b, id)
                                      \/ Unit(b)
                                      \/ Timezone(b)
               \/ \E t \in Tasks : BeginTask(t) \/ ServeTask(t)
               \/ Register
               \/ UNCHANGED vars
        PROVE  req'[s] = req[s]
    BY <1>0, <1>9, PagesType, TaskType, RegisterType DEF vars
  <1>10. ASSUME NEW r \in Requests, Serve(r), UNCHANGED dismissed PROVE SubmitInv(s)'
    BY <1>1, <1>3, <1>5, <1>6, <1>7, <1>8, <1>10 DEF Serve
  <1>11. ASSUME NEW r \in Requests, StatementFails(r) \/ \E b \in Browsers : BeginPassword(r, b)
         PROVE  SubmitInv(s)'
    BY <1>1, <1>3, <1>4, <1>11
  <1> QED BY <1>1, <1>9, <1>10, <1>11 DEF Next, OnboardingNext

LEMMA StepAdmin ==
  ASSUME TypeOK, RoomInv, AdminInv, [Next]_vars
  PROVE  AdminInv'
  <1>0. OnboardingTypeOK /\ Grows /\ OnboardingTypeOK' /\ TypeOK'
    BY StepGrows, StepType DEF TypeOK
  <1>1. \A r \in Requests : SubmitInv(r)'
    BY StepSubmit
  <1>2. \A id \in Ids : profile'[id] # NoUser => profile'[id] \in users'
    <2>1. ASSUME NEW r \in Requests, NEW id \in Ids, CreateProfile(r), profile'[id] # profile[id]
          PROVE  profile'[id] \in users'
      <3>1. profile'[id] = req[r].user
        BY <1>0, <2>1, CreateProfileType
      <3>2. req[r].user \in users /\ users' = users
        BY <2>1 DEF CreateProfile, AdminInv, SubmitInv
      <3> QED BY <3>1, <3>2
    <2>2. ASSUME NEW id \in Ids, Register, profile'[id] # profile[id]
          PROVE  profile'[id] \in users'
      BY <2>2, RegisterType
    <2>3. ASSUME NEW r \in Requests, Serve(r), ~ CreateProfile(r) PROVE profile' = profile
      BY <2>3 DEF Serve, CreateUser, AssignAdmin, SetConfig
    <2>4. ASSUME NEW r \in Requests, StatementFails(r) PROVE profile' = profile
      BY <1>0, <2>4, FailsType DEF setup
    <2>5. ASSUME \/ \E b \in Browsers : \/ \E id \in Ids : Personal(b, id)
                                        \/ Unit(b)
                                        \/ Timezone(b)
                                        \/ \E r \in Requests : BeginPassword(r, b)
                 \/ \E t \in Tasks : BeginTask(t) \/ ServeTask(t)
                 \/ UNCHANGED vars
          PROVE  profile' = profile
      BY <1>0, <2>5, PagesType, BeginType, TaskType DEF setup, vars
    <2>6. profile' = profile \/ \A id \in Ids : profile'[id] # profile[id] => profile'[id] \in users'
      BY <2>1, <2>2, <2>3, <2>4, <2>5 DEF Next, OnboardingNext
    <2> QED BY <1>0, <2>6 DEF AdminInv, Grows
  <1>3. InstalledHasAdministrator'
    <2>1. CASE complete
      <3>1. /\ complete' /\ config \subseteq config'
            /\ config' \in SUBSET Settings /\ config = Settings
        BY <1>0, <2>1 DEF Grows, AdminInv, InstalledHasAdministrator, OnboardingTypeOK
      <3>2. PICK id \in Ids : profile[id] # NoUser /\ WasAdmin(profile[id])
        BY <2>1 DEF AdminInv, InstalledHasAdministrator, WasAdmin
      <3>3. profile'[id] = profile[id] /\ profile[id] \in users /\ WasAdmin(profile[id])'
        BY <1>0, <3>2 DEF Grows, AdminInv
      <3>4. WasAdmin(profile[id])'
            <=> (("admin" \in roles'[profile'[id]]) \/ (profile'[id] \in dismissed'))
        BY <3>3 DEF WasAdmin
      <3> QED BY <3>1, <3>2, <3>3, <3>4 DEF InstalledHasAdministrator
    <2>2. CASE ~ complete /\ complete'
      <3>1. PICK r \in Requests : SetConfig(r) /\ UNCHANGED dismissed
        <4>1. ASSUME NEW r \in Requests, Serve(r), ~ SetConfig(r) PROVE complete' = complete
          BY <4>1 DEF Serve, CreateUser, AssignAdmin, CreateProfile
        <4>2. ASSUME NEW r \in Requests, StatementFails(r) PROVE complete' = complete
          BY <1>0, <4>2, FailsType DEF setup
        <4>3. ASSUME \/ \E b \in Browsers : \/ \E id \in Ids : Personal(b, id)
                                            \/ Unit(b)
                                            \/ Timezone(b)
                                            \/ \E r \in Requests : BeginPassword(r, b)
                     \/ \E t \in Tasks : BeginTask(t) \/ ServeTask(t)
                     \/ Register
                     \/ UNCHANGED vars
              PROVE  complete' = complete
          BY <1>0, <4>3, PagesType, BeginType, TaskType, RegisterType DEF setup, vars
        <4>4. ASSUME complete' = complete PROVE FALSE
          BY <2>2, <4>4
        <4> QED BY <4>1, <4>2, <4>3, <4>4 DEF Next, OnboardingNext
      <3>2. req[r].key = 5 /\ config \subseteq config' /\ SubmitInv(r)
        <4>1. req[r].key < 5 => complete' = complete
          BY <1>0, <3>1, SetConfigType
        <4>2. req[r].key \in 1..5
          BY <1>0, SubmitFields DEF ConfigKeys
        <4>3. ~ (req[r].key < 5)
          BY <2>2, <4>1
        <4> QED BY <1>0, <4>2, <4>3 DEF Grows, AdminInv
      <3>3. Settings \subseteq config
        <4>1. ConfigKeys[1] \in config /\ ConfigKeys[2] \in config
              /\ ConfigKeys[3] \in config /\ ConfigKeys[4] \in config
          BY <3>2 DEF SubmitInv
        <4> QED BY <4>1 DEF ConfigKeys, Settings
      <3>4. config' = Settings
        BY <1>0, <3>2, <3>3 DEF OnboardingTypeOK
      <3>5. /\ req[r].id \in Ids /\ req[r].user \in Users /\ req[r].stage = "setConfig"
            /\ UNCHANGED <<profile, roles>>
        BY <1>0, <3>1, SubmitFields DEF SetConfig
      <3>6. /\ profile'[req[r].id] = req[r].user /\ req[r].user # NoUser
            /\ ("admin" \in roles'[req[r].user]) \/ (req[r].user \in dismissed')
        BY <3>1, <3>2, <3>5, OnboardingAssumption DEF SubmitInv, WasAdmin
      <3> QED BY <3>4, <3>5, <3>6 DEF InstalledHasAdministrator
    <2>3. CASE ~ complete'
      BY <2>3 DEF InstalledHasAdministrator
    <2> QED BY <2>1, <2>2, <2>3
  <1> QED BY <1>1, <1>2, <1>3 DEF AdminInv

LEMMA AdminInvariant == Spec => []AdminInv
  <1>1. Init => AdminInv
    <2> SUFFICES ASSUME Init PROVE AdminInv
      OBVIOUS
    <2>1. \A id \in Ids : profile[id] = NoUser
      BY DEF Init, OnboardingInit
    <2>2. \A r \in Requests : SubmitInv(r)
      BY DEF Init, OnboardingInit, SubmitInv, Idle
    <2>3. InstalledHasAdministrator
      BY DEF Init, OnboardingInit, InstalledHasAdministrator
    <2> QED BY <2>1, <2>2, <2>3 DEF AdminInv
  <1>2. TypeOK /\ RoomInv /\ AdminInv /\ [Next]_vars => AdminInv'
    BY StepAdmin
  <1> QED BY <1>1, <1>2, TypedInvariant, PTL DEF Spec

\* The setup that says it is complete has set everything and left an administrator who
\* can sign in, whatever else has failed or overlapped; only a dismissal takes that away.
THEOREM InstalledIsAdministered == Spec => []InstalledHasAdministrator
  <1>1. AdminInv => InstalledHasAdministrator
    BY DEF AdminInv
  <1> QED BY <1>1, AdminInvariant, PTL

-----------------------------------------------------------------------------
(***************************************************************************)
(* The number of first administrators.  Before the setup is complete every *)
(* one of them belongs to a submission that still sets the configuration,  *)
(* or that a failure has stopped while it did.                             *)
(***************************************************************************)

Setting == {r \in Requests : req[r].stage = "setConfig"}

CountInv ==
    /\ FirstAdministratorsBounded
    /\ ~ complete => Cardinality(FirstAdministrators) <= Cardinality(Setting) + faults

\* Two sets of requests that have nothing in common, and a set of BSA IDs.
LEMMA Disjoint ==
  ASSUME NEW F \in SUBSET Ids, NEW S \in SUBSET Requests, NEW T \in SUBSET Requests,
         S \intersect T = {}
  PROVE  /\ IsFiniteSet(F) /\ Cardinality(F) \in Nat
         /\ IsFiniteSet(S) /\ Cardinality(S) \in Nat
         /\ IsFiniteSet(T) /\ Cardinality(T) \in Nat
         /\ Cardinality(Requests) \in Nat
         /\ Cardinality(S) + Cardinality(T) <= Cardinality(Requests)
  <1>1. /\ IsFiniteSet(F) /\ Cardinality(F) \in Nat
        /\ IsFiniteSet(S) /\ Cardinality(S) \in Nat
        /\ IsFiniteSet(T) /\ Cardinality(T) \in Nat
        /\ Cardinality(Requests) \in Nat
    BY Finite
  <1>2. /\ Cardinality(S \union T) = Cardinality(S) + Cardinality(T) - Cardinality(S \intersect T)
        /\ Cardinality(S \intersect T) = 0
    BY <1>1, FS_Union, FS_EmptySet, Zenon
  <1>3. S \union T \in SUBSET Requests
    OBVIOUS
  <1>4. Cardinality(S \union T) <= Cardinality(Requests)
    BY <1>3, Finite
  <1> QED BY <1>1, <1>2, <1>4

\* What is counted, before and after a step.
LEMMA Counts ==
  /\ IsFiniteSet(FirstAdministrators) /\ Cardinality(FirstAdministrators) \in Nat
  /\ IsFiniteSet(Submitting) /\ Cardinality(Submitting) \in Nat
  /\ IsFiniteSet(Setting) /\ Cardinality(Setting) \in Nat
  /\ IsFiniteSet(FirstAdministrators') /\ Cardinality(FirstAdministrators') \in Nat
  /\ IsFiniteSet(Submitting') /\ Cardinality(Submitting') \in Nat
  /\ IsFiniteSet(Setting') /\ Cardinality(Setting') \in Nat
  /\ Cardinality(Requests) \in Nat
  /\ Cardinality(Submitting') + Cardinality(Setting') <= Cardinality(Requests)
  <1>1. /\ FirstAdministrators \in SUBSET Ids
        /\ Submitting \in SUBSET Requests /\ Setting \in SUBSET Requests
        /\ Submitting \intersect Setting = {}
    BY DEF FirstAdministrators, Submitting, Setting
  <1>2. /\ FirstAdministrators' \in SUBSET Ids
        /\ Submitting' \in SUBSET Requests /\ Setting' \in SUBSET Requests
        /\ Submitting' \intersect Setting' = {}
    BY DEF FirstAdministrators, Submitting, Setting
  <1> QED BY <1>1, <1>2, Disjoint

\* Nobody leaves the submissions that set the configuration, and nobody else is counted.
LEMMA SameCount ==
  ASSUME CountInv, FirstAdministrators' \subseteq FirstAdministrators,
         Submitting' \subseteq Submitting, Setting \subseteq Setting',
         complete => complete', faults \in Nat, faults' \in Nat, faults' >= faults
  PROVE  CountInv'
  <1>1. /\ IsFiniteSet(FirstAdministrators) /\ Cardinality(FirstAdministrators) \in Nat
        /\ IsFiniteSet(Submitting) /\ Cardinality(Submitting) \in Nat
        /\ IsFiniteSet(Setting) /\ Cardinality(Setting) \in Nat
        /\ IsFiniteSet(Setting') /\ Cardinality(Setting') \in Nat
        /\ Cardinality(FirstAdministrators') \in Nat /\ Cardinality(Submitting') \in Nat
        /\ Cardinality(Requests) \in Nat
    BY Counts
  <1>2. /\ Cardinality(FirstAdministrators') <= Cardinality(FirstAdministrators)
        /\ Cardinality(Submitting') <= Cardinality(Submitting)
        /\ Cardinality(Setting) <= Cardinality(Setting')
    BY <1>1, CountSame
  <1>3. FirstAdministratorsBounded'
    BY <1>1, <1>2 DEF CountInv, FirstAdministratorsBounded
  <1>4. ~ complete' => Cardinality(FirstAdministrators') <= Cardinality(Setting') + faults'
    BY <1>1, <1>2 DEF CountInv
  <1> QED BY <1>3, <1>4 DEF CountInv

LEMMA StepCount ==
  ASSUME TypeOK, RoomInv, AdminInv, CountInv, [Next]_vars
  PROVE  CountInv'
  <1>0. /\ OnboardingTypeOK /\ Grows /\ (complete => complete')
        /\ faults \in Nat /\ faults' \in Nat
    <2>1. faults \in 0..MaxFaults /\ faults' \in 0..MaxFaults
      BY StepType DEF TypeOK, OnboardingTypeOK
    <2>2. OnboardingTypeOK /\ Grows
      BY StepGrows DEF TypeOK
    <2> QED BY <2>1, <2>2, OnboardingAssumption DEF Grows
  <1>1. /\ IsFiniteSet(FirstAdministrators) /\ Cardinality(FirstAdministrators) \in Nat
        /\ IsFiniteSet(Submitting) /\ Cardinality(Submitting) \in Nat
        /\ IsFiniteSet(Setting) /\ Cardinality(Setting) \in Nat
        /\ IsFiniteSet(FirstAdministrators') /\ Cardinality(FirstAdministrators') \in Nat
        /\ IsFiniteSet(Submitting') /\ Cardinality(Submitting') \in Nat
        /\ IsFiniteSet(Setting') /\ Cardinality(Setting') \in Nat
        /\ Cardinality(Requests) \in Nat
        /\ Cardinality(Submitting') + Cardinality(Setting') <= Cardinality(Requests)
        /\ Cardinality(FirstAdministrators) + Cardinality(Submitting) <= Cardinality(Requests) + faults
        /\ ~ complete => Cardinality(FirstAdministrators) <= Cardinality(Setting) + faults
    BY Counts DEF CountInv, FirstAdministratorsBounded
  \* The second part is enough while the setup is not complete.
  <1>2. ASSUME ~ complete', Cardinality(FirstAdministrators') <= Cardinality(Setting') + faults'
        PROVE  CountInv'
    BY <1>0, <1>1, <1>2 DEF CountInv, FirstAdministratorsBounded
  <1>3. ASSUME complete',
               Cardinality(FirstAdministrators') + Cardinality(Submitting')
                 <= Cardinality(Requests) + faults'
        PROVE  CountInv'
    BY <1>3 DEF CountInv, FirstAdministratorsBounded
  <1>4. ASSUME UNCHANGED <<profile, roles, req>>, faults' >= faults PROVE CountInv'
    BY <1>0, <1>4, SameCount DEF FirstAdministrators, Submitting, Setting
  <1>5. ASSUME NEW b \in Browsers,
               \/ \E id \in Ids : Personal(b, id)
               \/ Unit(b)
               \/ Timezone(b)
        PROVE  CountInv'
    <2>1. UNCHANGED <<setup, req>> /\ (faults' = faults \/ faults' = faults + 1)
      BY <1>0, <1>5, PagesType
    <2> QED BY <1>0, <1>4, <2>1 DEF setup
  <1>6. ASSUME NEW r \in Requests, NEW b \in Browsers, BeginPassword(r, b) PROVE CountInv'
    <2>1. /\ UNCHANGED setup
          /\ req[r].stage = "idle" /\ req'[r].stage = "createUser"
          /\ \A s \in Requests \ {r} : req'[s] = req[s]
          /\ IF complete THEN faults' = faults + 1 ELSE faults' = faults
      BY <1>0, <1>6, BeginType
    <2>2. /\ FirstAdministrators' = FirstAdministrators
          /\ Setting' = Setting
          /\ Submitting' \subseteq Submitting \union {r}
      BY <2>1 DEF FirstAdministrators, Setting, Submitting, setup
    <2>3. CASE ~ complete
      <3>1. ~ complete' /\ faults' = faults
        BY <2>1, <2>3 DEF setup
      <3> QED BY <1>1, <1>2, <2>2, <2>3, <3>1
    <2>4. CASE complete
      <3>1. complete' /\ faults' = faults + 1
        BY <2>1, <2>4 DEF setup
      <3>2. Cardinality(Submitting') <= Cardinality(Submitting) + 1
        BY <1>1, <2>2, CountUp
      <3>3. Cardinality(FirstAdministrators') + Cardinality(Submitting')
              <= Cardinality(Requests) + faults'
        BY <1>0, <1>1, <2>2, <3>1, <3>2
      <3> QED BY <1>3, <3>1, <3>3
    <2> QED BY <2>3, <2>4
  <1>7. ASSUME NEW r \in Requests, CreateUser(r) PROVE CountInv'
    <2>1. /\ req[r].stage = "createUser" /\ req'[r].stage = "assignAdmin"
          /\ \A s \in Requests \ {r} : req'[s] = req[s]
          /\ UNCHANGED <<profile, roles, faults>>
      BY <1>0, <1>7, CreateUserType DEF CreateUser
    <2> QED BY <1>0, <2>1, SameCount DEF FirstAdministrators, Submitting, Setting
  <1>8. ASSUME NEW r \in Requests, AssignAdmin(r) PROVE CountInv'
    <2>1. /\ req[r].stage = "assignAdmin" /\ req'[r].stage = "createProfile"
          /\ \A s \in Requests \ {r} : req'[s] = req[s]
          /\ \A u \in Users : roles[u] \subseteq roles'[u]
          /\ UNCHANGED <<profile, faults>>
      BY <1>0, <1>8, AssignAdminType DEF AssignAdmin
    <2>2. FirstAdministrators' \subseteq FirstAdministrators
      BY <1>0, <2>1 DEF FirstAdministrators, OnboardingTypeOK
    <2>3. Submitting' \subseteq Submitting /\ Setting \subseteq Setting'
      BY <2>1 DEF Submitting, Setting
    <2> QED BY <1>0, <2>1, <2>2, <2>3, SameCount
  <1>9. ASSUME NEW r \in Requests, CreateProfile(r) PROVE CountInv'
    <2>1. /\ req[r].stage = "createProfile" /\ req[r].id \in Ids
          /\ UNCHANGED <<complete, roles, faults>>
          /\ \A s \in Requests \ {r} : req'[s] = req[s]
      BY <1>0, <1>9, CreateProfileType DEF CreateProfile
    <2>2. CASE profile' = profile /\ req'[r].stage = "idle"
      <3>1. /\ FirstAdministrators' = FirstAdministrators
            /\ Submitting' \subseteq Submitting /\ Setting \subseteq Setting'
        BY <2>1, <2>2 DEF FirstAdministrators, Submitting, Setting
      <3> QED BY <1>0, <2>1, <3>1, SameCount
    <2>3. CASE ~ (profile' = profile /\ req'[r].stage = "idle")
      <3>1. /\ req'[r].stage = "setConfig"
            /\ \A id \in Ids \ {req[r].id} : profile'[id] = profile[id]
        BY <1>0, <1>9, <2>3, CreateProfileType
      <3>2. FirstAdministrators' \subseteq FirstAdministrators \union {req[r].id}
        BY <2>1, <3>1 DEF FirstAdministrators
      <3>3. r \in Submitting /\ Submitting' \subseteq Submitting \ {r}
        BY <2>1, <3>1 DEF Submitting
      <3>4. r \in Setting' /\ Setting \subseteq Setting' \ {r}
        BY <2>1, <3>1 DEF Setting
      <3>5. /\ Cardinality(FirstAdministrators') <= Cardinality(FirstAdministrators) + 1
            /\ Cardinality(Submitting') <= Cardinality(Submitting) - 1
            /\ Cardinality(Setting) <= Cardinality(Setting') - 1
        BY <1>1, <3>2, <3>3, <3>4, CountUp, CountDown
      <3>6. CASE complete
        <4>1. Cardinality(FirstAdministrators') + Cardinality(Submitting')
                <= Cardinality(Requests) + faults'
          BY <1>0, <1>1, <2>1, <3>5
        <4>2. complete'
          BY <2>1, <3>6
        <4> QED BY <1>3, <4>1, <4>2
      <3>7. CASE ~ complete
        <4>1. Cardinality(FirstAdministrators') <= Cardinality(Setting') + faults'
          BY <1>0, <1>1, <2>1, <3>5, <3>7
        <4>2. ~ complete'
          BY <2>1, <3>7
        <4> QED BY <1>2, <4>1, <4>2
      <3> QED BY <3>6, <3>7
    <2> QED BY <2>2, <2>3
  <1>10. ASSUME NEW r \in Requests, SetConfig(r) PROVE CountInv'
    <2>1. /\ UNCHANGED <<profile, roles, faults>> /\ req[r].stage = "setConfig"
          /\ \A s \in Requests \ {r} : req'[s] = req[s]
      BY <1>0, <1>10, SetConfigType DEF SetConfig
    <2>2. CASE req'[r].stage = "setConfig"
      <3>1. /\ FirstAdministrators' = FirstAdministrators
            /\ Submitting' \subseteq Submitting /\ Setting \subseteq Setting'
        BY <2>1, <2>2 DEF FirstAdministrators, Submitting, Setting
      <3> QED BY <1>0, <2>1, <3>1, SameCount
    <2>3. CASE req'[r].stage # "setConfig"
      <3>1. complete' /\ req'[r].stage = "idle"
        BY <1>0, <1>10, <2>3, SetConfigType
      <3>2. /\ FirstAdministrators' = FirstAdministrators
            /\ Submitting' \subseteq Submitting
        BY <2>1, <3>1 DEF FirstAdministrators, Submitting
      <3>3. Cardinality(Submitting') <= Cardinality(Submitting)
        BY <1>1, <3>2, CountSame
      <3>4. Cardinality(FirstAdministrators') + Cardinality(Submitting')
              <= Cardinality(Requests) + faults'
        BY <1>0, <1>1, <2>1, <3>2, <3>3
      <3> QED BY <1>3, <3>1, <3>4
    <2> QED BY <2>2, <2>3
  <1>11. ASSUME NEW r \in Requests, StatementFails(r) PROVE CountInv'
    <2>1. /\ UNCHANGED setup /\ faults' = faults + 1
          /\ req'[r].stage = "idle"
          /\ \A s \in Requests \ {r} : req'[s] = req[s]
      BY <1>0, <1>11, FailsType
    <2>2. /\ FirstAdministrators' = FirstAdministrators
          /\ Submitting' \subseteq Submitting
          /\ Setting \subseteq Setting' \union {r}
      BY <2>1 DEF FirstAdministrators, Submitting, Setting, setup
    <2>3. /\ Cardinality(Submitting') <= Cardinality(Submitting)
          /\ Cardinality(Setting) <= Cardinality(Setting') + 1
      BY <1>1, <2>2, CountSame, CountUp
    <2>4. CASE complete
      <3>1. Cardinality(FirstAdministrators') + Cardinality(Submitting')
              <= Cardinality(Requests) + faults'
        BY <1>0, <1>1, <2>1, <2>2, <2>3
      <3>2. complete'
        BY <1>0, <2>4
      <3> QED BY <1>3, <3>1, <3>2
    <2>5. CASE ~ complete
      <3>1. Cardinality(FirstAdministrators') <= Cardinality(Setting') + faults'
        BY <1>0, <1>1, <2>1, <2>2, <2>3, <2>5
      <3>2. ~ complete'
        BY <2>1, <2>5 DEF setup
      <3> QED BY <1>2, <3>1, <3>2
    <2> QED BY <2>4, <2>5
  <1>12. ASSUME NEW t \in Tasks, BeginTask(t) \/ ServeTask(t) PROVE CountInv'
    <2>1. /\ UNCHANGED <<profile, req, faults>>
          /\ \A u \in Users : "parent" \in roles'[u] <=> "parent" \in roles[u]
      BY <1>12, TaskType
    <2>2. FirstAdministrators' \subseteq FirstAdministrators
      BY <1>0, <2>1 DEF FirstAdministrators, OnboardingTypeOK
    <2>3. Submitting' \subseteq Submitting /\ Setting \subseteq Setting'
      BY <2>1 DEF Submitting, Setting
    <2> QED BY <1>0, <2>1, <2>2, <2>3, SameCount
  <1>13. ASSUME Register PROVE CountInv'
    <2>1. /\ UNCHANGED <<req, faults>>
          /\ NewUser \in Users /\ NewUser \notin users
          /\ "parent" \in roles'[NewUser]
          /\ \A u \in Users \ {NewUser} : roles'[u] = roles[u]
          /\ \A id \in Ids : profile'[id] # profile[id] =>
                                 profile[id] = NoUser /\ profile'[id] = NewUser
      BY <1>13, RegisterType
    <2>2. FirstAdministrators' \subseteq FirstAdministrators
      <3> SUFFICES ASSUME NEW id \in Ids, profile'[id] # NoUser,
                          "parent" \notin roles'[profile'[id]]
                   PROVE  profile[id] # NoUser /\ "parent" \notin roles[profile[id]]
        BY DEF FirstAdministrators
      <3>1. profile'[id] = profile[id]
        BY <2>1
      <3>2. profile[id] \in Users /\ profile[id] # NewUser
        BY <1>0, <2>1, <3>1 DEF OnboardingTypeOK
      <3> QED BY <2>1, <3>1, <3>2
    <2>3. Submitting' \subseteq Submitting /\ Setting \subseteq Setting'
      BY <2>1 DEF Submitting, Setting
    <2> QED BY <1>0, <2>1, <2>2, <2>3, SameCount
  <1>14. ASSUME UNCHANGED vars PROVE CountInv'
    BY <1>0, <1>4, <1>14 DEF vars
  <1> QED BY <1>5, <1>6, <1>7, <1>8, <1>9, <1>10, <1>11, <1>12, <1>13, <1>14
      DEF Next, OnboardingNext, Serve

\* The wizard leaves at most one administrator of its own for every submission that
\* overlaps the one that completes the setup, and for every failure.
THEOREM FirstAdministratorsAreBounded == Spec => []FirstAdministratorsBounded
  <1>1. Init => CountInv
    <2> SUFFICES ASSUME Init PROVE CountInv
      OBVIOUS
    <2>1. FirstAdministrators = {} /\ Submitting = {} /\ faults = 0
      BY DEF Init, OnboardingInit, FirstAdministrators, Submitting, Idle
    <2>2. Cardinality(FirstAdministrators) = 0 /\ Cardinality(Submitting) = 0
      BY <2>1, FS_EmptySet
    <2> QED BY <2>1, <2>2, Counts DEF CountInv, FirstAdministratorsBounded
  <1>2. TypeOK /\ RoomInv /\ AdminInv /\ CountInv /\ [Next]_vars => CountInv'
    BY StepCount
  <1>3. CountInv => FirstAdministratorsBounded
    BY DEF CountInv
  <1> QED BY <1>1, <1>2, <1>3, TypedInvariant, AdminInvariant, PTL DEF Spec
=============================================================================
