--------------------------- MODULE Administration ---------------------------
(***************************************************************************)
(* Roles and their permissions (internal/api/admin.go, profile.go,         *)
(* middleware.go), composed with the setup that makes the first            *)
(* administrator (Onboarding.tla).  The two share the users, their roles   *)
(* and the profiles; RequireOnboarding keeps the pages of the              *)
(* administrators closed until the setup is complete.                      *)
(*                                                                         *)
(* RequirePermission reads the permissions of the caller before the        *)
(* handler runs, so that a request of somebody who is dismissed meanwhile  *)
(* still takes effect.  SetRolePermissions is one transaction, and one     *)
(* step: CockroachDB runs it at SERIALIZABLE.                              *)
(***************************************************************************)
EXTENDS Onboarding

CONSTANTS
    Tasks,       \* requests of administrators that can be in flight at the same time
    Permissions  \* rows of the permissions table

ASSUME AdministrationAssumption ==
    /\ "admin:rbac" \in Permissions
    /\ IsFiniteSet(Tasks)

VARIABLES
    granted,    \* role_permissions
    dismissed,  \* history: users whose role "admin" an administrator has taken
    task        \* requests of administrators in flight

vars == <<complete, config, users, roles, profile, form, req, faults, granted, dismissed, task>>

NoTask == [stage |-> "idle", role |-> "parent", ticked |-> {}, user |-> NoUser]

TaskRecord ==
    {t \in [stage: {"idle", "save", "grant", "remove"}, role: Roles,
            ticked: SUBSET Permissions, user: Users \union {NoUser}] :
        t.stage \in {"grant", "remove"} => t.user \in Users}

TypeOK ==
    /\ OnboardingTypeOK
    /\ granted \in [Roles -> SUBSET Permissions]
    /\ dismissed \in SUBSET Users
    /\ task \in [Tasks -> TaskRecord]

\* The seeds of the migrations: everything to "admin", no page of theirs to "parent".
Init ==
    /\ OnboardingInit
    /\ granted = [role \in Roles |-> IF role = "admin" THEN Permissions ELSE {}]
    /\ dismissed = {}
    /\ task = [t \in Tasks |-> NoTask]

-----------------------------------------------------------------------------

CanSignIn(u) == \E id \in Ids : profile[id] = u

\* GetUserPermissions
HasPermission(u, permission) == \E role \in roles[u] : permission \in granted[role]

\* RequireOnboarding and RequirePermission("admin:rbac") let the request of u through.
Admitted(t, u) ==
    /\ complete
    /\ CanSignIn(u)
    /\ HasPermission(u, "admin:rbac")
    /\ task[t] = NoTask

\* RolesEditModal renders the box of admin:rbac in the role "admin" checked, "required"
\* and disabled, and a browser does not submit a disabled box.
Submittable(role) ==
    SUBSET (IF role = "admin" THEN Permissions \ {"admin:rbac"} ELSE Permissions)

BeginSave(t, u, role) ==
    /\ Admitted(t, u)
    /\ \E ticked \in Submittable(role) :
         task' = [task EXCEPT ![t] = [NoTask EXCEPT !.stage = "save", !.role = role,
                                                    !.ticked = ticked]]
    /\ UNCHANGED <<onboardingVars, granted, dismissed>>

\* SetRolePermissions: the rows of the role are deleted and the ticked ones inserted.
SavePermissions(t) ==
    /\ task[t].stage = "save"
    /\ granted' = [granted EXCEPT ![task[t].role] = task[t].ticked]
    /\ task' = [task EXCEPT ![t] = NoTask]
    /\ UNCHANGED <<onboardingVars, dismissed>>

\* GrantAdmin and RemoveAdmin, of the roles page and of a profile: nobody grants the
\* role to himself, anybody may take it from himself.
BeginToggleAdmin(t, u, target, stage) ==
    /\ Admitted(t, u)
    /\ target \in users
    /\ stage = "grant" => target # u
    /\ task' = [task EXCEPT ![t] = [NoTask EXCEPT !.stage = stage, !.user = target]]
    /\ UNCHANGED <<onboardingVars, granted, dismissed>>

GrantAdmin(t) ==
    /\ task[t].stage = "grant"
    /\ roles' = [roles EXCEPT ![task[t].user] = @ \union {"admin"}]
    /\ task' = [task EXCEPT ![t] = NoTask]
    /\ UNCHANGED <<complete, config, users, profile, form, req, faults, granted, dismissed>>

RemoveAdmin(t) ==
    /\ task[t].stage = "remove"
    /\ roles' = [roles EXCEPT ![task[t].user] = @ \ {"admin"}]
    /\ dismissed' = dismissed \union {task[t].user}
    /\ task' = [task EXCEPT ![t] = NoTask]
    /\ UNCHANGED <<complete, config, users, profile, form, req, faults, granted>>

\* A registration, of which Registration.tla has the steps: a profile of the roster
\* gets a user with the role "parent".
Register ==
    /\ complete
    /\ UserLeft
    /\ users' = users \union {NewUser}
    /\ roles' = [roles EXCEPT ![NewUser] = {"parent"}]
    /\ \E id \in Ids : profile[id] = NoUser /\ profile' = [profile EXCEPT ![id] = NewUser]
    /\ UNCHANGED <<complete, config, form, req, faults, granted, dismissed, task>>

ServeTask(t) ==
    SavePermissions(t) \/ GrantAdmin(t) \/ RemoveAdmin(t)

BeginTask(t) ==
    \E u \in Users :
        \/ \E role \in Roles : BeginSave(t, u, role)
        \/ \E target \in Users, stage \in {"grant", "remove"} : BeginToggleAdmin(t, u, target, stage)

Next ==
    \/ OnboardingNext /\ UNCHANGED <<granted, dismissed, task>>
    \/ \E t \in Tasks : BeginTask(t) \/ ServeTask(t)
    \/ Register

Spec == Init /\ [][Next]_vars

\* net/http runs every handler it has accepted to its end.
FairSpec ==
    /\ Spec
    /\ \A r \in Requests : WF_vars(Serve(r) /\ UNCHANGED <<granted, dismissed, task>>)
    /\ \A t \in Tasks : WF_vars(ServeTask(t))

-----------------------------------------------------------------------------
(***************************************************************************)
(* Properties.                                                             *)
(***************************************************************************)

\* Once the setup is complete every setting has a value, and somebody who can sign in
\* is an administrator, or has been one until an administrator dismissed him.
InstalledHasAdministrator ==
    complete =>
        /\ config = Settings
        /\ \E id \in Ids :
             /\ profile[id] # NoUser
             /\ "admin" \in roles[profile[id]] \/ profile[id] \in dismissed

\* The role "admin" keeps the permission that the page calls required.
AdminKeepsRBAC == "admin:rbac" \in granted["admin"]

=============================================================================
