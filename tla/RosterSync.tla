----------------------------- MODULE RosterSync -----------------------------
(***************************************************************************)
(* Profiles, their users and the roles of these: the Scoutbook roster      *)
(* synchronisation and its Revert (domain/sync/service.go), ReconcileRoles *)
(* (domain/rbac/reconcile.go), and the other handlers that write a profile *)
(* row, ToggleProfileStatus (api/admin.go) and the end of a registration   *)
(* (Complete, api/registration.go, whose codes are in Registration.tla).   *)
(*                                                                         *)
(* None of them has a transaction.  A profile is always written back as    *)
(* the whole row that was read before, so req[r].row is part of the state. *)
(* Of the data of a profile the model keeps the positions, which decide    *)
(* the roles, and the member type; names, addresses and birthdates are     *)
(* read and written along with them.                                       *)
(***************************************************************************)
EXTENDS Naturals, FiniteSets

CONSTANTS
    Members,    \* BSA IDs, each with at most one profile
    Manual,     \* profiles that have no BSA ID
    Users,      \* bound: the users that registrations create
    NoUser,     \* user_id is NULL
    Positions,  \* position titles of Scoutbook, each the name of a role
    Rosters,    \* bound: what Scoutbook may answer, [adults, youths] of a roster
    Requests,   \* handlers that can be in flight at the same time
    MaxFaults   \* bound: statements that fail

Profiles == Members \union Manual

\* The roles that ReconcileRoles protects.  A position may have the name of one: the
\* roster's titles are not checked, and "Scouts BSA" is one of them.
StatusRoles == {"parent", "Scouts BSA", "admin"}
Roles == Positions \union StatusRoles

\* A list of the roster gives some members their positions.
Lists == UNION {[S -> SUBSET Positions] : S \in SUBSET Members}

ASSUME SetsAssumption ==
    /\ Members \intersect Manual = {}
    /\ NoUser \notin Users
    /\ Rosters \subseteq [adults: Lists, youths: Lists]
    /\ MaxFaults \in Nat

VARIABLES
    row,     \* the profiles table
    roles,   \* user_roles
    report,  \* what the page of the last synchronisation lets an administrator revert
    before,  \* history: the member before that synchronisation, while it is comparable
    req,     \* the handlers in flight
    faults   \* statements that have failed so far

vars == <<row, roles, report, before, req, faults>>

Kinds == {"adult", "youth"}

Row == [status: {"none", "active", "inactive", "disabled"}, kind: Kinds,
        positions: SUBSET Positions, user: Users \union {NoUser}]
NoRow == [status |-> "none", kind |-> "adult", positions |-> {}, user |-> NoUser]

Report == [old: Row, added: SUBSET Roles, removed: SUBSET Roles]
NoReport == [old |-> NoRow, added |-> {}, removed |-> {}]

Past == [row: Row, roles: SUBSET Roles]
NoPast == [row |-> NoRow, roles |-> {}]

\* What the roster says of a member, kind "none" when it does not list him.
Entry == [kind: Kinds \union {"none"}, positions: SUBSET Positions]
NotListed == [kind |-> "none", positions |-> {}]

-----------------------------------------------------------------------------
(***************************************************************************)
(* Pure parts.                                                             *)
(***************************************************************************)

\* deduplicate and memberType: a member of both lists is the adult.
Deduplicate(adults, youths) ==
    [m \in Members |->
        IF m \in DOMAIN adults THEN [kind |-> "adult", positions |-> adults[m]]
        ELSE IF m \in DOMAIN youths THEN [kind |-> "youth", positions |-> youths[m]]
        ELSE NotListed]

NextStatus(status) ==
    CASE status = "active"   -> "inactive"
      [] status = "inactive" -> "disabled"
      [] OTHER               -> "active"

\* The role a registration gives, "parent" or "Scouts BSA".
StatusRole(kind) == IF kind = "adult" THEN "parent" ELSE "Scouts BSA"

\* An existing profile as the roster wants it: a listed member is active.
Listed(old, entry) ==
    [old EXCEPT !.status = "active", !.kind = entry.kind, !.positions = entry.positions]

\* Mutant: the snapshot restores the user as well.
Restored_User(now, old) == old

\* A profile with the fields of a snapshot; the user stays.
Restored(now, old) == [old EXCEPT !.user = now.user]

-----------------------------------------------------------------------------

Stages == {"idle", "members", "create", "readRoles", "changeRoles", "deactivate",
           "toggle", "enrol", "restore", "undoRoles", "answer"}

\* row is the profile as read.  added and removed are the roles ReconcileRoles is to
\* give and take, names those it has not come to; a Revert undoes them the same way.
RequestRecord ==
    {q \in [stage: Stages, op: {"none", "sync", "toggle", "complete", "revert"},
            profile: Profiles \union {NoUser}, row: Row, user: Users \union {NoUser},
            roster: [Members -> Entry], todo: SUBSET Profiles, rows: [Profiles -> Row],
            added: SUBSET Roles, removed: SUBSET Roles, names: SUBSET Roles,
            page: [Members -> Report]] :
        /\ q.names \subseteq q.added \union q.removed}

Idle == [stage |-> "idle", op |-> "none", profile |-> NoUser, row |-> NoRow, user |-> NoUser,
         roster |-> [m \in Members |-> NotListed], todo |-> {},
         rows |-> [p \in Profiles |-> NoRow],
         added |-> {}, removed |-> {}, names |-> {}, page |-> [m \in Members |-> NoReport]]

TypeOK ==
    /\ row \in [Profiles -> Row]
    /\ roles \in [Users -> SUBSET Roles]
    /\ report \in [Members -> Report]
    /\ before \in [Members -> Past]
    /\ req \in [Requests -> RequestRecord]
    /\ faults \in 0..MaxFaults

\* The first profiles come from onboarding or a form, without a BSA ID here.
Init ==
    /\ row = [p \in Profiles |->
                IF p \in Manual THEN [NoRow EXCEPT !.status = "active"] ELSE NoRow]
    /\ roles = [u \in Users |-> {}]
    /\ report = [m \in Members |-> NoReport]
    /\ before = [m \in Members |-> NoPast]
    /\ req = [r \in Requests |-> Idle]
    /\ faults = 0

GoTo(r, stage) == req' = [req EXCEPT ![r].stage = stage]
Finish(r) == req' = [req EXCEPT ![r] = Idle]

RolesOf(u) == IF u = NoUser THEN {} ELSE roles[u]

\* History: the snapshot of p is no longer comparable with its row.
Forget(p) == before' = [m \in Members |-> IF m = p THEN NoPast ELSE before[m]]

-----------------------------------------------------------------------------
(***************************************************************************)
(* Sync: fetch both lists; for every member, in any order, read the        *)
(* profile, create it or reconcile its roles and write it; then read the   *)
(* active profiles and deactivate those that were not listed.              *)
(***************************************************************************)

BeginSync(r) ==
    /\ req[r] = Idle
    /\ \E roster \in Rosters :
         LET entries == Deduplicate(roster.adults, roster.youths)
         IN req' = [req EXCEPT ![r] =
                [Idle EXCEPT !.stage = "members", !.op = "sync", !.roster = entries,
                             !.todo = {m \in Members : entries[m].kind # "none"}]]
    /\ before' = [m \in Members |-> [row |-> row[m], roles |-> RolesOf(row[m].user)]]
    /\ UNCHANGED <<row, roles, report, faults>>

\* On to the next member, with the page that has been written until now.
NextMember(r, page) ==
    req' = [req EXCEPT ![r] = [Idle EXCEPT !.stage = "members", !.op = "sync", !.page = page,
                                           !.roster = req[r].roster, !.todo = req[r].todo]]

ReadMember(r) ==
    /\ req[r].stage = "members"
    /\ \E m \in req[r].todo :
         req' = [req EXCEPT ![r].todo = @ \ {m}, ![r].profile = m, ![r].row = row[m],
                    ![r].user = row[m].user,
                    ![r].stage = IF row[m].status = "none" THEN "create"
                                 ELSE IF row[m].user # NoUser THEN "readRoles"
                                 ELSE "changeRoles"]
    /\ UNCHANGED <<row, roles, report, before, faults>>

\* bsa_id is unique: a second profile of the member is refused, and the Sync ends.
CreateProfile(r) ==
    LET m == req[r].profile
    IN /\ req[r].stage = "create"
       /\ IF row[m].status = "none"
          THEN /\ row' = [row EXCEPT ![m] = Listed(NoRow, req[r].roster[m])]
               /\ NextMember(r, req[r].page)
          ELSE /\ Finish(r)
               /\ UNCHANGED row
       /\ UNCHANGED <<roles, report, before, faults>>

\* Mutant: the profile is written whether or not ReconcileRoles has ended.
UpdateProfile_Early(r) ==
    LET m   == req[r].profile
        new == Listed(req[r].row, req[r].roster[m])
    IN /\ req[r].stage = "changeRoles"
       /\ req[r].op = "sync"
       /\ row' = IF new # req[r].row THEN [row EXCEPT ![m] = new] ELSE row
       /\ NextMember(r, req[r].page)
       /\ UNCHANGED <<roles, report, before, faults>>

\* Nothing is written, and reported, when nothing has changed.
UpdateProfile(r) ==
    LET m   == req[r].profile
        new == Listed(req[r].row, req[r].roster[m])
    IN /\ req[r].stage = "changeRoles"
       /\ req[r].op = "sync"
       /\ req[r].names = {}
       /\ row' = IF new # req[r].row THEN [row EXCEPT ![m] = new] ELSE row
       /\ NextMember(r, [req[r].page EXCEPT ![m] =
              IF new # req[r].row \/ req[r].added # {} \/ req[r].removed # {}
              THEN [old |-> req[r].row, added |-> req[r].added, removed |-> req[r].removed]
              ELSE NoReport])
       /\ UNCHANGED <<roles, report, before, faults>>

\* Mutant: profiles without a BSA ID are not left out.
Missing_Manual(r) == {p \in Profiles : /\ row[p].status = "active"
                                       /\ p \in Members => req[r].roster[p].kind = "none"}

\* The active profiles that the roster does not list.
Missing(r) == {m \in Members : row[m].status = "active" /\ req[r].roster[m].kind = "none"}

ListActive(r) ==
    /\ req[r].stage = "members"
    /\ req[r].todo = {}
    /\ req' = [req EXCEPT ![r].stage = "deactivate", ![r].todo = Missing(r),
                  ![r].rows = [p \in Profiles |-> IF p \in Missing(r) THEN row[p] ELSE NoRow]]
    /\ UNCHANGED <<row, roles, report, before, faults>>

Deactivate(r) ==
    /\ req[r].stage = "deactivate"
    /\ \E p \in req[r].todo :
         LET old == req[r].rows[p]
         IN /\ row' = [row EXCEPT ![p] = [old EXCEPT !.status = "inactive"]]
            /\ req' = [req EXCEPT ![r].todo = @ \ {p}, ![r].rows[p] = NoRow,
                          ![r].page = [m \in Members |-> IF m = p THEN [NoReport EXCEPT !.old = old]
                                                                  ELSE req[r].page[m]]]
    /\ UNCHANGED <<roles, report, before, faults>>

EndSync(r) ==
    /\ req[r].stage = "deactivate"
    /\ req[r].todo = {}
    /\ GoTo(r, "answer")
    /\ UNCHANGED <<row, roles, report, before, faults>>

\* The page that answers a Sync replaces the one before.
Answer(r) ==
    /\ req[r].stage = "answer"
    /\ IF req[r].op = "sync"
       THEN /\ report' = req[r].page
            /\ before' = [m \in Members |-> IF req[r].page[m] = NoReport THEN NoPast ELSE before[m]]
       ELSE UNCHANGED <<report, before>>
    /\ Finish(r)
    /\ UNCHANGED <<row, roles, faults>>

-----------------------------------------------------------------------------
(***************************************************************************)
(* ReconcileRoles, for a Sync or a registration: read the roles of the     *)
(* user, give those of positions that are new, take those of positions     *)
(* that are not held any more.                                             *)
(***************************************************************************)

TargetPositions(r) ==
    IF req[r].op = "sync" THEN req[r].roster[req[r].profile].positions ELSE req[r].row.positions

\* Mutant: the status roles are taken for roles of positions.
ReadRoles_Unprotected(r) ==
    LET added   == TargetPositions(r) \ roles[req[r].user]
        removed == roles[req[r].user] \ TargetPositions(r)
    IN /\ req[r].stage = "readRoles"
       /\ req' = [req EXCEPT ![r].stage = "changeRoles", ![r].added = added,
                             ![r].removed = removed, ![r].names = added \union removed]
       /\ UNCHANGED <<row, roles, report, before, faults>>

ReadRoles(r) ==
    LET current == roles[req[r].user] \ StatusRoles
        added   == TargetPositions(r) \ current
        removed == current \ TargetPositions(r)
    IN /\ req[r].stage = "readRoles"
       /\ req' = [req EXCEPT ![r].stage = "changeRoles", ![r].added = added,
                             ![r].removed = removed, ![r].names = added \union removed]
       /\ UNCHANGED <<row, roles, report, before, faults>>

AssignRoleToUser(u, name) == roles' = [roles EXCEPT ![u] = @ \union {name}]
RemoveRoleFromUser(u, name) == roles' = [roles EXCEPT ![u] = @ \ {name}]

ChangeRole(r) ==
    /\ req[r].stage = "changeRoles"
    /\ \/ \E name \in req[r].names \intersect req[r].added :
            /\ AssignRoleToUser(req[r].user, name)
            /\ req' = [req EXCEPT ![r].names = @ \ {name}]
       \/ /\ req[r].names \intersect req[r].added = {}
          /\ \E name \in req[r].names :
               /\ RemoveRoleFromUser(req[r].user, name)
               /\ req' = [req EXCEPT ![r].names = @ \ {name}]
    /\ UNCHANGED <<row, report, before, faults>>

-----------------------------------------------------------------------------
(***************************************************************************)
(* Revert: read the profile, write it back with the fields of a report,    *)
(* take the roles that were added and give those that were removed.        *)
(***************************************************************************)

BeginRevert(r, m) ==
    /\ req[r] = Idle
    /\ report[m].old.status # "none"
    /\ row[m].status # "none"
    /\ req' = [req EXCEPT ![r] =
                [Idle EXCEPT !.stage = "restore", !.op = "revert", !.profile = m,
                             !.row = row[m], !.user = row[m].user,
                             !.page = [Idle.page EXCEPT ![m] = report[m]]]]
    /\ UNCHANGED <<row, roles, report, before, faults>>

RestoreProfile(r) ==
    LET m == req[r].profile
        p == req[r].page[m]
    IN /\ req[r].stage = "restore"
       /\ row' = [row EXCEPT ![m] = Restored(req[r].row, p.old)]
       /\ req' = [req EXCEPT ![r].stage = "undoRoles",
                    ![r].added = p.added, ![r].removed = p.removed,
                    ![r].names = IF req[r].user = NoUser THEN {} ELSE p.added \union p.removed]
       /\ UNCHANGED <<roles, report, before, faults>>

\* Mutant: the roles that the synchronisation removed are not given back.
UndoRole_AddedOnly(r) ==
    /\ req[r].stage = "undoRoles"
    /\ \/ \E name \in req[r].names \intersect req[r].added :
            /\ RemoveRoleFromUser(req[r].user, name)
            /\ req' = [req EXCEPT ![r].names = @ \ {name}]
       \/ /\ req[r].names \intersect req[r].added = {}
          /\ req' = [req EXCEPT ![r].names = {}, ![r].stage = "answer"]
          /\ UNCHANGED roles
    /\ UNCHANGED <<row, report, before, faults>>

UndoRole(r) ==
    /\ req[r].stage = "undoRoles"
    /\ \/ \E name \in req[r].names \intersect req[r].added :
            /\ RemoveRoleFromUser(req[r].user, name)
            /\ req' = [req EXCEPT ![r].names = @ \ {name}]
       \/ /\ req[r].names \intersect req[r].added = {}
          /\ \E name \in req[r].names :
               /\ AssignRoleToUser(req[r].user, name)
               /\ req' = [req EXCEPT ![r].names = @ \ {name}]
       \/ /\ req[r].names = {}
          /\ GoTo(r, "answer")
          /\ UNCHANGED roles
    /\ UNCHANGED <<row, report, before, faults>>

-----------------------------------------------------------------------------
(***************************************************************************)
(* The other handlers that write a profile row.                            *)
(***************************************************************************)

BeginToggle(r, p) ==
    /\ req[r] = Idle
    /\ row[p].status # "none"
    /\ req' = [req EXCEPT ![r] = [Idle EXCEPT !.stage = "toggle", !.op = "toggle",
                                              !.profile = p, !.row = row[p]]]
    /\ Forget(p)
    /\ UNCHANGED <<row, roles, report, faults>>

ToggleProfileStatus(r) ==
    /\ req[r].stage = "toggle"
    /\ row' = [row EXCEPT ![req[r].profile] = [req[r].row EXCEPT !.status = NextStatus(@)]]
    /\ Finish(r)
    /\ UNCHANGED <<roles, report, before, faults>>

\* A user that no profile links to, and that has no role, is a new one.
Unused(u) ==
    /\ roles[u] = {}
    /\ \A p \in Profiles : row[p].user # u
    /\ \A r \in Requests : req[r].user # u

BeginComplete(r, p) ==
    /\ req[r] = Idle
    /\ row[p].status # "none"
    /\ \E u \in Users :
         /\ Unused(u)
         /\ req' = [req EXCEPT ![r] = [Idle EXCEPT !.stage = "enrol", !.op = "complete",
                                          !.profile = p, !.row = row[p], !.user = u]]
    /\ Forget(p)
    /\ UNCHANGED <<row, roles, report, faults>>

AssignStatusRole(r) ==
    /\ req[r].stage = "enrol"
    /\ AssignRoleToUser(req[r].user, StatusRole(req[r].row.kind))
    /\ GoTo(r, IF req[r].row.positions # {} THEN "readRoles" ELSE "changeRoles")
    /\ UNCHANGED <<row, report, before, faults>>

LinkUser(r) ==
    /\ req[r].stage = "changeRoles"
    /\ req[r].op = "complete"
    /\ req[r].names = {}
    /\ row' = [row EXCEPT ![req[r].profile] = [req[r].row EXCEPT !.user = req[r].user]]
    /\ Finish(r)
    /\ UNCHANGED <<roles, report, before, faults>>

(***************************************************************************)
(* A statement fails and its handler ends.  A Sync answers without a       *)
(* report of what it has changed until then.                               *)
(***************************************************************************)

StatementFails(r) ==
    /\ faults < MaxFaults
    /\ faults' = faults + 1
    /\ req[r].stage \notin {"idle", "answer"}
    /\ before' = IF req[r].op = "sync" THEN [m \in Members |-> NoPast] ELSE before
    /\ Finish(r)
    /\ UNCHANGED <<row, roles, report>>

-----------------------------------------------------------------------------

Begin(r) ==
    \/ BeginSync(r)
    \/ \E m \in Members : BeginRevert(r, m)
    \/ \E p \in Profiles : BeginToggle(r, p) \/ BeginComplete(r, p)

Serve(r) ==
    \/ ReadMember(r) \/ CreateProfile(r) \/ UpdateProfile(r)
    \/ ListActive(r) \/ Deactivate(r) \/ EndSync(r)
    \/ ReadRoles(r) \/ ChangeRole(r)
    \/ RestoreProfile(r) \/ UndoRole(r)
    \/ ToggleProfileStatus(r) \/ AssignStatusRole(r) \/ LinkUser(r)
    \/ Answer(r)

Next == \E r \in Requests : Begin(r) \/ Serve(r) \/ StatementFails(r)

Spec == Init /\ [][Next]_vars

-----------------------------------------------------------------------------
(***************************************************************************)
(* Properties.                                                             *)
(***************************************************************************)

\* A Sync that ends without an error leaves the table as the roster wants it, also
\* when the one before it failed half-way: every listed member active, with its
\* positions, the roles of these and no role besides but status roles, every other
\* member not active.
SyncApplies ==
    \A r \in Requests :
        req[r].stage = "answer" /\ req[r].op = "sync" =>
            \A m \in Members :
                IF req[r].roster[m].kind = "none"
                THEN row[m].status # "active"
                ELSE /\ row[m] = Listed(row[m], req[r].roster[m])
                     /\ row[m].user # NoUser =>
                            /\ row[m].positions \subseteq roles[row[m].user]
                            /\ roles[row[m].user] \subseteq row[m].positions \union StatusRoles

\* A Revert that ends without an error, of a member that nobody has touched since
\* the synchronisation, leaves the profile and its roles as they were before it, but
\* for the status roles that the roster lists as positions: these it takes away, also
\* from a user who held them before.
RevertUndoes ==
    \A r \in Requests :
        req[r].stage = "answer" /\ req[r].op = "revert" =>
            LET m == req[r].profile
            IN before[m] # NoPast =>
                /\ row[m] = before[m].row
                /\ RolesOf(row[m].user) =
                       before[m].roles \ (StatusRoles \intersect req[r].added)

\* What the page says of it: the profile "has been reverted to its pre-sync state".
RevertRestores ==
    \A r \in Requests :
        req[r].stage = "answer" /\ req[r].op = "revert" =>
            LET m == req[r].profile
            IN before[m] # NoPast =>
                /\ row[m] = before[m].row
                /\ RolesOf(row[m].user) = before[m].roles

\* Nothing that happens to a profile takes away the user it is linked to.
LinkKept == [][\A p \in Profiles : row[p].user # NoUser => row'[p].user # NoUser]_vars

\* Roles that come from a registration or an administrator are taken away by no
\* handler but a Revert, and by that only when the roster listed them as positions.
OnlyRevertTakesStatusRoles ==
    [][\A u \in Users : \A name \in (roles[u] \ roles'[u]) \intersect StatusRoles :
          \E r \in Requests :
              /\ req[r].op = "revert" /\ req[r].user = u /\ req'[r] # req[r]
              /\ name \in Positions \intersect req[r].added]_vars

\* A synchronisation does not deactivate a profile that it cannot identify.
ManualStaysActive ==
    [][\A p \in Manual : row'[p].status # row[p].status =>
          \E r \in Requests : req[r].op # "sync" /\ req'[r] # req[r]]_vars

=============================================================================
