# scout-app in TLA+

scout-app (Go, HTMX, CockroachDB) keeps the calendar of a scout troop: who comes
to an event, who is responsible for what, who drives, who cooks with whom and who
sleeps in which tent; and the roster behind it, synchronised from Scoutbook.

This directory holds TLA+ models of it, the TLC runs that check them on small
instances, and TLAPS proofs of the most important invariants. Line numbers refer to
the repository's `src/`.

## How the program works, as far as the models are concerned

Every operation is an HTTP handler. Handlers keep no state between requests: all
state is in CockroachDB. Almost no handler opens a transaction. It runs a sequence of
SQL statements through `database/sql`, each in its own implicit transaction, with the
request's context, and so:

* a statement is atomic (CockroachDB runs at SERIALIZABLE), a handler is not;
* the statements of handlers served at the same time interleave in any order;
* a handler can stop between any two statements, because a statement fails or because
  the client goes away and the context is cancelled. What it has written stays;
* some handlers ignore or log the error of a statement and go on.

The few real transactions (`SetCookingPatrolCook`, `UpdateWithCooking`,
`CreateCookingPatrol`, `CreateTent`, `SetRolePermissions`) take effect in one step or not
at all.
Foreign keys with `ON DELETE CASCADE`, primary keys and partial unique indexes are
part of the statement that meets them.

## Inventory

| Component | Code | State | Operations | Modelled |
|---|---|---|---|---|
| Event attendance, responsibilities, drivers | `internal/api/events.go`, `storage/postgres/event_repository.go`, `domain/event/event.go` | `events`, `event_attendees`, `event_attendee_responsibilities` | create, edit, delete, sign up, withdraw, toggle a responsibility, add, remove and change a driver | `EventAttendance`, `EventRoster` |
| Cooking patrols | `domain/event/cooking_service.go`, `events.go`, `event_repository.go` | `events.cooking_enabled`, `event_cooking_patrols`, `event_cooking_patrol_members` | toggle, create, delete, place, remove, set and clear the cook; after a sign-up and a withdrawal | `CookingPatrols` |
| Tenting | `domain/event/tent_service.go`, `tent_rules.go`, `events.go` | `event_tents`, `event_tent_members` | create, delete, assign, remove; the rules a tent must satisfy | `TentRules`, `Tenting` |
| Roster sync | `domain/sync/service.go`, `domain/rbac/reconcile.go`, `api/sync.go` | `profiles`, `user_roles`, the page of the last sync | sync, reconcile roles, revert | `RosterSync` |
| Registration | `api/registration.go`, `domain/otpcode`, `postgres/otpcode_repository.go`, `main.go` | `otp_codes`, `users`, `profiles.user_id`, cookie sessions | register, verify, complete, clean-up every 24 hours | `Registration` |
| Family connections | `api/family_connections.go`, `api/admin.go`, `api/events.go` | `parent_youth_links` | request, approve, reject, revoke; sign a youth up and withdraw it | `FamilyConnections` |
| Roles and administration | `api/admin.go`, `api/profile.go`, `postgres/rbac_repository.go` | `role_permissions`, `user_roles`, `profiles.status` | grant and remove administrator, permissions of a role, status of a profile | `Administration`; the status in `RosterSync` |
| Onboarding | `api/onboarding.go`, `postgres/appconfig_repository.go` | the first user and profile, settings, the wizard's session | four pages, the last of which writes everything | `Onboarding` |
| Authentication | `domain/auth/auth.go`, `api/middleware.go` | cookie sessions | log in, log out, permission check, admission by status | partly: the permission check in `Administration`; passwords, cookies and admission not |
| Configuration | `domain/appconfig`, `config`, `api/admin_settings.go` | key/value settings | get and set one key | no: one statement per operation |
| E-mail, Scoutbook client | `internal/email`, `internal/scoutbook` | none | send, fetch | no: input and output only |
| Pages | `api/roster.go`, `profile.go`, `markdown.go`, templates | none | render | no: reads only; the one write of `profile.go` is in `Administration` |
| Commands, migrations, test doubles | `main.go`, `cmd/`, `migrations/`, `storage/mock` | the schema | start, migrate | no; the constraints of the schema are in the models of the tables |

How they interact: a sign-up writes an attendee row, may assign a responsibility and
then calls the cooking service; a withdrawal cancels the attendee row, deletes the
responsibilities and then calls the cooking service and the tent service; editing an
event switches cooking on and off; deleting an event deletes the rows of all of them.
The tent rules read the roster (birthdate, gender), the family connections (siblings)
and a setting (the age gap). The roster sync, registration and administration write
the same profile rows, each as a full row it read before, and the same roles. A family
connection admits a parent to the attendance handlers. The setup creates the first
administrator, and opens the pages on which administrators make others.

What is hard, and what makes each component correct:

* **Attendance.** `AssignResponsibility` looks for another holder in one statement and
  inserts in another. `Withdraw` cancels and then runs five deletes whose errors it
  ignores. A replacement evicts and assigns separately. Correct: a singleton has one
  holder; someone who has withdrawn holds nothing; no row refers to one that is gone;
  a replacement does not lose the post; a failed withdrawal can be repaired by
  repeating it.
* **Cooking.** Check-then-create of the adult patrol; check-then-insert of a member;
  list-then-clear of the cook; the toggle compared with a value read before the
  transaction; and the member type, read before the insertion, that a synchronisation
  rewrites. Correct: nobody places an adult among the youth; a patrol has at most one cook; no
  patrols while cooking is disabled; adults who are signed up are in the adult patrol.
* **Tenting.** Read everything, validate, then insert: the tent may be another one by
  then; the inputs of the rules change later. Ages are counted in whole years on the
  day of the event. Correct: the rules equal their definition on every date; who enters a
  tent makes one that satisfies them, unless it is no longer the tent that was validated.
* **Roster sync.** Members are matched, merged and written one by one as full rows; roles
  are reconciled before the row, statement by statement; revert writes back a snapshot
  that the browser kept. Correct: a sync that ends without an error has applied the
  roster, whatever the one before it left; a revert restores what the sync found; nothing
  takes an account from a profile, and no sync a role that was given by hand.
* **Registration.** Count-then-create of codes, read-then-count of attempts, an hour, ten
  minutes and five attempts; the completion is five statements. Correct: a code verifies
  one session; the limits are exceeded by no more than what overlaps; a linked account has
  its roles; a completion that failed can be repeated.
* **Family connections.** pending, approved, rejected, revoked, with overlapping
  requests and decisions from old pages. Correct: only a connected parent acts on a
  youth; the pending rows of a pair are bounded.
* **Roles, onboarding.** Eight statements make the first administrator, and several
  browsers may run them. Correct: a setup that says it is complete has everything; the
  administrators it makes are bounded; it can be repeated; whoever administers roles can
  go on doing so.

`PROJECT.json` lists the hazards at their lines.

## Modules

| Module | What it is |
|---|---|
| `EventAttendance` | one event's attendance, statement by statement |
| `EventRoster` | the abstract specification: the same operations, each atomic, each post a single holder |
| `MCEventAttendance` | symmetry for TLC; three configurations |
| `EventAttendanceProofs` | theorems about `EventAttendance` |
| `CookingPatrols` | the cooking tab of one event, statement by statement |
| `MCCookingPatrols` | symmetry for TLC; two configurations |
| `CookingPatrolsProofs` | theorems about `CookingPatrols` |
| `TentRules` | the rules of a tent: ages, siblings, violations, as the code computes them |
| `Tenting` | the tents of one event, statement by statement; what the rules mean |
| `MCTenting` | a roster around a leap day; one configuration |
| `TentingProofs` | theorems about `Tenting` and `TentRules` |
| `Registration` | the codes, sessions and account of one address, statement by statement |
| `OneTimeCodes` | the abstract specification: a code is sent, closed or redeemed, a verified browser admitted, the profile linked |
| `MCRegistration`, `RegistrationProofs` | its configuration, and theorems about it |
| `RosterSync` | profiles, users and roles: sync, revert, status, end of a registration |
| `MCRosterSync`, `RosterSyncProofs` | the rosters TLC uses, two configurations, and theorems |
| `Onboarding` | the wizard of the first run |
| `Administration` | extends `Onboarding` with roles, their permissions and registrations: the composition of what shares users, roles and the completion of the setup |
| `MCAdministration`, `AdministrationProofs` | two configurations, and theorems about both modules |
| `FamilyConnections` | connections, and what a connected parent does |
| `MCFamilyConnections`, `FamilyConnectionsProofs` | its configuration, and theorems |
| `Counting` | lemmas on sizes of sets, for the proofs |

In the detailed modules `req[r]` (for administrators `task[t]`) is a handler in flight: its `stage` names the statement
it runs next, the other fields are the Go variables it still needs. `Begin...` actions
are the admission of a request (the handler's first reads and early returns), and they
record the decision: a handler that found the event upcoming goes on after it has
passed. Every other action is one statement; its guard is the stage, and its branches
are the statement's outcomes (rows found or not, a foreign key or an index that
refuses). `StatementFails` is an error or a cancelled context at any statement.

### EventAttendance

`attendee` is the status column of `event_attendees` (a withdrawal leaves the row, as
`canceled`); `holds` the rows of `event_attendee_responsibilities` for the three posts;
`seatbelts` its driver row. `event` is the row of the event together with whether its
end time has passed. `CascadeOrder` is the withdrawal's list of deletes: the driver
first, through `RemoveDriver`, then the loop over the four names.

| Code | Actions |
|---|---|
| `EventCreate` | `EventCreate`, then, as the same request, `Enrol`, `SelectHolder`, `InsertPost` for the creator's sign-up as coordinator |
| `SignUp` | `BeginSignUp`, `Enrol`, and for a Senior Patrol Leader `SelectHolder`, `InsertPost` |
| `Withdraw` | `BeginWithdraw`, `CancelAttendance`, `CascadeDelete` five times |
| `ToggleResponsibility` | `BeginToggle`, `CheckAttending`, `CheckHolding`, then `ReleasePost`, or `SelectHolder`, `EvictHolder`, `SelectHolder` again, `InsertPost` |
| `AddDriver`, `RemoveDriver`, `UpdateDriverSeatbelt` | `BeginDriver` and one action each |
| `EventEdit`, `EventDelete`, time | `EventEdit`, `EventDelete`, `EndTimePasses` |

`EventRoster` says what this is meant to be: `Withdraw(p)` gives up every post and the
driver's seat in the instant of the withdrawal, `TakePost(p, post)` replaces the holder
in one step, a post has one holder or none. The refinement mapping treats a profile
whose cascade is running as gone, and an evicted holder as the holder until the
insertion.

### CookingPatrols

`patrol` is the kind of each patrol id, `member` and `cook` the member rows, `attendee`
what the foreign keys of the member rows need. `adults` is `profiles.member_type`, which
`ChangeMemberType`, a synchronisation or the revert of one (`Sync`, service.go:120), may
change at any time, also between the SELECT of a handler and its insertion. `Fresh` picks the id of a new patrol: ids
are UUIDs, so an id is never one that a row has or a handler still remembers.

| Code | Actions |
|---|---|
| `SignUp`, `AfterSignUp` | `BeginSignUp`, `Enrol`, `ReadToggle`, `ReadType`, `FindAdultPatrol`, `CreateAdult`, `Assign` |
| `Withdraw`, `AfterWithdraw` | `BeginWithdraw`, `CancelAttendance`, `ListPatrols`, `ListMembers`, `ClearListed`, `Remove` |
| `CookingRemoveMember` | `BeginTab`, `ListPatrols`, `ListMembers`, `ClearListed`, `Remove` |
| `CookingAssignMember` | `BeginTab`, `Place` (the type), for an adult `CheckPatrol`, `Assign` |
| `CookingSetCook`, `CookingClearCook` | `BeginTab`, `FindPatrol`, `SetCook`; `ClearCook` |
| `CookingPatrolCreate`, `CookingPatrolDelete` | `BeginTab`, `CreateYouth`; `Delete` |
| `EventEdit`, `EventDelete` | `BeginEdit`, `Update`; `EventDelete` |

What the model shows without a property against it: a youth who turns adult keeps the
member row, and so an adult can be in a youth patrol, although "adults may never belong to
a youth Cooking Patrol" (CONTEXT.md:74); so can one whose placement read the type just
before. `AdultsPlacedWithAdults` is what does hold: every other placement of an adult
ends in the adult patrol. And a cook who turns adult can collide with the adults' cook when
cooking is enabled: the index on `is_cook` then refuses the transaction (`CooksCollide`).

### TentRules and Tenting

`TentRules` translates `tent_rules.go`: `AgeWholeYears` compares month and day in the year of
the event and moves 29 February to the 28th when there is none; `SiblingPairs` collects
the youth of each parent; `BlockingViolations` returns the codes of the two rules that
block. `Tenting` states independently what they should mean: a scout's age is the number
of birthdays it has had (`Birthdays`), and an arrangement is `Suitable` if all genders are
equal and nobody, siblings excepted, is more than `MaxAgeGap` birthdays ahead of another.
`RulesMeanSuitable` says that the two agree for every set of scouts, so that nobody is
admitted to or turned away from a tent wrongly for want of a rule; `JoinObeysRules` that
whoever enters a tent leaves it suitable, unless another scout has entered it, or the
event has been moved, since `AssignMember` read them.

| Code | Actions |
|---|---|
| `SignUp`, `Withdraw` and its `AfterWithdraw` | `BeginSignUp`, `Enrol`; `BeginWithdraw`, `CancelAttendance`, `RemoveTentMember` |
| `TentAssignMember`, `AssignMember` | `TentAssignMember`, `ReadType`, `ListTents`, `ListMembers`, `Validate`, `AssignTentMember` |
| `TentRemoveMember` | `TentRemoveMember`, `RemoveTentMember` |
| `TentCreate`, `TentDelete` | `TentCreate`, `CreateTent`; `TentDelete`, `DeleteTent` |
| `EventEdit`, `EventDelete` | `EventEdit`, `EventDelete` |

`youth` is `profiles.member_type`, which `ChangeMemberType` changes as in `CookingPatrols`.
A youth who turns adult keeps the place in the tent, although "the app tracks youth tenting
only" (CONTEXT.md:80): nothing in the code looks at the tents again.

`Validate` is the SELECT of the event. The SELECTs around it, of birthdates, genders and
links, read what is constant here, so one step stands for them. `EventEdit` is one UPDATE
where tents are concerned, and moves the event at any time, also between `Validate` and
the insertion. Deleting the event deletes tents, members and attendees in one statement;
the foreign key from members to attendees has no cascade of its own, and is checked when
the statement has deleted the members through their tents.

### Registration

`code` is `otp_codes` of one address in the order of creation, with the age of a row
instead of two times; `session` is what each browser's cookie says of a verification;
`linked` is `user_id` of the profile; `user` how far each account has come ("bare",
"member" with its status role, "posted" with the roles of its positions).

| Code | Actions |
|---|---|
| `Register` | `BeginRegister`, `CountCodes`, `InvalidateByEmail`, `CreateCode` |
| `Verify` | `BeginVerify`, then `IncrementAttempts`, or `MarkUsedIfUnused`, `AnswerVerified` |
| `Complete` | `BeginComplete`, `CreateUser`, `AssignRole`, `ReconcilePositions`, `LinkUser`, `AnswerLinked`; `DropStaleSession` |
| time, clean-up in `main.go` | `CodeAges`, `SessionAges`; `DeleteExpired` |

`StatementFails` includes an answer that the browser never gets. `Register` ignores the
error of the invalidation and goes on; it ignores the e-mail's as well.

`OneTimeCodes` says what this is meant to be, and unlike `EventRoster` it is implemented
by handlers that overlap and fail: a code is sent once, and is open until it is closed
or redeemed, for one browser; a request for an account is admitted for a browser that is
verified, and then links the profile or gives up. A code is open in the mapping while
`Verify` would admit an entry of it, and beyond that while an entry that was admitted is
under way and could still mark it. `MarkUsedIfUnused` therefore changes nothing that the
abstract specification sees, and the answer that carries the session redeems the code.

What the code admits and the model shows without a property against it: `Complete` looks at the
session only, so that a second verification of a profile that has a user relinks it
("A User links to exactly one Profile", CONTEXT.md:14, holds of the user that is linked;
the other stays behind without a profile); and the clean-up deletes expired codes younger
than an hour, which `CountByEmailSince` then does not count.

### RosterSync

`row` is `profiles`, `roles` is `user_roles`, `report` what the page of the last
synchronisation would send back to revert a member. `req[r].row` is the row the handler
read, and writes back. A Sync takes its members in any order (a Go map) and removes roles
after it has added the new ones.

| Code | Actions |
|---|---|
| `Sync` | `BeginSync` (fetch, `Deduplicate`), for each member `ReadMember`, then `CreateProfile`, or the roles and `UpdateProfile`; `ListActive`, `Deactivate`, `EndSync`, `Answer` |
| `ReconcileRoles` | `ReadRoles`, `ChangeRole` |
| `Revert` | `BeginRevert`, `RestoreProfile`, `UndoRole`, `Answer` |
| `ToggleProfileStatus` | `BeginToggle`, `ToggleProfileStatus` |
| `Complete` of a registration | `BeginComplete`, `AssignStatusRole`, `ReadRoles`, `ChangeRole`, `LinkUser` |

`before` is history: the row and roles that a Sync found, as long as nobody else has
touched the member since. A failed Sync answers without a report, so that what it has
done cannot be reverted; `SyncApplies` says that the next one repairs it.

`Positions` may contain names of `StatusRoles`: Scoutbook's titles are not checked, and
"Scouts BSA" is a position to admin.go:99 and to migration 00007. `ReconcileRoles` leaves
the protected roles out of those it compares with, and so reports such a role as added
even if the user had it (reconcile.go:36-50); `Revert` then takes it (service.go:353-362).
`RevertUndoes` therefore excepts the status roles that the report lists as added,
`OnlyRevertTakesStatusRoles` says that nothing else takes one, and `RevertRestores`, which
makes no exception, is violated.

### Onboarding and Administration

`form` is the wizard's cookie of each browser, `req` the submissions of its last page,
`config` and `complete` the settings, `users`, `roles` and `profile` the rows it makes.
`Administration` adds `granted` (`role_permissions`) and `task`, the requests of
administrators between their permission check and their statement.

| Code | Actions |
|---|---|
| the pages of the wizard | `Personal`, `Unit`, `Timezone`, behind `RedirectIfOnboarded` |
| its last page | `BeginPassword`, `CreateUser`, `AssignAdmin`, `CreateProfile`, `SetConfig` for each of `ConfigKeys` |
| `RolesSavePermissions`, `SetRolePermissions` | `BeginSave`, `SavePermissions` |
| `GrantAdmin`, `RemoveAdmin`, on both pages | `BeginToggleAdmin`, `GrantAdmin`, `RemoveAdmin` |
| `Complete` of a registration | `Register`, in one step here |

What the models show of the code, without a property against it:

* `RedirectIfOnboarded` lets a request through when the configuration cannot be read; that
  read counts as a failure, and adds an administrator to the bound.
* A last page that fails after `CreateProfile` cannot be repeated with the same BSA ID,
  which is unique; `RetryCompletes` therefore speaks of another. CONTEXT.md:137 says that
  the flow "does not persist partial state"; the user, its role and the profile stay.
* Two overlapping setups can leave settings of both.
* Administrators may dismiss each other and themselves until nobody is one:
  `InstalledHasAdministrator` says that it takes a dismissal.

### FamilyConnections

`link` is `parent_youth_links`, `registered` the youth with an account (for whom no
connection can be asked), `attending` the youth who are signed up.

| Code | Actions |
|---|---|
| `AddConnection` | `BeginAdd`, `CheckPending` or `CheckFails`, `InsertLink` |
| `ApproveConnection`, `RejectConnection`, `RemoveConnection` | `BeginDecide`, `Decide` |
| `SignUp`, `Withdraw` of a youth by a parent | `BeginAct`, `SignUp`, `Withdraw` |
| `Complete` of a youth's registration | `Register` |

An error of the duplicate check is ignored (`CheckFails`), and an approved connection does
not refuse another request. So a pair can have two approved rows, and revoking one leaves
the pair connected, although "an admin can revoke an active connection" (CONTEXT.md:161).
A decision sets the status whatever it is, also from a page loaded before another
decision.

### What the models leave out

* The modules are checked separately, except `Onboarding` and `Administration`. The first
  three share the attendee row and the event only, and none reads anything else of
  another. `RosterSync`, `Administration` and `FamilyConnections` contain the end of a
  registration as far as it writes what they are about.
* `Tenting` holds birthdates, genders, connections and the age gap constant, although a
  synchronisation rewrites genders and birthdates (service.go:109-151) as it does member
  types: `JoinObeysRules` speaks of tents whose scouts keep theirs. When one of them changes
  later, nothing in the code looks at the tents again.
* `CookingPatrols` keeps the event upcoming: a past event refuses requests and nothing
  else. Names of patrols are left
  out: an abort of the creation, whatever its reason, is a branch of `CreateYouth`.
* Responsibilities other than the four the code names have no rule.
* `Registration` leaves the status of the profile out: one that is not active is refused by
  `Register`, and nothing happens. The key `register_email` of the session is never read.
* `RosterSync` abstracts names, addresses and birthdates, which travel with the row, and
  leaves out the Scoutbook token and its expiry.
* `FamilyConnections` leaves out the sign-up of an adult for himself, the withdrawal by an
  administrator, inactive profiles, and the notification of administrators, whose errors
  are only logged.
* A commit whose answer is lost, so that a statement reports an error and has taken
  effect, is not modelled; for every statement here it equals success followed by a
  failing next statement, except for the last of a handler, whose outcome nobody reads.
* Permission checks decide who may send a request and not what it does; except in
  `Administration` and `FamilyConnections`, whose subject they are, the models admit every
  request a person with the permission could send.

### Not modelled

Password hashing, cookie signatures and the admission of a profile by its status are one
read each, without a state of their own. Configuration (one statement per key), e-mail and
the Scoutbook client (input and output), pages and templates (reads), commands and
migrations (start-up; the constraints of the schema are in the modules of the tables) and
the test doubles have no operation of several steps.

## Runs

Every passing configuration sets `CHECK_DEADLOCK FALSE`: after `EventDelete` nothing more
can happen to an event, and in the other modules the bounds on rows, codes or users are
used up. No handler waits for another one.

| Run | Question | Result |
|---|---|---|
| `attendance_serial` | Do handlers that do not overlap, without failures, do what `EventRoster` promises? Three profiles, one of them the Senior Patrol Leader. | holds: types, singletons, nothing left to whoever withdrew, the refinement |
| `attendance_concurrent` | How bad can the race on a singleton get? Three profiles, two handlers at a time, one failing statement. | never more holders than handlers at a time (`OversubscriptionBounded`); a replacement that meets no error does not end with the post empty (`ReplacementFillsPost`) |
| `attendance_recovery` | What do failing statements leave? Two failures anywhere. | no dangling rows; repeating the withdrawal repairs it |
| `cooking_serial` | Do handlers that do not overlap keep the rules of the cooking tab, when a statement may fail? | holds |
| `cooking_concurrent` | Which rules survive two handlers at a time, a failure and a member whose type changes? | `AdultsPlacedWithAdults`, `OneCookPerPatrol`, `MembersHavePatrols` |
| `tenting` | Two handlers at a time, one failure, an event that is moved, tents that are deleted and a member whose type changes: do the rules say what they should, and what holds of a scout who enters a tent? | holds: `RulesMeanSuitable`, `AgeCountsBirthdays`, `JoinObeysRules`, `MembersHaveTents` |
| `registration` | Two requests at a time and a failure: is a code redeemed once, and never after it was closed? How far do they get past the limits? | a code verifies one session (`CodeVerifiesOneSession`), and the handlers implement `OneTimeCodes` (`ImplementsOneTimeCodes`); usable codes, codes of an hour and wrong entries exceed the limit by what overlaps or fails; `LinkedUserHasRoles`; `VerificationKept` |
| `roster_sync` | Handlers that do not overlap, one failure: does a sync apply the roster, does a revert undo it, and what do they leave alone? | holds: `SyncApplies`, `RevertUndoes`, `LinkKept`, `OnlyRevertTakesStatusRoles`, `ManualStaysActive` |
| `roster_sync_revert` | Does a revert with nothing else at work give the member the roles it had? | **violated**: not a status role that is also a position |
| `administration` | Two submissions of the setup at a time, one failure, then administrators: is the unit administered, by how many, and can the setup be repeated? | holds: `InstalledHasAdministrator`, `FirstAdministratorsBounded`, `RetryCompletes` |
| `administration_required` | Does the role admin keep the permission that the page calls required? | **violated**: a disabled box is not submitted, and saving replaces all permissions |
| `connections` | Two requests at a time, one failure: who acts on a youth, and how many requests can be pending? | holds: `ActsOnlyConnected`, `PendingBounded` |

Two runs show disagreements between the code and what its pages say.
`administration_required`: `RolesEditModal` (admin.go:187) renders the box of `admin:rbac` in the role admin
disabled, views/admin_roles.html:120 labels it "(required)", and the browser leaves it out
of the form, so that saving any change of that role takes the permission away, and with it
the page that could give it back. `roster_sync_revert`: after a Sync of a youth who holds
the status role "Scouts BSA" and is listed with a position of that name, the report says
that the role was added, and reverting takes it; views/admin_sync.html:265 then says "This
profile has been reverted to its pre-sync state", and CONTEXT.md:29 that status roles are
"Never touched by Scoutbook Sync".

### Races that the serial properties exclude

Some properties are checked only for handlers that do not overlap, because the code
promises no more. With two at a time, TLC finds:

* two assignments that both find no holder, and a singleton with two (event_repository.go:415);
* a toggle that assigns a post after the withdrawal's cascade (`WithdrawnHoldNoPost`);
* two first adult sign-ups that both create the adult patrol, the second of which is refused
  and leaves its adult without one (cooking_service.go:44, `SignUpPlacesAdult`);
* an edit that compares the cooking toggle with a value read before another edit, and leaves
  the patrols of a disabled tab (events.go:923, `DisabledHasNoPatrols`);
* a removal that clears the designation of a cook appointed meanwhile (`OnlyOwnCookCleared`);
* a status toggle that read the row before a registration linked its user, and writes the
  profile back without it (profile_repository.go:132, `LinkKept`).

`JoinObeysRules` is checked with two handlers at a time, and names in the property the two
races that it does not exclude: another scout who enters the tent after `AssignMember` has
listed it, and an event moved after it has been read (tent_service.go:60). Likewise
`AdultsPlacedWithAdults` names the placement that has read a youth who is an adult by
the time it inserts.

And without any overlap, `AddDriver` (events.go:1440) gives a seat to somebody who has
withdrawn: the foreign key asks for an attendee row, and the canceled one is there.
`EventRoster` has the operation the same way.

### Bounds

* **Profiles.** Two or three: a holder, someone who takes the post and, in the race, a
  third; two for the patrols. Nothing in the code counts profiles.
* **Requests.** Two at a time reach every pairwise race: the code's reads and writes
  are on one post, one patrol, one code or one pair. There is no limit on how many requests
  follow each other; the state space is finite without one.
* **ToggledPosts.** One post where the three behave alike (every statement names one
  post), two in `attendance_recovery`, so that a cascade leaves one and not the other.
* **Patrols.** Three ids: the adult patrol, a youth patrol, and a fresh id while a
  handler remembers one that has been deleted. `MaxYouth` keeps one youth patrol at a
  time.
* **Types.** One member changes type, in either direction and any number of times
  (`Retyped`); in `CookingPatrols` the other stays an adult, so that two adults, and an
  adult and a youth, occur.
* **Tents.** Two ids, so that scouts move between tents and ids of deleted tents come back.
  Two of the scouts, whose ages matter, sign up and are assigned (`Campers`); the rules are
  evaluated for every set of all four (`RulesMeanSuitable`). Three girls and a boy: two sisters years apart, a third girl whose distance from the
  elder is one or two birthdays depending on how 29 February is counted. Three dates of
  the event, on the elder's birthday in a leap year and in another, and the day before.
* **Codes.** `MaxCodes` is three, one more than `RateLimit`, so that the limit is reached
  and passed; `MaxAttempts` one (five in the code), the smallest that can be exhausted.
  One browser: its two requests race on the code as those of two browsers would, since the
  server does not know browsers apart. That two browsers never hold a session of one code
  is left to `OneSessionPerCode` and `CodesRefinement`, which are proved for any number.
* **Rosters.** Two members and a manual profile; rosters that list a member twice, move
  it from one list to the other and from a position to another, which has the name of a
  status role, and list nobody. One user:
  a second would repeat the first.
* **Setup.** Two submissions with two BSA IDs and three users: the two of the submissions
  and one of a registration.
* **Links.** Four rows: two requests of each of two parents.
* **MaxFaults.** One or two failing statements. A withdrawal that "meets no error" is one
  that starts when the failures are used up.
* **TabOps.** All operations of the tab in the passing runs.

### Fairness

`FairSpec` adds weak fairness of `Serve(r)` for every request, and in `Administration` of
`ServeTask(t)`: net/http runs a handler it has accepted in its own goroutine, and nothing
in a handler waits for another request. No fairness is assumed of people: requests need
not come, the event need not be edited or pass, the wizard need not be finished. Nor of
failures.

## Proofs

`tlapm` checks these for every set of profiles, patrols, rosters and permissions, every
finite set of requests, and every number of failures. The assumptions are those the modules
name: the special values are outside the sets, the sets of special profiles are subsets,
what is counted is finite, bounds are naturals. `TypeOK` of `Tenting`, `Registration`,
`RosterSync` and `FamilyConnections` is proved and no run checks it. `Counting` has the lemmas on sizes of sets
that the invariants with a count share.

* `EventAttendanceProofs`
  * `TypeCorrect`: `TypeOK`. It carries what a stage knows of a request: who and which post.
  * `Integrity`: `ReferentialIntegrity`, inductive with the types. The step that matters is
    the insertion, which runs long after the check that admitted it: only the foreign key
    holds it back, and deleting the event takes all three tables at once.
  * `Oversubscription`: `OversubscriptionBounded`. A bound on holders is not inductive: what
    is counted is holders together with requests about to insert. Each claim that is added
    is added when nobody else held the post, so that the claims are then those of the
    requests alone.
  * `Replacement`: `ReplacementFillsPost`, for requests that overlap. A toggle past the
    check of its profile finds an attendee row until the event is deleted, so its insertion
    is refused only then; and it gives up before only on having found another holder, who
    is then in the post. No fairness is needed: the property says how the toggle ends.
  * `SerialSingleton`: with at most one request, `SingletonHolders`, as the instance of the
    bound for one request.
  * `SerialWithdrawal`: with at most one request and until a statement fails,
    `WithdrawnHoldNoPost`. The invariant says how far a cascade has come (the posts before
    its step are gone, and the seat after the first), that a request about to insert has a
    profile that is signed up, and that whoever holds a post is signed up or is in the
    cascade. The condition on failures is needed: a cascade that fails leaves posts, which
    is what `RetriedWithdrawClears` is about.
  * `Refinement`: with at most one request and no failure, `ImplementsRoster`. One lemma per
    operation of `EventRoster` says which change of the tables shows as that operation, and
    one step of the proof per statement which operation it is, or that it shows nothing:
    the cancellation is the `Withdraw` and the deletes after it stutter, because the
    mapping counts a profile in its cascade as gone; the insertion is the `TakePost` and
    the eviction before it stutters.
* `CookingPatrolsProofs`
  * `TypeCorrect`.
  * `AdultsStayTogether`, `SingleCook`, `NoOrphans`: the other properties of
    `cooking_concurrent`, from one inductive invariant, `PatrolsInv`. It adds to the two
    invariants `OneAdultPatrol` (the partial unique index) and `SafeToAssign`: a handler about
    to insert one it has read to be an adult remembers an id that is the adult patrol's or
    belongs to no patrol, and will not be given to a youth patrol. The types are not part of
    it, and so may change at any step: `AdultsPlacedWithAdults` follows for whoever is an
    adult at the insertion and was at the check. `OneCookPerPatrol` needs the index for the
    transaction that enables cooking, which moves adults without touching `is_cook`, and for
    nothing else.
  * `DisabledHasNone`, `OwnCookCleared`, `EnablingPlaces`: for handlers that do not overlap and
    any number of failures, `DisabledHasNoPatrols`, `OnlyOwnCookCleared` and
    `EnablingPlacesAdults`. The invariant, `SerialInv`, is what a handler relies on without
    asking again: that the toggle is what an edit compared it with, that cooking is enabled
    where a patrol is about to be created, and that the designation about to be cleared is
    the profile's own.

* `TentingProofs`
  * `AgesCountBirthdays`: for all dates, `AgeWholeYears` is the number of birthdays. The
    birthdays are those of the years from the first to the last full one, an interval, whose
    size is the age; only the year of the event needs the comparison of month and day.
  * `TypeCorrect`, `NoOrphans`: `MembersHaveTents`, for requests that overlap.
  * `RulesExact`: `RulesMeanSuitable`. For every set of scouts, date, roster, set of links and
    age gap, the rules find a violation exactly when the set is not suitable. It uses
    the theorem on ages, and that the set of genders has one element at most. `Profiles` is
    assumed finite, for the sizes of sets to mean something.
  * `AssignmentsObeyRules`: `JoinObeysRules`, for requests that overlap. The invariant,
    `Passed`, is about the memory of a request only: from its validation on, what it listed
    together with its scout had no violation on the date it read. If nobody has entered
    the tent since, the tent is a part of what it listed, and a part of a suitable set is.

* `RegistrationProofs`
  * `TypeCorrect`; `LinkedHasRoles`, from what the stages of a completion know of its user,
    and that no two completions have the same one; `VerificationsKept`, from the fact that
    a handler whose answer takes the session away has linked the profile.
  * `OneSessionPerCode`: a code that has verified a session, or is about to, is used or
    gone, and `MarkUsedIfUnused` succeeds on a code that is neither.
  * `UsableBounded`, `HourlyBounded`, `WrongEntriesBounded`: as with the holders of a post,
    what is inductive is the count of rows together with the requests that have passed the
    check and not yet written.
  * `CodesRefinement`: `ImplementsOneTimeCodes`, with no hypothesis on overlaps or failures.
    It needs the invariant of `OneSessionPerCode`, so that the answer which redeems a code
    is the only one on its way and the code is not open again behind it; that an unsent
    code has an untouched row, so that sending opens it; and that a verification in force
    names a code.
* `RosterSyncProofs`
  * `TypeCorrect`, and from it with `Sound` (a Sync works on members only; the roles it takes
    are never status roles, those it gives always positions, and reports say no more than
    that) `StatusRolesAreTakenByReverts` and `ManualIsSpared`, for handlers that overlap as
    well. Positions and status roles may have names in common.
  * `SyncHasApplied`, `RevertHasUndone`, `LinkIsKept`: for handlers that do not overlap and any
    number of failures, `SyncApplies`, `RevertUndoes` and `LinkKept`, from one invariant,
    `SerialInv`, of five parts. `RowsAsRead`: the row a handler is about to write back is
    still the row of the table. `UsersApart`: no two profiles share a user, so that the
    roles of one member are touched for no other. `SyncSoFar`: the members a Sync has come
    past are as the roster wants them, and the roles of the one it is at lie between what
    it found and what it wants (`Between`). `PageUndoes`: its page, with what the current
    member has undergone so far, leads back to what it found but for the status roles that it
    lists as added, also when a part of it has been undone (`Undoes`). `ReportUndoes`: so does the last page, until another handler
    touches the member. Nothing is assumed of what a failed Sync left behind.
* `AdministrationProofs`
  * `TypeCorrect`, with `RoomInv`: every submission about to create a user has one left, so
    that the new row is one that does not exist.
  * `InstalledIsAdministered`: the invariant says how far a submission has come, that its
    user has the role admin or was dismissed, that its profile is linked to that user and
    that the keys before the current one have values; the last key is the completion.
  * `FirstAdministratorsAreBounded`: while the setup is open, each first administrator belongs
    to a submission that is setting its keys or to a failure; the submission that
    completes it leaves the bound on those that overlap it.
* `FamilyConnectionsProofs`
  * `TypeCorrect`, with the room for new rows; `ActsConnected`, where a decision that
    disconnects a pair marks those in flight; `PendingIsBounded`, a count of rows and
    requests about to insert.

The hypothesis that handlers do not overlap reads `\A s, t \in Requests : s = t` or
`Cardinality(Requests) <= 1`, and is what the serial runs have; *Races that the serial
properties exclude* shows how two handlers break these properties.

Every invariant and action property that a passing run checks, and both refinements, are
stated by a theorem. Only model-checked are the liveness properties
(`RetriedWithdrawClears`, `SignUpPlacesAdult`, `WithdrawnLeavesPatrol`, `RetryCompletes`),
which need fairness and with it `ENABLED`, out
of the prover's reach.

## Plan

1. `EventAttendance` with `EventRoster`, `CookingPatrols`, `TentRules` and `Tenting`, with
   their proofs. Done.
2. `Registration`, `RosterSync`, `Onboarding`, `Administration`, `FamilyConnections`, with
   proofs. Done.
3. The properties of handlers that do not overlap, the refinement of `EventRoster`, the
   exactness of the rules of a tent, and `OneTimeCodes` with its refinement. Done.
4. What remains to prove: the safety part of what the liveness properties rest on, such as
   what a repeated withdrawal or setup has achieved when it ends; an abstract
   specification of the cooking tab.
5. What remains to model: the admission of a profile by its status, and the composition of
   the tents with the roster and the connections their rules read.
