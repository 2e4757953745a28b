-------------------------- MODULE RosterSyncProofs --------------------------
(***************************************************************************)
(* Theorems about RosterSync, for any number of members, profiles without  *)
(* a BSA ID, users, rosters, handlers that overlap and failures.           *)
(***************************************************************************)
EXTENDS RosterSync, TLAPS

\* What the memory of a handler is good for at each of its stages: a Sync has members
\* only, which its roster lists until it deactivates; whoever has names to give or take
\* has a user; ReconcileRoles never has a status role to take, and no report says that
\* one was added.
Sound ==
    {q \in RequestRecord :
        /\ q.added \subseteq Positions
        /\ \A m \in Members : q.page[m].added \subseteq Positions
        /\ q.stage = "changeRoles" => q.removed \intersect StatusRoles = {}
        /\ q.stage \in {"readRoles", "changeRoles"} => q.op \in {"sync", "complete"}
        /\ q.stage \in {"readRoles", "enrol"} => q.user \in Users
        /\ q.stage \in {"changeRoles", "undoRoles"} /\ q.names # {} => q.user \in Users
        /\ q.stage \in {"members", "enrol"} => q.removed = {} /\ q.names = {}
        /\ q.stage \in {"members", "create", "deactivate"} => q.op = "sync"
        /\ q.stage = "enrol" => q.op = "complete"
        /\ q.stage = "toggle" => q.op = "toggle"
        /\ q.stage \in {"restore", "undoRoles"} => q.op = "revert" /\ q.profile \in Members
        /\ q.op = "sync" =>
             /\ q.todo \subseteq Members
             /\ q.stage # "deactivate" => \A m \in q.todo : q.roster[m].kind # "none"
             /\ q.stage \in {"create", "readRoles", "changeRoles"} =>
                    q.profile \in Members /\ q.roster[q.profile].kind # "none"
        /\ q.op \in {"complete", "toggle"} => q.profile \in Profiles}

SyncInv ==
    /\ TypeOK
    /\ req \in [Requests -> Sound]
    /\ \A m \in Members : report[m].added \subseteq Positions

LEMMA ConstantTypes ==
  /\ NoRow \in Row
  /\ NoReport \in Report /\ NoReport.added = {}
  /\ NoPast \in Past
  /\ NotListed \in Entry
  /\ Idle \in Sound /\ Idle.stage = "idle" /\ Idle.page \in [Members -> Report]
  <1>1. NoRow \in Row
    BY DEF NoRow, Row, Kinds
  <1>2. NoReport \in Report /\ NoReport.added = {}
    BY <1>1 DEF NoReport, Report
  <1>3. NoPast \in Past
    BY <1>1 DEF NoPast, Past
  <1>4. NotListed \in Entry
    BY DEF NotListed, Entry
  <1>5. Idle \in RequestRecord
    BY <1>1, <1>2, <1>4 DEF Idle, RequestRecord, Stages
  <1>6. Idle \in Sound
    <2>1. \A m \in Members : Idle.page[m].added \subseteq Positions
      BY <1>2 DEF Idle
    <2> QED BY <1>5, <2>1 DEF Idle, Sound
  <1>7. Idle.stage = "idle" /\ Idle.page \in [Members -> Report]
    BY <1>2 DEF Idle
  <1> QED BY <1>1, <1>2, <1>3, <1>4, <1>6, <1>7

\* A roster that Scoutbook answers gives every member an entry.
LEMMA RosterType ==
  ASSUME NEW roster \in Rosters
  PROVE  Deduplicate(roster.adults, roster.youths) \in [Members -> Entry]
  <1>1. roster.adults \in Lists /\ roster.youths \in Lists
    BY SetsAssumption
  <1>2. ASSUME NEW list \in Lists, NEW m \in DOMAIN list
        PROVE  list[m] \in SUBSET Positions
    <2>1. PICK S \in SUBSET Members : list \in [S -> SUBSET Positions]
      BY DEF Lists
    <2> QED BY <1>2, <2>1
  <1>3. ASSUME NEW m \in Members
        PROVE  (IF m \in DOMAIN roster.adults THEN [kind |-> "adult", positions |-> roster.adults[m]]
                ELSE IF m \in DOMAIN roster.youths
                     THEN [kind |-> "youth", positions |-> roster.youths[m]]
                     ELSE NotListed) \in Entry
    BY <1>1, <1>2, ConstantTypes DEF Entry, Kinds
  <1> QED BY <1>3 DEF Deduplicate

LEMMA RowType ==
  /\ \A old \in Row, entry \in Entry : entry.kind # "none" => Listed(old, entry) \in Row
  /\ \A now, old \in Row : Restored(now, old) \in Row
  /\ \A old \in Row : /\ [old EXCEPT !.status = NextStatus(@)] \in Row
                      /\ [old EXCEPT !.status = "inactive"] \in Row
  /\ \A old \in Row, u \in Users : [old EXCEPT !.user = u] \in Row
  <1>1. \A status : NextStatus(status) \in {"active", "inactive", "disabled"}
    BY DEF NextStatus
  <1>2. \A old \in Row : [old EXCEPT !.status = NextStatus(@)] \in Row
    BY <1>1 DEF Row
  <1>3. \A old \in Row, entry \in Entry : entry.kind # "none" => Listed(old, entry) \in Row
    BY DEF Row, Entry, Listed
  <1>4. \A now, old \in Row : Restored(now, old) \in Row
    BY DEF Row, Restored
  <1>5. \A old \in Row : [old EXCEPT !.status = "inactive"] \in Row
    BY DEF Row
  <1>6. \A old \in Row, u \in Users : [old EXCEPT !.user = u] \in Row
    BY DEF Row
  <1> QED BY <1>2, <1>3, <1>4, <1>5, <1>6

\* A handler changes its own memory only.
LEMMA OneMoves ==
  ASSUME req \in [Requests -> Sound], NEW r \in Requests, NEW q \in Sound,
         req' = [req EXCEPT ![r] = q]
  PROVE  /\ req' \in [Requests -> Sound] /\ req' \in [Requests -> RequestRecord]
         /\ req'[r] = q
  BY DEF Sound

LEMMA FinishType ==
  ASSUME req \in [Requests -> Sound], NEW r \in Requests, Finish(r)
  PROVE  /\ req' \in [Requests -> Sound] /\ req' \in [Requests -> RequestRecord]
         /\ req'[r].stage = "idle"
  BY ConstantTypes, OneMoves DEF Finish

-----------------------------------------------------------------------------

LEMMA RequestFields ==
  ASSUME SyncInv, NEW r \in Requests
  PROVE  /\ req[r] \in Sound /\ req[r] \in RequestRecord
         /\ req[r].row \in Row /\ req[r].profile \in Profiles \union {NoUser}
         /\ req[r].user \in Users \union {NoUser}
         /\ req[r].added \in SUBSET Positions /\ req[r].removed \in SUBSET Roles
         /\ req[r].names \in SUBSET (req[r].added \union req[r].removed)
         /\ req[r].roster \in [Members -> Entry] /\ req[r].todo \in SUBSET Profiles
         /\ req[r].rows \in [Profiles -> Row] /\ req[r].page \in [Members -> Report]
         /\ req[r].stage \in Stages
  <1>1. req[r] \in Sound
    BY DEF SyncInv
  <1>2. req[r] \in RequestRecord
    BY <1>1 DEF Sound
  <1> QED BY <1>1, <1>2 DEF Sound, RequestRecord

LEMMA TableTypes ==
  ASSUME SyncInv
  PROVE  /\ row \in [Profiles -> Row] /\ roles \in [Users -> SUBSET Roles]
         /\ report \in [Members -> Report] /\ before \in [Members -> Past]
         /\ faults \in 0..MaxFaults
         /\ req \in [Requests -> Sound]
         /\ Members \subseteq Profiles
  BY DEF SyncInv, TypeOK, Profiles

\* A step of a handler that changes nothing but its memory.
LEMMA MemoryOnly ==
  ASSUME SyncInv, NEW r \in Requests, NEW q \in Sound, req' = [req EXCEPT ![r] = q],
         row' \in [Profiles -> Row], roles' \in [Users -> SUBSET Roles],
         before' \in [Members -> Past], UNCHANGED <<report, faults>>
  PROVE  SyncInv'
  <1>1. req' \in [Requests -> Sound] /\ req' \in [Requests -> RequestRecord]
    BY OneMoves DEF SyncInv
  <1> QED BY <1>1 DEF SyncInv, TypeOK

LEMMA ForgetType ==
  ASSUME SyncInv, NEW p, Forget(p)
  PROVE  before' \in [Members -> Past]
  BY ConstantTypes, TableTypes DEF Forget

LEMMA BeginType ==
  ASSUME SyncInv, NEW r \in Requests, Begin(r)
  PROVE  SyncInv'
  <1>0. Idle \in RequestRecord /\ Idle \in Sound
    BY ConstantTypes DEF Sound
  <1>1. ASSUME BeginSync(r) PROVE SyncInv'
    <2>1. PICK roster \in Rosters :
            req' = [req EXCEPT ![r] =
              [Idle EXCEPT !.stage = "members", !.op = "sync",
                           !.roster = Deduplicate(roster.adults, roster.youths),
                           !.todo = {m \in Members :
                              Deduplicate(roster.adults, roster.youths)[m].kind # "none"}]]
      BY <1>1 DEF BeginSync
    <2> DEFINE entries == Deduplicate(roster.adults, roster.youths)
               todo == {m \in Members : entries[m].kind # "none"}
               q == [Idle EXCEPT !.stage = "members", !.op = "sync", !.roster = entries,
                                 !.todo = todo]
    <2>2. entries \in [Members -> Entry]
      BY RosterType
    <2> HIDE DEF entries
    <2>3. todo \subseteq Members /\ \A m \in todo : entries[m].kind # "none"
      OBVIOUS
    <2> HIDE DEF todo
    <2>4. q \in RequestRecord
      BY <1>0, <2>2, <2>3 DEF Idle, RequestRecord, Stages, Profiles
    <2>5. q \in Sound
      BY <1>0, <2>3, <2>4 DEF Idle, Sound
    <2>6. before' \in [Members -> Past]
      BY <1>1, TableTypes DEF BeginSync, Past, RolesOf, Row
    <2>7. req' = [req EXCEPT ![r] = q]
      BY <2>1 DEF todo, entries
    <2> HIDE DEF q
    <2> QED BY <1>1, <2>5, <2>6, <2>7, TableTypes, MemoryOnly DEF BeginSync
  <1>2. ASSUME NEW m \in Members, BeginRevert(r, m) PROVE SyncInv'
    <2> DEFINE page == [Idle.page EXCEPT ![m] = report[m]]
               q == [Idle EXCEPT !.stage = "restore", !.op = "revert", !.profile = m,
                                 !.row = row[m], !.user = row[m].user, !.page = page]
    <2>1. row[m] \in Row /\ row[m].user \in Users \union {NoUser} /\ m \in Profiles
      BY TableTypes DEF Row
    <2>2. page \in [Members -> Report] /\ \A n \in Members : page[n].added \subseteq Positions
      BY <1>0, ConstantTypes, TableTypes DEF SyncInv, Sound
    <2> HIDE DEF page
    <2>3. q \in RequestRecord
      BY <1>0, <2>1, <2>2 DEF Idle, RequestRecord, Stages
    <2>4. q \in Sound
      BY <1>0, <2>2, <2>3 DEF Idle, Sound
    <2>5. req' = [req EXCEPT ![r] = q]
      BY <1>2 DEF BeginRevert, page
    <2> HIDE DEF q
    <2> QED BY <1>2, <2>4, <2>5, TableTypes, MemoryOnly DEF BeginRevert
  <1>3. ASSUME NEW p \in Profiles, BeginToggle(r, p) PROVE SyncInv'
    <2> DEFINE q == [Idle EXCEPT !.stage = "toggle", !.op = "toggle", !.profile = p, !.row = row[p]]
    <2>1. q \in RequestRecord
      BY <1>0, TableTypes DEF Idle, RequestRecord, Stages
    <2>2. q \in Sound
      BY <1>0, <2>1 DEF Idle, Sound
    <2>3. req' = [req EXCEPT ![r] = q] /\ before' \in [Members -> Past]
      BY <1>3, ForgetType DEF BeginToggle
    <2> HIDE DEF q
    <2> QED BY <1>3, <2>2, <2>3, TableTypes, MemoryOnly DEF BeginToggle
  <1>4. ASSUME NEW p \in Profiles, BeginComplete(r, p) PROVE SyncInv'
    <2>1. PICK u \in Users :
            req' = [req EXCEPT ![r] = [Idle EXCEPT !.stage = "enrol", !.op = "complete",
                                         !.profile = p, !.row = row[p], !.user = u]]
      BY <1>4 DEF BeginComplete
    <2> DEFINE q == [Idle EXCEPT !.stage = "enrol", !.op = "complete",
                                 !.profile = p, !.row = row[p], !.user = u]
    <2>2. q \in RequestRecord
      BY <1>0, TableTypes DEF Idle, RequestRecord, Stages
    <2>3. q \in Sound
      BY <1>0, <2>2 DEF Idle, Sound
    <2>4. req' = [req EXCEPT ![r] = q] /\ before' \in [Members -> Past]
      BY <1>4, <2>1, ForgetType DEF BeginComplete
    <2> HIDE DEF q
    <2> QED BY <1>4, <2>3, <2>4, TableTypes, MemoryOnly DEF BeginComplete
  <1> QED BY <1>1, <1>2, <1>3, <1>4 DEF Begin

\* On to the next member, or to the answer, with a page that reports sound roles.
LEMMA NextMemberType ==
  ASSUME SyncInv, NEW r \in Requests, req[r].op = "sync",
         req[r].stage \in {"create", "changeRoles"},
         NEW page \in [Members -> Report], \A m \in Members : page[m].added \subseteq Positions,
         NextMember(r, page)
  PROVE  \E q \in Sound : req' = [req EXCEPT ![r] = q]
  <1> DEFINE q == [Idle EXCEPT !.stage = "members", !.op = "sync", !.page = page,
                               !.roster = req[r].roster, !.todo = req[r].todo]
  <1>0. Idle \in RequestRecord /\ Idle \in Sound
    BY ConstantTypes DEF Sound
  <1>1. q \in RequestRecord
    BY <1>0, RequestFields DEF Idle, RequestRecord, Stages
  <1>2. /\ req[r].todo \subseteq Members
        /\ \A m \in req[r].todo : req[r].roster[m].kind # "none"
    BY RequestFields DEF Sound
  <1>3. q \in Sound
    BY <1>0, <1>1, <1>2 DEF Idle, Sound
  <1>4. req' = [req EXCEPT ![r] = q]
    BY DEF NextMember
  <1> HIDE DEF q
  <1> QED BY <1>3, <1>4

LEMMA NameDone ==
  ASSUME SyncInv, NEW r \in Requests, NEW name
  PROVE  [req[r] EXCEPT !.names = @ \ {name}] \in Sound
  <1>1. [req[r] EXCEPT !.names = @ \ {name}] \in RequestRecord
    BY RequestFields DEF RequestRecord
  <1> QED BY <1>1, RequestFields DEF Sound, RequestRecord

LEMMA RoleTypes ==
  ASSUME SyncInv, NEW u \in Users, NEW name \in Roles
  PROVE  /\ AssignRoleToUser(u, name) => roles' \in [Users -> SUBSET Roles]
         /\ RemoveRoleFromUser(u, name) => roles' \in [Users -> SUBSET Roles]
  BY TableTypes DEF AssignRoleToUser, RemoveRoleFromUser

\* The handlers of a Sync.
LEMMA SyncType ==
  ASSUME SyncInv, NEW r \in Requests,
         \/ ReadMember(r) \/ CreateProfile(r) \/ UpdateProfile(r)
         \/ ListActive(r) \/ Deactivate(r) \/ EndSync(r)
  PROVE  SyncInv'
  <1>0. /\ req[r] \in Sound /\ req[r] \in RequestRecord /\ Idle \in Sound
    BY RequestFields, ConstantTypes
  <1>1. ASSUME ReadMember(r) PROVE SyncInv'
    <2>1. PICK m \in req[r].todo :
            req' = [req EXCEPT ![r].todo = @ \ {m}, ![r].profile = m, ![r].row = row[m],
                      ![r].user = row[m].user,
                      ![r].stage = IF row[m].status = "none" THEN "create"
                                   ELSE IF row[m].user # NoUser THEN "readRoles"
                                   ELSE "changeRoles"]
      BY <1>1 DEF ReadMember
    <2> DEFINE stage == IF row[m].status = "none" THEN "create"
                        ELSE IF row[m].user # NoUser THEN "readRoles" ELSE "changeRoles"
               q == [req[r] EXCEPT !.todo = @ \ {m}, !.profile = m, !.row = row[m],
                                   !.user = row[m].user, !.stage = stage]
    <2>2. /\ req[r].stage = "members" /\ req[r].op = "sync" /\ m \in Members
          /\ req[r].removed = {} /\ req[r].names = {}
          /\ req[r].todo \subseteq Members
          /\ \A n \in req[r].todo : req[r].roster[n].kind # "none"
      BY <1>0, <1>1 DEF ReadMember, Sound
    <2>3. row[m] \in Row /\ row[m].user \in Users \union {NoUser} /\ m \in Profiles
      BY <2>2, TableTypes DEF Row
    <2>4. /\ stage \in {"create", "readRoles", "changeRoles"}
          /\ stage = "readRoles" => row[m].user \in Users
      BY <2>3
    <2> HIDE DEF stage
    <2>5. q \in RequestRecord
      BY <1>0, <2>3, <2>4 DEF RequestRecord, Stages
    <2>6. req' = [req EXCEPT ![r] = q]
      BY <2>1 DEF stage
    <2>7. /\ q.stage = stage /\ q.op = "sync" /\ q.profile = m /\ q.user = row[m].user
          /\ q.todo = req[r].todo \ {m} /\ q.roster = req[r].roster
          /\ q.added = req[r].added /\ q.removed = {} /\ q.names = {} /\ q.page = req[r].page
      BY <1>0, <2>2 DEF RequestRecord
    <2>8. /\ req[r].added \subseteq Positions
          /\ \A n \in Members : req[r].page[n].added \subseteq Positions
          /\ req[r].roster[m].kind # "none"
      BY <1>0, <2>2 DEF Sound
    <2> HIDE DEF q
    <2>9. q \in Sound
      BY <2>2, <2>4, <2>5, <2>7, <2>8 DEF Sound
    <2> QED BY <1>1, <2>6, <2>9, TableTypes, MemoryOnly DEF ReadMember
  <1>2. ASSUME CreateProfile(r) PROVE SyncInv'
    <2>1. /\ req[r].stage = "create" /\ req[r].op = "sync"
          /\ req[r].profile \in Members /\ req[r].roster[req[r].profile].kind # "none"
          /\ \A m \in Members : req[r].page[m].added \subseteq Positions
      BY <1>0, <1>2 DEF CreateProfile, Sound
    <2>2. req[r].roster[req[r].profile] \in Entry
      BY <2>1, RequestFields
    <2>3. Listed(NoRow, req[r].roster[req[r].profile]) \in Row
      BY <2>1, <2>2, RowType, ConstantTypes
    <2>4. row' \in [Profiles -> Row]
      BY <1>2, <2>3, TableTypes DEF CreateProfile
    <2>5. \E q \in Sound : req' = [req EXCEPT ![r] = q]
      BY <1>0, <1>2, <2>1, RequestFields, NextMemberType DEF CreateProfile, Finish
    <2> QED BY <1>2, <2>4, <2>5, TableTypes, MemoryOnly DEF CreateProfile
  <1>3. ASSUME UpdateProfile(r) PROVE SyncInv'
    <2> DEFINE m == req[r].profile
               new == Listed(req[r].row, req[r].roster[m])
               entry == IF new # req[r].row \/ req[r].added # {} \/ req[r].removed # {}
                        THEN [old |-> req[r].row, added |-> req[r].added, removed |-> req[r].removed]
                        ELSE NoReport
               page == [req[r].page EXCEPT ![m] = entry]
    <2>1. /\ req[r].stage = "changeRoles" /\ req[r].op = "sync"
          /\ m \in Members /\ req[r].roster[m].kind # "none"
          /\ \A n \in Members : req[r].page[n].added \subseteq Positions
      BY <1>0, <1>3 DEF UpdateProfile, Sound
    <2>2. new \in Row
      BY <2>1, RowType, RequestFields
    <2>3. entry \in Report /\ entry.added \subseteq Positions
      BY RequestFields, ConstantTypes DEF Report, Roles
    <2>4. row' \in [Profiles -> Row]
      BY <1>3, <2>1, <2>2, TableTypes DEF UpdateProfile
    <2>5. NextMember(r, page)
      BY <1>3 DEF UpdateProfile
    <2> HIDE DEF m, new, entry
    <2>6. page \in [Members -> Report] /\ \A n \in Members : page[n].added \subseteq Positions
      BY <2>1, <2>3, RequestFields
    <2> HIDE DEF page
    <2>7. \E q \in Sound : req' = [req EXCEPT ![r] = q]
      BY <2>1, <2>5, <2>6, NextMemberType
    <2> QED BY <1>3, <2>4, <2>7, TableTypes, MemoryOnly DEF UpdateProfile
  <1>4. ASSUME ListActive(r) PROVE SyncInv'
    <2> DEFINE rows == [p \in Profiles |-> IF p \in Missing(r) THEN row[p] ELSE NoRow]
               q == [req[r] EXCEPT !.stage = "deactivate", !.todo = Missing(r), !.rows = rows]
    <2>1. req[r].stage = "members" /\ req[r].op = "sync" /\ Missing(r) \subseteq Members
      BY <1>0, <1>4 DEF ListActive, Sound, Missing
    <2>2. rows \in [Profiles -> Row]
      BY TableTypes, ConstantTypes
    <2> HIDE DEF rows
    <2>3. q \in RequestRecord
      BY <1>0, <2>1, <2>2 DEF RequestRecord, Stages, Profiles
    <2>4. q \in Sound
      BY <1>0, <2>1, <2>3 DEF Sound, RequestRecord
    <2>5. req' = [req EXCEPT ![r] = q]
      BY <1>4 DEF ListActive, rows
    <2> HIDE DEF q
    <2> QED BY <1>4, <2>4, <2>5, TableTypes, MemoryOnly DEF ListActive
  <1>5. ASSUME Deactivate(r) PROVE SyncInv'
    <2>1. PICK p \in req[r].todo :
            /\ row' = [row EXCEPT ![p] = [req[r].rows[p] EXCEPT !.status = "inactive"]]
            /\ req' = [req EXCEPT ![r].todo = @ \ {p}, ![r].rows[p] = NoRow,
                         ![r].page = [m \in Members |->
                            IF m = p THEN [NoReport EXCEPT !.old = req[r].rows[p]]
                                     ELSE req[r].page[m]]]
      BY <1>5 DEF Deactivate
    <2> DEFINE old == req[r].rows[p]
               rows == [req[r].rows EXCEPT ![p] = NoRow]
               page == [m \in Members |-> IF m = p THEN [NoReport EXCEPT !.old = old]
                                                   ELSE req[r].page[m]]
               q == [req[r] EXCEPT !.todo = @ \ {p}, !.rows = rows, !.page = page]
    <2>2. /\ req[r].stage = "deactivate" /\ req[r].op = "sync" /\ p \in Members
          /\ p \in Profiles /\ req[r].todo \subseteq Members
          /\ \A m \in Members : req[r].page[m].added \subseteq Positions
      BY <1>0, <1>5, TableTypes DEF Deactivate, Sound
    <2>3. old \in Row /\ rows \in [Profiles -> Row]
      BY <2>2, RequestFields, ConstantTypes
    <2>4. /\ [NoReport EXCEPT !.old = old] \in Report
          /\ [NoReport EXCEPT !.old = old].added = {}
      BY <2>3, ConstantTypes DEF Report, NoReport
    <2>5. page \in [Members -> Report] /\ \A m \in Members : page[m].added \subseteq Positions
      BY <2>2, <2>4, RequestFields
    <2>6. row' \in [Profiles -> Row]
      BY <2>1, <2>2, <2>3, RowType, TableTypes
    <2>7. req' = [req EXCEPT ![r] = q]
      BY <2>1
    <2> HIDE DEF old, rows, page
    <2>8. q \in RequestRecord
      BY <1>0, <2>3, <2>5 DEF RequestRecord
    <2>9. q \in Sound
      BY <1>0, <2>2, <2>5, <2>8 DEF Sound, RequestRecord
    <2> HIDE DEF q
    <2> QED BY <1>5, <2>6, <2>7, <2>9, TableTypes, MemoryOnly DEF Deactivate
  <1>6. ASSUME EndSync(r) PROVE SyncInv'
    <2> DEFINE q == [req[r] EXCEPT !.stage = "answer"]
    <2>1. q \in RequestRecord
      BY <1>0 DEF RequestRecord, Stages
    <2>2. q \in Sound
      BY <1>0, <1>6, <2>1 DEF Sound, RequestRecord, EndSync
    <2>3. req' = [req EXCEPT ![r] = q]
      BY <1>6 DEF EndSync, GoTo
    <2> HIDE DEF q
    <2> QED BY <1>6, <2>2, <2>3, TableTypes, MemoryOnly DEF EndSync
  <1> QED BY <1>1, <1>2, <1>3, <1>4, <1>5, <1>6

\* ReconcileRoles, Revert and the other handlers.
LEMMA OtherType ==
  ASSUME SyncInv, NEW r \in Requests,
         \/ ReadRoles(r) \/ ChangeRole(r) \/ RestoreProfile(r) \/ UndoRole(r)
         \/ ToggleProfileStatus(r) \/ AssignStatusRole(r) \/ LinkUser(r)
  PROVE  SyncInv'
  <1>0. /\ req[r] \in Sound /\ req[r] \in RequestRecord /\ Idle \in Sound
    BY RequestFields, ConstantTypes
  <1>1. ASSUME ReadRoles(r) PROVE SyncInv'
    <2> DEFINE current == roles[req[r].user] \ StatusRoles
               added == TargetPositions(r) \ current
               removed == current \ TargetPositions(r)
               q == [req[r] EXCEPT !.stage = "changeRoles", !.added = added,
                                   !.removed = removed, !.names = added \union removed]
    <2>1. /\ req[r].stage = "readRoles" /\ req[r].op \in {"sync", "complete"}
          /\ req[r].user \in Users
          /\ req[r].op = "sync" => req[r].profile \in Members
      BY <1>0, <1>1 DEF ReadRoles, Sound
    <2>2. TargetPositions(r) \subseteq Positions
      BY <2>1, RequestFields DEF TargetPositions, Entry, Row
    <2>3. /\ added \in SUBSET Positions /\ removed \in SUBSET Roles
          /\ removed \intersect StatusRoles = {}
      BY <2>1, <2>2, TableTypes
    <2>4. req' = [req EXCEPT ![r] = q]
      BY <1>1 DEF ReadRoles
    <2> HIDE DEF current, added, removed
    <2>5. q \in RequestRecord
      BY <1>0, <2>3 DEF RequestRecord, Stages, Roles
    <2>6. /\ q.stage = "changeRoles" /\ q.added = added /\ q.removed = removed
          /\ q.op = req[r].op /\ q.user = req[r].user /\ q.profile = req[r].profile
          /\ q.page = req[r].page /\ q.todo = req[r].todo /\ q.roster = req[r].roster
      BY <1>0 DEF RequestRecord
    <2> HIDE DEF q
    <2>7. q \in Sound
      BY <1>0, <2>1, <2>3, <2>5, <2>6 DEF Sound
    <2> QED BY <1>1, <2>4, <2>7, TableTypes, MemoryOnly DEF ReadRoles
  <1>2. ASSUME ChangeRole(r) PROVE SyncInv'
    <2>1. PICK name \in req[r].names :
            /\ AssignRoleToUser(req[r].user, name) \/ RemoveRoleFromUser(req[r].user, name)
            /\ req' = [req EXCEPT ![r] = [req[r] EXCEPT !.names = @ \ {name}]]
      BY <1>2 DEF ChangeRole
    <2>2. req[r].user \in Users /\ name \in Roles
      BY <1>0, <1>2, <2>1, RequestFields DEF ChangeRole, Sound, Roles
    <2>3. roles' \in [Users -> SUBSET Roles]
      BY <2>1, <2>2, RoleTypes
    <2> QED BY <1>2, <2>1, <2>3, NameDone, TableTypes, MemoryOnly DEF ChangeRole
  <1>3. ASSUME RestoreProfile(r) PROVE SyncInv'
    <2> DEFINE p == req[r].page[req[r].profile]
               names == IF req[r].user = NoUser THEN {} ELSE p.added \union p.removed
               q == [req[r] EXCEPT !.stage = "undoRoles", !.added = p.added,
                                   !.removed = p.removed, !.names = names]
    <2>1. /\ req[r].stage = "restore" /\ req[r].op = "revert" /\ req[r].profile \in Members
          /\ p.added \subseteq Positions
      BY <1>0, <1>3 DEF RestoreProfile, Sound
    <2>2. p \in Report /\ p.old \in Row /\ p.added \in SUBSET Roles /\ p.removed \in SUBSET Roles
      BY <2>1, RequestFields DEF Report
    <2>3. names \subseteq p.added \union p.removed /\ (names # {} => req[r].user \in Users)
      BY RequestFields
    <2>4. req' = [req EXCEPT ![r] = q]
      BY <1>3 DEF RestoreProfile
    <2>5. row' \in [Profiles -> Row]
      BY <1>3, <2>1, <2>2, RowType, RequestFields, TableTypes DEF RestoreProfile
    <2> HIDE DEF p, names
    <2>6. q \in RequestRecord
      BY <1>0, <2>2, <2>3 DEF RequestRecord, Stages
    <2>7. /\ q.stage = "undoRoles" /\ q.added = p.added /\ q.removed = p.removed
          /\ q.names = names /\ q.op = req[r].op /\ q.user = req[r].user
          /\ q.profile = req[r].profile /\ q.page = req[r].page
      BY <1>0 DEF RequestRecord
    <2> HIDE DEF q
    <2>8. q \in Sound
      BY <1>0, <2>1, <2>3, <2>6, <2>7 DEF Sound
    <2> QED BY <1>3, <2>4, <2>5, <2>8, TableTypes, MemoryOnly DEF RestoreProfile
  <1>4. ASSUME UndoRole(r) PROVE SyncInv'
    <2>1. ASSUME NEW name \in req[r].names,
                 AssignRoleToUser(req[r].user, name) \/ RemoveRoleFromUser(req[r].user, name),
                 req' = [req EXCEPT ![r] = [req[r] EXCEPT !.names = @ \ {name}]]
          PROVE  SyncInv'
      <3>1. req[r].user \in Users /\ name \in Roles
        BY <1>0, <1>4, RequestFields DEF UndoRole, Sound, Roles
      <3>2. roles' \in [Users -> SUBSET Roles]
        BY <2>1, <3>1, RoleTypes
      <3> QED BY <1>4, <2>1, <3>2, NameDone, TableTypes, MemoryOnly DEF UndoRole
    <2>2. ASSUME GoTo(r, "answer"), UNCHANGED roles PROVE SyncInv'
      <3> DEFINE q == [req[r] EXCEPT !.stage = "answer"]
      <3>1. q \in RequestRecord
        BY <1>0 DEF RequestRecord, Stages
      <3>2. q \in Sound
        BY <1>0, <1>4, <3>1 DEF Sound, RequestRecord, UndoRole
      <3>3. req' = [req EXCEPT ![r] = q]
        BY <2>2 DEF GoTo
      <3> HIDE DEF q
      <3> QED BY <1>4, <2>2, <3>2, <3>3, TableTypes, MemoryOnly DEF UndoRole
    <2> QED BY <1>4, <2>1, <2>2 DEF UndoRole
  <1>5. ASSUME ToggleProfileStatus(r) PROVE SyncInv'
    <2>1. req[r].profile \in Profiles
      BY <1>0, <1>5 DEF ToggleProfileStatus, Sound
    <2>2. row' \in [Profiles -> Row]
      BY <1>5, <2>1, RowType, RequestFields, TableTypes DEF ToggleProfileStatus
    <2> QED BY <1>0, <1>5, <2>2, TableTypes, MemoryOnly DEF ToggleProfileStatus, Finish
  <1>6. ASSUME AssignStatusRole(r) PROVE SyncInv'
    <2> DEFINE stage == IF req[r].row.positions # {} THEN "readRoles" ELSE "changeRoles"
               q == [req[r] EXCEPT !.stage = stage]
    <2>1. /\ req[r].stage = "enrol" /\ req[r].op = "complete" /\ req[r].user \in Users
          /\ req[r].removed = {} /\ req[r].names = {}
      BY <1>0, <1>6 DEF AssignStatusRole, Sound
    <2>2. stage \in {"readRoles", "changeRoles"}
      OBVIOUS
    <2>3. req' = [req EXCEPT ![r] = q]
      BY <1>6 DEF AssignStatusRole, GoTo
    <2> HIDE DEF stage
    <2>4. q \in RequestRecord
      BY <1>0, <2>2 DEF RequestRecord, Stages
    <2>5. q \in Sound
      BY <1>0, <2>1, <2>2, <2>4 DEF Sound, RequestRecord
    <2>6. roles' \in [Users -> SUBSET Roles]
      BY <1>6, <2>1, RoleTypes DEF AssignStatusRole, StatusRole, Roles, StatusRoles
    <2> HIDE DEF q
    <2> QED BY <1>6, <2>3, <2>5, <2>6, TableTypes, MemoryOnly DEF AssignStatusRole
  <1>7. ASSUME LinkUser(r) PROVE SyncInv'
    <2>1. req[r].profile \in Profiles
      BY <1>0, <1>7 DEF LinkUser, Sound
    <2>2. [req[r].row EXCEPT !.user = req[r].user] \in Row
      BY RequestFields DEF Row
    <2>3. row' \in [Profiles -> Row]
      BY <1>7, <2>1, <2>2, TableTypes DEF LinkUser
    <2> QED BY <1>0, <1>7, <2>3, TableTypes, MemoryOnly DEF LinkUser, Finish
  <1> QED BY <1>1, <1>2, <1>3, <1>4, <1>5, <1>6, <1>7

LEMMA EndType ==
  ASSUME SyncInv, NEW r \in Requests, Answer(r) \/ StatementFails(r)
  PROVE  SyncInv'
  <1>1. req' \in [Requests -> Sound] /\ req' \in [Requests -> RequestRecord]
    BY FinishType, TableTypes DEF Answer, StatementFails
  <1>2. report' \in [Members -> Report] /\ \A m \in Members : report'[m].added \subseteq Positions
    BY RequestFields, TableTypes DEF Answer, StatementFails, SyncInv, Sound
  <1>3. before' \in [Members -> Past]
    BY ConstantTypes, TableTypes DEF Answer, StatementFails
  <1>4. faults' \in 0..MaxFaults
    BY TableTypes, SetsAssumption DEF Answer, StatementFails
  <1>5. UNCHANGED <<row, roles>>
    BY DEF Answer, StatementFails
  <1> QED BY <1>1, <1>2, <1>3, <1>4, <1>5, TableTypes DEF SyncInv, TypeOK

LEMMA StepSync == SyncInv /\ [Next]_vars => SyncInv'
  <1> SUFFICES ASSUME SyncInv, [Next]_vars PROVE SyncInv'
    OBVIOUS
  <1>1. CASE UNCHANGED vars
    BY <1>1 DEF vars, SyncInv, TypeOK
  <1> QED BY <1>1, BeginType, SyncType, OtherType, EndType DEF Next, Serve

LEMMA SyncInvariant == Spec => []SyncInv
  <1>1. Init => SyncInv
    <2> SUFFICES ASSUME Init PROVE SyncInv
      OBVIOUS
    <2>1. [NoRow EXCEPT !.status = "active"] \in Row
      BY DEF NoRow, Row, Kinds
    <2>2. row \in [Profiles -> Row]
      BY <2>1, ConstantTypes DEF Init
    <2>3. faults \in 0..MaxFaults /\ roles \in [Users -> SUBSET Roles]
      BY SetsAssumption DEF Init
    <2>4. /\ report \in [Members -> Report] /\ before \in [Members -> Past]
          /\ \A m \in Members : report[m].added \subseteq Positions
      BY ConstantTypes DEF Init
    <2>5. req \in [Requests -> Sound] /\ req \in [Requests -> RequestRecord]
      BY ConstantTypes DEF Init, Sound
    <2> QED BY <2>2, <2>3, <2>4, <2>5 DEF SyncInv, TypeOK
  <1> QED BY <1>1, StepSync, PTL DEF Spec

\* Profiles, roles, pages and the memory of every handler keep their types.
THEOREM TypeCorrect == Spec => []TypeOK
  <1>1. SyncInv => TypeOK
    BY DEF SyncInv
  <1> QED BY <1>1, SyncInvariant, PTL

-----------------------------------------------------------------------------

\* No synchronisation or registration takes "parent", "Scouts BSA" or "admin" from a user,
\* however their steps interleave and wherever they fail, and a Revert takes only what the
\* roster listed as a position.
THEOREM StatusRolesAreTakenByReverts == Spec => OnlyRevertTakesStatusRoles
  <1> DEFINE Taken(u, name, r) == /\ req[r].op = "revert" /\ req[r].user = u /\ req'[r] # req[r]
                                  /\ name \in Positions \intersect req[r].added
             Kept == \A u \in Users : \A name \in (roles[u] \ roles'[u]) \intersect StatusRoles :
                        \E r \in Requests : Taken(u, name, r)
  <1>1. SyncInv /\ [Next]_vars => [Kept]_vars
    <2> SUFFICES ASSUME SyncInv, Next, NEW u \in Users, NEW name \in roles[u] \ roles'[u],
                        name \in StatusRoles
                 PROVE  \E r \in Requests : Taken(u, name, r)
      BY DEF Kept
    <2>0. roles \in [Users -> SUBSET Roles]
      BY TableTypes
    <2>1. ASSUME NEW v, NEW given, AssignRoleToUser(v, given)
          PROVE  FALSE
      BY <2>0, <2>1 DEF AssignRoleToUser
    <2>2. ASSUME NEW v, NEW taken, RemoveRoleFromUser(v, taken)
          PROVE  v = u /\ taken = name
      BY <2>0, <2>2 DEF RemoveRoleFromUser
    <2>3. ASSUME NEW r \in Requests, ChangeRole(r)
          PROVE  FALSE
      <3>1. PICK taken \in req[r].names : /\ req[r].names \intersect req[r].added = {}
                                          /\ RemoveRoleFromUser(req[r].user, taken)
        BY <2>1, <2>3 DEF ChangeRole
      <3>2. req[r].removed \intersect StatusRoles = {}
        BY <2>3, RequestFields DEF ChangeRole, Sound
      <3>3. taken \in req[r].removed
        BY <3>1, RequestFields
      <3> QED BY <2>2, <3>1, <3>2, <3>3
    <2>4. ASSUME NEW r \in Requests, UndoRole(r)
          PROVE  Taken(u, name, r)
      <3>1. roles' # roles
        OBVIOUS
      <3>2. PICK taken \in req[r].names \intersect req[r].added :
              /\ RemoveRoleFromUser(req[r].user, taken)
              /\ req' = [req EXCEPT ![r].names = @ \ {taken}]
        BY <2>1, <2>4, <3>1 DEF UndoRole
      <3>3. req[r].user = u /\ taken = name
        BY <2>2, <3>2
      <3>4. name \in Positions /\ req[r].op = "revert"
        BY <2>4, <3>2, <3>3, RequestFields DEF UndoRole, Sound
      <3>5. req'[r].names # req[r].names
        BY <3>2, TableTypes, RequestFields DEF RequestRecord
      <3> QED BY <3>2, <3>3, <3>4, <3>5
    <2>5. ASSUME NEW r \in Requests, AssignStatusRole(r)
          PROVE  FALSE
      BY <2>1, <2>5 DEF AssignStatusRole
    <2>6. ASSUME NEW r \in Requests,
                 \/ Begin(r)
                 \/ Serve(r) /\ ~ ChangeRole(r) /\ ~ UndoRole(r) /\ ~ AssignStatusRole(r)
                 \/ StatementFails(r)
          PROVE  FALSE
      <3>1. roles' = roles
        BY <2>6 DEF Begin, BeginSync, BeginRevert, BeginToggle, BeginComplete, Serve, ReadMember,
                    CreateProfile, UpdateProfile, ListActive, Deactivate, EndSync, ReadRoles,
                    RestoreProfile, ToggleProfileStatus, LinkUser, Answer, StatementFails
      <3> QED BY <3>1
    <2>7. PICK r \in Requests : Begin(r) \/ Serve(r) \/ StatementFails(r)
      BY DEF Next
    <2> QED BY <2>3, <2>4, <2>5, <2>6, <2>7
  <1> QED BY <1>1, SyncInvariant, PTL DEF Spec, OnlyRevertTakesStatusRoles

\* Only another handler changes the status of a profile without a BSA ID: every member
\* that a Sync or a Revert writes is one of the roster's.
THEOREM ManualIsSpared == Spec => ManualStaysActive
  <1> DEFINE Kept == \A p \in Manual : row'[p].status # row[p].status =>
                        \E r \in Requests : req[r].op # "sync" /\ req'[r] # req[r]
  <1>1. SyncInv /\ [Next]_vars => [Kept]_vars
    <2> SUFFICES ASSUME SyncInv, Next, NEW p \in Manual, row'[p].status # row[p].status
                 PROVE  \E r \in Requests : req[r].op # "sync" /\ req'[r] # req[r]
      BY DEF Kept
    <2>0. row \in [Profiles -> Row] /\ p \notin Members /\ p \in Profiles
      BY TableTypes, SetsAssumption DEF Profiles
    <2>1. ASSUME NEW r \in Requests, CreateProfile(r) \/ UpdateProfile(r) \/ Deactivate(r)
          PROVE  FALSE
      <3>1. /\ CreateProfile(r) \/ UpdateProfile(r) => req[r].profile \in Members
            /\ Deactivate(r) => req[r].todo \subseteq Members
        BY <2>1, RequestFields DEF CreateProfile, UpdateProfile, Deactivate, Sound
      <3>2. CASE CreateProfile(r) \/ UpdateProfile(r)
        <4>1. row'[p] = row[p]
          BY <2>0, <3>1, <3>2 DEF CreateProfile, UpdateProfile
        <4> QED BY <4>1
      <3>3. CASE Deactivate(r)
        <4>1. PICK q \in req[r].todo :
                row' = [row EXCEPT ![q] = [req[r].rows[q] EXCEPT !.status = "inactive"]]
          BY <3>3 DEF Deactivate
        <4>2. row'[p] = row[p]
          BY <2>0, <3>1, <3>3, <4>1
        <4> QED BY <4>2
      <3> QED BY <2>1, <3>2, <3>3
    <2>2. ASSUME NEW r \in Requests, RestoreProfile(r) PROVE FALSE
      <3>1. req[r].profile \in Members
        BY <2>2, RequestFields DEF RestoreProfile, Sound
      <3>2. row'[p] = row[p]
        BY <2>0, <2>2, <3>1 DEF RestoreProfile
      <3> QED BY <3>2
    <2>3. ASSUME NEW r \in Requests, ToggleProfileStatus(r) \/ LinkUser(r)
          PROVE  req[r].op # "sync" /\ req'[r] # req[r]
      <3>1. req[r].op # "sync" /\ req[r].stage # "idle"
        BY <2>3, RequestFields DEF ToggleProfileStatus, LinkUser, Sound
      <3>2. req'[r].stage = "idle"
        BY <2>3, FinishType, TableTypes DEF ToggleProfileStatus, LinkUser
      <3> QED BY <3>1, <3>2
    <2>4. ASSUME NEW r \in Requests,
                 \/ Begin(r) \/ ReadMember(r) \/ ListActive(r) \/ EndSync(r) \/ ReadRoles(r)
                 \/ ChangeRole(r) \/ UndoRole(r) \/ AssignStatusRole(r) \/ Answer(r)
                 \/ StatementFails(r)
          PROVE  FALSE
      <3>1. row' = row
        BY <2>4 DEF Begin, BeginSync, BeginRevert, BeginToggle, BeginComplete, ReadMember,
                    ListActive, EndSync, ReadRoles, ChangeRole, UndoRole, AssignStatusRole,
                    Answer, StatementFails
      <3> QED BY <3>1
    <2> QED BY <2>1, <2>2, <2>3, <2>4 DEF Next, Serve
  <1> QED BY <1>1, SyncInvariant, PTL DEF Spec, ManualStaysActive

-----------------------------------------------------------------------------
(***************************************************************************)
(* One handler at a time, and any number of failures.  SerialInv says what *)
(* a Sync has done, that nothing changes the rows it has read, and what    *)
(* its page is good for, until another handler touches a member.           *)
(***************************************************************************)

\* A profile and the roles of its user, as before keeps them.
Present(m) == [row |-> row[m], roles |-> RolesOf(row[m].user)]

\* A listed member is as the roster wants it.
Applied(now, entry) ==
    /\ now.row = Listed(now.row, entry)
    /\ now.row.user # NoUser => /\ entry.positions \subseteq now.roles
                                /\ now.roles \subseteq entry.positions \union StatusRoles

\* ReconcileRoles has names left to give and take, on the way to target.
Between(now, target, added, removed, names) ==
    /\ added \subseteq target
    /\ removed \intersect target = {}
    /\ target \ (names \intersect added) \subseteq now
    /\ names \intersect removed \subseteq now
    /\ now \subseteq (target \ (names \intersect added)) \union (names \intersect removed) \union StatusRoles

\* Taking an entry of the report back leads to the past, but for the status roles that it
\* names, also when a part of it has been taken back already.
Undoes(now, past, entry) ==
    /\ entry.old = past.row
    /\ now.row.user = past.row.user
    /\ entry.added \intersect entry.removed = {}
    /\ IF now.row.user = NoUser THEN past.roles = {}
       ELSE past.roles \ (StatusRoles \intersect entry.added)
              = (now.roles \ entry.added) \union entry.removed

\* The stages of a Sync that hold one member.
Current == {"create", "readRoles", "changeRoles"}

\* Profiles do not share a user, and one that does not exist has none.
UsersApart ==
    /\ \A p \in Profiles : row[p].status = "none" => row[p] = NoRow
    /\ \A p, s \in Profiles : row[p].user = row[s].user /\ row[p].user # NoUser => p = s

\* What a handler has read is what the table holds.
RowsAsRead(r) ==
    /\ req[r].op = "complete" => req[r].user \in Users
    /\ \A p \in Profiles :
        /\ p = req[r].profile =>
             /\ req[r].stage \in {"toggle", "enrol", "readRoles", "changeRoles", "restore"} =>
                    req[r].row = row[p] /\ row[p].status # "none"
             /\ req[r].stage = "create" => row[p].status = "none"
             /\ \/ req[r].op = "sync" /\ req[r].stage \in Current
                \/ req[r].stage \in {"restore", "undoRoles"}
                => req[r].user = row[p].user
        /\ req[r].op = "complete" => row[p].user # req[r].user
        /\ req[r].stage = "deactivate" /\ p \in req[r].todo =>
             req[r].rows[p] = row[p] /\ row[p].status = "active"

\* A Sync has applied the roster to the listed members it has come past, and in the end
\* holds the others that are still active.
SyncSoFar(r) ==
    req[r].op = "sync" =>
      \A m \in Members :
        /\ /\ req[r].roster[m].kind # "none"
           /\ m \notin req[r].todo
           /\ ~ (req[r].stage \in Current /\ m = req[r].profile)
           => Applied(Present(m), req[r].roster[m])
        /\ req[r].stage = "changeRoles" /\ m = req[r].profile /\ row[m].user # NoUser =>
             Between(Present(m).roles, req[r].roster[m].positions,
                     req[r].added, req[r].removed, req[r].names)
        /\ /\ req[r].stage \in {"deactivate", "answer"}
           /\ req[r].roster[m].kind = "none" /\ row[m].status = "active"
           => m \in req[r].todo
        /\ req[r].stage = "deactivate" /\ m \in req[r].todo => req[r].roster[m].kind = "none"
        /\ req[r].stage = "answer" => m \notin req[r].todo

\* Its page says how to undo what it has done to each member.
PageUndoes(r) ==
    req[r].op = "sync" =>
      \A m \in Members :
        /\ req[r].page[m] # NoReport => Undoes(Present(m), before[m], req[r].page[m])
        /\ \/ m \in req[r].todo
           \/ req[r].roster[m].kind = "none" /\ req[r].stage \in Current \union {"members"}
           => req[r].page[m] = NoReport /\ Present(m) = before[m]
        /\ req[r].stage \in Current /\ m = req[r].profile =>
             /\ m \notin req[r].todo /\ req[r].page[m] = NoReport
             /\ req[r].stage = "readRoles" => Present(m) = before[m]
             /\ req[r].stage = "changeRoles" =>
                  Undoes(Present(m), before[m],
                         [old |-> req[r].row, added |-> req[r].added \ req[r].names,
                          removed |-> req[r].removed \ req[r].names])
             /\ req[r].stage = "changeRoles" => req[r].added \intersect req[r].removed = {}

\* The last page still does, unless another handler has touched the member; and a Revert
\* that has restored the row has the roles of names left to undo.
ReportUndoes(r) ==
    req[r].op # "sync" =>
      \A m \in Members :
        /\ before[m] # NoPast => Undoes(Present(m), before[m], report[m])
        /\ m = req[r].profile =>
             /\ req[r].op \in {"toggle", "complete"} => before[m] = NoPast
             /\ req[r].stage = "restore" =>
                    req[r].page[m] = report[m] /\ report[m].old.status # "none"
             /\ req[r].stage = "undoRoles" /\ before[m] # NoPast =>
                  /\ row[m] = before[m].row
                  /\ req[r].added = report[m].added /\ req[r].removed = report[m].removed
                  /\ row[m].user # NoUser =>
                       /\ (req[r].added \ req[r].names) \intersect Present(m).roles = {}
                       /\ req[r].removed \ req[r].names \subseteq Present(m).roles
             /\ req[r].op = "revert" /\ req[r].stage = "answer" /\ before[m] # NoPast =>
                  /\ row[m] = before[m].row
                  /\ Present(m).roles = before[m].roles \ (StatusRoles \intersect req[r].added)

SerialInv ==
    /\ UsersApart
    /\ \A r \in Requests : /\ RowsAsRead(r) /\ SyncSoFar(r) /\ PageUndoes(r) /\ ReportUndoes(r)
                           /\ req[r].stage = "answer" => req[r].op = "sync" \/ req[r].profile \in Members

\* No member is touched where neither its row nor the roles of its user change.
LEMMA Untouched ==
  ASSUME NEW m, row'[m] = row[m], row[m].user # NoUser => roles'[row[m].user] = roles[row[m].user]
  PROVE  Present(m)' = Present(m)
  BY DEF Present, RolesOf

\* To change the roles of a user touches the profile of that user only.
LEMMA OthersUntouched ==
  ASSUME SyncInv, NEW u \in Users, NEW held, roles' = [roles EXCEPT ![u] = held], UNCHANGED row,
         NEW m \in Profiles, row[m].user # u
  PROVE  Present(m)' = Present(m)
  <1>1. row[m].user # NoUser => row[m].user \in Users
    BY TableTypes DEF Row
  <1> QED BY <1>1, TableTypes, Untouched

LEMMA PresentType ==
  ASSUME SyncInv, NEW m \in Profiles
  PROVE  /\ Present(m) \in Past /\ Present(m).row = row[m]
         /\ row[m].user = NoUser => Present(m).roles = {}
         /\ row[m].user # NoUser => row[m].user \in Users /\ Present(m).roles = roles[row[m].user]
  <1>1. row[m] \in Row /\ row[m].user \in Users \union {NoUser}
    BY TableTypes DEF Row
  <1> QED BY <1>1, TableTypes, SetsAssumption DEF Present, RolesOf, Past

LEMMA ListedRow ==
  ASSUME NEW old \in Row, NEW entry \in Entry
  PROVE  /\ Listed(old, entry).status = "active" /\ Listed(old, entry).user = old.user
         /\ Listed(old, entry).positions = entry.positions
         /\ Listed(Listed(old, entry), entry) = Listed(old, entry)
  BY DEF Row, Listed

LEMMA ApartAsBefore ==
  ASSUME SyncInv, UsersApart, NEW p \in Profiles, NEW new \in Row,
         row' = [row EXCEPT ![p] = new],
         row[p].status # "none", new.status # "none",
         \A s \in Profiles : s # p /\ new.user # NoUser => row[s].user # new.user
  PROVE  UsersApart'
  <1>1. row'[p] = new /\ \A s \in Profiles : s # p => row'[s] = row[s]
    BY TableTypes
  <1> QED BY <1>1 DEF UsersApart

\* The handler in flight is the only one, and what is to show depends on whether it is a
\* synchronisation.
LEMMA InSync ==
  ASSUME \A s, t \in Requests : s = t, NEW r \in Requests, req'[r].op = "sync",
         UsersApart', RowsAsRead(r)', SyncSoFar(r)', PageUndoes(r)'
  PROVE  SerialInv'
  <1>1. ReportUndoes(r)'
    BY DEF ReportUndoes
  <1> QED BY <1>1 DEF SerialInv

LEMMA Elsewhere ==
  ASSUME \A s, t \in Requests : s = t, NEW r \in Requests, req'[r].op # "sync",
         UsersApart', RowsAsRead(r)', ReportUndoes(r)',
         req'[r].stage = "answer" => req'[r].profile \in Members
  PROVE  SerialInv'
  <1>1. SyncSoFar(r)' /\ PageUndoes(r)'
    BY DEF SyncSoFar, PageUndoes
  <1> QED BY <1>1 DEF SerialInv

LEMMA Rests ==
  ASSUME \A s, t \in Requests : s = t, SyncInv, NEW r \in Requests, Finish(r), UsersApart',
         \A m \in Members : before'[m] # NoPast => Undoes(Present(m)', before'[m], report'[m])
  PROVE  SerialInv'
  <1>1. req'[r] = Idle
    BY TableTypes DEF Finish
  <1>2. Idle.op = "none" /\ Idle.stage = "idle"
    BY DEF Idle
  <1>3. RowsAsRead(r)' /\ ReportUndoes(r)'
    BY <1>1, <1>2 DEF RowsAsRead, ReportUndoes, Current
  <1> QED BY <1>1, <1>2, <1>3, Elsewhere

LEMMA BeginSerial ==
  ASSUME \A s, t \in Requests : s = t, SyncInv, SyncInv', SerialInv, NEW r \in Requests, Begin(r)
  PROVE  SerialInv'
  <1>0. /\ req[r] = Idle /\ UNCHANGED <<row, roles, report>>
        /\ UsersApart /\ RowsAsRead(r) /\ ReportUndoes(r) /\ Idle.op = "none"
        /\ \A m \in Members : Present(m)' = Present(m)
    <2>1. req[r] = Idle /\ UNCHANGED <<row, roles, report>>
      BY DEF Begin, BeginSync, BeginRevert, BeginToggle, BeginComplete
    <2>2. \A m \in Members : Present(m)' = Present(m)
      BY <2>1, Untouched
    <2> QED BY <2>1, <2>2 DEF SerialInv, Idle
  <1>1. UsersApart'
    BY <1>0 DEF UsersApart
  <1>2. \A m \in Members : before[m] # NoPast => Undoes(Present(m), before[m], report[m])
    BY <1>0 DEF ReportUndoes
  <1>3. ASSUME BeginSync(r) PROVE SerialInv'
    <2>1. PICK roster \in Rosters :
            req' = [req EXCEPT ![r] =
              [Idle EXCEPT !.stage = "members", !.op = "sync",
                           !.roster = Deduplicate(roster.adults, roster.youths),
                           !.todo = {m \in Members :
                              Deduplicate(roster.adults, roster.youths)[m].kind # "none"}]]
      BY <1>3 DEF BeginSync
    <2> DEFINE entries == Deduplicate(roster.adults, roster.youths)
    <2>2. /\ req'[r].stage = "members" /\ req'[r].op = "sync" /\ req'[r].roster = entries
          /\ req'[r].todo = {m \in Members : entries[m].kind # "none"}
          /\ \A m \in Members : req'[r].page[m] = NoReport
      BY <2>1, TableTypes DEF Idle
    <2> HIDE DEF entries
    <2>3. \A m \in Members : before'[m] = Present(m)
      BY <1>3 DEF BeginSync, Present
    <2>4. RowsAsRead(r)'
      BY <2>2 DEF RowsAsRead, Current
    <2>5. SyncSoFar(r)'
      BY <2>2 DEF SyncSoFar
    <2>6. PageUndoes(r)'
      BY <1>0, <2>2, <2>3 DEF PageUndoes, Current
    <2> QED BY <1>1, <2>2, <2>4, <2>5, <2>6, InSync
  <1>4. ASSUME NEW n \in Members, BeginRevert(r, n) PROVE SerialInv'
    <2>1. /\ req'[r].stage = "restore" /\ req'[r].op = "revert" /\ req'[r].profile = n
          /\ req'[r].row = row[n] /\ req'[r].user = row[n].user /\ row[n].status # "none"
          /\ req'[r].page[n] = report[n] /\ report[n].old.status # "none" /\ UNCHANGED before
      <3>1. Idle.page \in [Members -> Report]
        BY ConstantTypes
      <3> QED BY <1>4, <3>1, TableTypes DEF BeginRevert, Idle
    <2>2. RowsAsRead(r)'
      BY <1>0, <2>1 DEF RowsAsRead
    <2>3. ReportUndoes(r)'
      BY <1>0, <1>2, <2>1 DEF ReportUndoes
    <2> QED BY <1>1, <2>1, <2>2, <2>3, Elsewhere
  <1>5. ASSUME NEW n \in Profiles, BeginToggle(r, n) \/ BeginComplete(r, n) PROVE SerialInv'
    <2>1. /\ req'[r].stage \in {"toggle", "enrol"} /\ req'[r].op \in {"toggle", "complete"}
          /\ req'[r].profile = n /\ req'[r].row = row[n] /\ row[n].status # "none"
          /\ req'[r].op = "complete" =>
                req'[r].user \in Users /\ \A p \in Profiles : row[p].user # req'[r].user
      <3>1. CASE BeginToggle(r, n)
        BY <3>1, TableTypes DEF BeginToggle, Idle
      <3>2. CASE BeginComplete(r, n)
        <4>1. PICK u \in Users :
                /\ Unused(u)
                /\ req' = [req EXCEPT ![r] = [Idle EXCEPT !.stage = "enrol", !.op = "complete",
                                                !.profile = n, !.row = row[n], !.user = u]]
          BY <3>2 DEF BeginComplete
        <4>2. row[n].status # "none" /\ \A p \in Profiles : row[p].user # u
          BY <3>2, <4>1 DEF BeginComplete, Unused
        <4> QED BY <4>1, <4>2, TableTypes DEF Idle
      <3> QED BY <1>5, <3>1, <3>2
    <2>2. \A m \in Members : before'[m] = IF m = n THEN NoPast ELSE before[m]
      BY <1>5 DEF BeginToggle, BeginComplete, Forget
    <2>3. RowsAsRead(r)'
      BY <1>0, <2>1 DEF RowsAsRead, Current
    <2>4. ReportUndoes(r)'
      BY <1>0, <1>2, <2>1, <2>2 DEF ReportUndoes
    <2> QED BY <1>1, <2>1, <2>3, <2>4, Elsewhere
  <1> QED BY <1>3, <1>4, <1>5 DEF Begin

\* What a step of the handler starts from.
LEMMA SerialFields ==
  ASSUME SerialInv, NEW r \in Requests
  PROVE  /\ UsersApart /\ RowsAsRead(r) /\ SyncSoFar(r) /\ PageUndoes(r) /\ ReportUndoes(r)
         /\ req[r].stage = "answer" => req[r].op = "sync" \/ req[r].profile \in Members
  BY DEF SerialInv

\* On to the next member, when the present one is as the roster wants it and the page
\* says how it was.
LEMMA NextMemberSerial ==
  ASSUME \A s, t \in Requests : s = t, SyncInv, SerialInv, NEW r \in Requests,
         NEW n \in Members, n = req[r].profile, req[r].op = "sync", req[r].stage \in Current,
         req[r].roster[n].kind # "none",
         \A p \in Profiles : p # n => row'[p] = row[p],
         row'[n].user = row[n].user, row'[n].status # "none", roles' = roles, before' = before,
         Applied(Present(n)', req[r].roster[n]),
         NEW page, NextMember(r, page), \A m \in Members : m # n => page[m] = req[r].page[m],
         page[n] # NoReport => Undoes(Present(n)', before[n], page[n])
  PROVE  SerialInv'
  <1>1. /\ req'[r].stage = "members" /\ req'[r].op = "sync" /\ req'[r].page = page
        /\ req'[r].roster = req[r].roster /\ req'[r].todo = req[r].todo
    BY TableTypes DEF NextMember, Idle
  <1>2. n \in Profiles /\ \A p \in Profiles : p # n => row'[p] = row[p]
    BY TableTypes
  <1>3. \A m \in Members : m # n => Present(m)' = Present(m)
    BY <1>2, TableTypes, Untouched
  <1>4. UsersApart'
    BY <1>2, SerialFields DEF UsersApart
  <1>5. RowsAsRead(r)'
    BY <1>1 DEF RowsAsRead, Current
  <1>6. SyncSoFar(r)'
    <2> SUFFICES ASSUME NEW m \in Members, req[r].roster[m].kind # "none", m \notin req[r].todo
                 PROVE  Applied(Present(m)', req[r].roster[m])
      BY <1>1 DEF SyncSoFar
    <2>1. CASE m = n
      BY <2>1
    <2>2. CASE m # n
      BY <1>3, <2>2, SerialFields DEF SyncSoFar
    <2> QED BY <2>1, <2>2
  <1>7. PageUndoes(r)'
    <2> SUFFICES ASSUME NEW m \in Members
                 PROVE  /\ page[m] # NoReport => Undoes(Present(m)', before'[m], page[m])
                        /\ m \in req[r].todo \/ req[r].roster[m].kind = "none" =>
                             page[m] = NoReport /\ Present(m)' = before'[m]
      BY <1>1 DEF PageUndoes, Current
    <2>1. CASE m = n
      <3>1. m \notin req[r].todo
        BY <2>1, SerialFields DEF PageUndoes
      <3> QED BY <2>1, <3>1
    <2>2. CASE m # n
      BY <1>3, <2>2, SerialFields DEF PageUndoes
    <2> QED BY <2>1, <2>2
  <1> QED BY <1>1, <1>4, <1>5, <1>6, <1>7, InSync

LEMMA MembersSerial ==
  ASSUME \A s, t \in Requests : s = t, SyncInv, SyncInv', SerialInv, NEW r \in Requests,
         ReadMember(r) \/ CreateProfile(r) \/ UpdateProfile(r)
  PROVE  SerialInv'
  <1>0. /\ req[r] \in Sound /\ req[r] \in RequestRecord
        /\ UsersApart /\ RowsAsRead(r) /\ SyncSoFar(r) /\ PageUndoes(r)
    BY RequestFields, SerialFields
  <1>1. ASSUME ReadMember(r) PROVE SerialInv'
    <2>1. PICK n \in req[r].todo :
            req' = [req EXCEPT ![r].todo = @ \ {n}, ![r].profile = n, ![r].row = row[n],
                      ![r].user = row[n].user,
                      ![r].stage = IF row[n].status = "none" THEN "create"
                                   ELSE IF row[n].user # NoUser THEN "readRoles"
                                   ELSE "changeRoles"]
      BY <1>1 DEF ReadMember
    <2>2. /\ req[r].stage = "members" /\ req[r].op = "sync" /\ n \in Members
          /\ req[r].removed = {} /\ req[r].names = {} /\ req[r].roster[n].kind # "none"
          /\ UNCHANGED <<row, roles, report, before>>
      BY <1>0, <1>1 DEF ReadMember, Sound
    <2>3. /\ req'[r].todo = req[r].todo \ {n} /\ req'[r].profile = n /\ req'[r].row = row[n]
          /\ req'[r].user = row[n].user /\ req'[r].op = "sync" /\ req'[r].removed = {}
          /\ req'[r].names = {} /\ req'[r].roster = req[r].roster /\ req'[r].page = req[r].page
          /\ req'[r].stage \in Current
          /\ req'[r].stage = "create" <=> row[n].status = "none"
          /\ req'[r].stage = "changeRoles" => row[n].user = NoUser
      BY <1>0, <2>1, <2>2, TableTypes DEF RequestRecord, Current
    <2>4. \A m \in Members : Present(m)' = Present(m)
      BY <2>2, Untouched
    <2>5. UsersApart'
      BY <1>0, <2>2 DEF UsersApart
    <2>6. RowsAsRead(r)'
      BY <2>2, <2>3 DEF RowsAsRead, Current
    <2>7. SyncSoFar(r)'
      <3> SUFFICES ASSUME NEW m \in Members
                   PROVE  /\ req[r].roster[m].kind # "none" /\ m \notin req'[r].todo /\ m # n =>
                               Applied(Present(m), req[r].roster[m])
                          /\ ~ (req'[r].stage = "changeRoles" /\ m = n /\ row[m].user # NoUser)
        BY <2>2, <2>3, <2>4 DEF SyncSoFar, Current
      <3> QED BY <1>0, <2>2, <2>3 DEF SyncSoFar, Current
    <2>8. PageUndoes(r)'
      <3>1. req[r].page[n] = NoReport /\ Present(n) = before[n]
        BY <1>0, <2>1, <2>2 DEF PageUndoes
      <3>2. req'[r].stage = "changeRoles" =>
              Undoes(Present(n), before[n],
                     [old |-> row[n], added |-> req'[r].added \ {}, removed |-> {}])
        <4>1. n \in Profiles /\ Present(n).row = row[n]
          BY <2>2, TableTypes, PresentType
        <4>2. row[n].user = NoUser => Present(n).roles = {}
          BY <4>1, PresentType
        <4> QED BY <2>3, <3>1, <4>1, <4>2 DEF Undoes
      <3> SUFFICES ASSUME NEW m \in Members
                   PROVE  /\ req[r].page[m] # NoReport => Undoes(Present(m), before[m], req[r].page[m])
                          /\ \/ m \in req[r].todo \ {n}
                             \/ req[r].roster[m].kind = "none"
                             => req[r].page[m] = NoReport /\ Present(m) = before[m]
        BY <2>2, <2>3, <2>4, <3>1, <3>2 DEF PageUndoes
      <3> QED BY <1>0, <2>2, <2>3 DEF PageUndoes
    <2> QED BY <2>3, <2>5, <2>6, <2>7, <2>8, InSync
  <1>2. ASSUME CreateProfile(r) PROVE SerialInv'
    <2>1. PICK n \in Members : n = req[r].profile
      BY <1>0, <1>2 DEF CreateProfile, Sound
    <2>2. PICK new : new = Listed(NoRow, req[r].roster[n])
      OBVIOUS
    <2>3. /\ req[r].stage = "create" /\ req[r].op = "sync" /\ req[r].stage \in Current
          /\ req[r].roster[n].kind # "none" /\ req[r].roster[n] \in Entry
          /\ roles' = roles /\ before' = before /\ n \in Profiles
      BY <1>0, <1>2, <2>1, RequestFields, TableTypes DEF CreateProfile, Sound, Current
    <2>4. row[n].status = "none" /\ row[n] = NoRow /\ NoRow.user = NoUser
      BY <1>0, <2>1, <2>3 DEF RowsAsRead, UsersApart, NoRow
    <2>5. new \in Row /\ new.status = "active" /\ new.user = NoUser
          /\ Listed(new, req[r].roster[n]) = new
      BY <2>2, <2>3, <2>4, ListedRow, RowType, ConstantTypes
    <2>6. row' = [row EXCEPT ![n] = new] /\ NextMember(r, req[r].page)
      BY <1>2, <2>1, <2>2, <2>4 DEF CreateProfile
    <2>7. Present(n)'.row = new
      BY <2>3, <2>6, TableTypes DEF Present
    <2>8. Applied(Present(n)', req[r].roster[n])
      BY <2>5, <2>7 DEF Applied
    <2>9. PICK page : page = req[r].page
      OBVIOUS
    <2>10. req[r].page[n] = NoReport
      BY <1>0, <2>1, <2>3 DEF PageUndoes
    <2>11. page[n] = NoReport /\ \A m \in Members : m # n => page[m] = req[r].page[m]
      BY <2>9, <2>10
    <2>12. NextMember(r, page)
      BY <2>6, <2>9
    <2>13. /\ row'[n].user = row[n].user /\ row'[n].status # "none"
           /\ \A p \in Profiles : p # n => row'[p] = row[p]
      BY <2>3, <2>4, <2>5, <2>6, TableTypes
    <2> QED BY <2>1, <2>3, <2>8, <2>11, <2>12, <2>13, NextMemberSerial
  <1>3. ASSUME UpdateProfile(r) PROVE SerialInv'
    <2>1. PICK n \in Members : n = req[r].profile
      BY <1>0, <1>3 DEF UpdateProfile, Sound
    <2>2. PICK new : new = Listed(req[r].row, req[r].roster[n])
      OBVIOUS
    <2>3. PICK entry :
            entry = IF new # req[r].row \/ req[r].added # {} \/ req[r].removed # {}
                    THEN [old |-> req[r].row, added |-> req[r].added, removed |-> req[r].removed]
                    ELSE NoReport
      OBVIOUS
    <2>4. PICK page : page = [req[r].page EXCEPT ![n] = entry]
      OBVIOUS
    <2>5. /\ req[r].stage = "changeRoles" /\ req[r].op = "sync" /\ req[r].stage \in Current
          /\ req[r].names = {} /\ req[r].roster[n].kind # "none" /\ req[r].roster[n] \in Entry
          /\ roles' = roles /\ before' = before /\ n \in Profiles
      <3>1. /\ req[r].stage = "changeRoles" /\ req[r].op = "sync" /\ req[r].names = {}
            /\ UNCHANGED <<roles, before>>
        BY <1>3 DEF UpdateProfile
      <3>2. req[r].roster[n].kind # "none"
        BY <1>0, <2>1, <3>1 DEF Sound
      <3> QED BY <2>1, <3>1, <3>2, RequestFields, TableTypes DEF Current
    <2>6. req[r].row = row[n] /\ row[n].status # "none" /\ row[n] \in Row
      BY <1>0, <2>1, <2>5, TableTypes DEF RowsAsRead
    <2>7. /\ new \in Row /\ new.status = "active" /\ new.user = row[n].user
          /\ Listed(new, req[r].roster[n]) = new
      BY <2>2, <2>5, <2>6, ListedRow, RowType
    <2>8. row' = [row EXCEPT ![n] = new]
      BY <1>3, <2>1, <2>2, <2>6, TableTypes DEF UpdateProfile
    <2>9. NextMember(r, page)
      BY <1>3, <2>1, <2>2, <2>3, <2>4 DEF UpdateProfile
    <2>10. page[n] = entry /\ \A m \in Members : m # n => page[m] = req[r].page[m]
      BY <2>4, RequestFields
    <2>11. Present(n)'.row = new /\ Present(n)'.roles = Present(n).roles
      BY <2>5, <2>7, <2>8, TableTypes DEF Present, RolesOf
    <2>12. Applied(Present(n)', req[r].roster[n])
      <3>1. ASSUME row[n].user # NoUser
            PROVE  /\ req[r].roster[n].positions \subseteq Present(n).roles
                   /\ Present(n).roles \subseteq req[r].roster[n].positions \union StatusRoles
        <4>1. Between(Present(n).roles, req[r].roster[n].positions, req[r].added, req[r].removed, {})
          BY <1>0, <2>1, <2>5, <3>1 DEF SyncSoFar
        <4> QED BY <4>1 DEF Between
      <3> QED BY <2>7, <2>11, <3>1 DEF Applied
    <2>13. ASSUME entry # NoReport PROVE Undoes(Present(n)', before[n], entry)
      <3>1. entry = [old |-> req[r].row, added |-> req[r].added, removed |-> req[r].removed]
        BY <2>3, <2>13
      <3>2. /\ Undoes(Present(n), before[n],
                      [old |-> req[r].row, added |-> req[r].added \ req[r].names,
                       removed |-> req[r].removed \ req[r].names])
            /\ req[r].added \intersect req[r].removed = {}
        BY <1>0, <2>1, <2>5 DEF PageUndoes
      <3>3. Present(n).row.user = row[n].user
        BY DEF Present
      <3>4. entry.old = req[r].row /\ entry.added = req[r].added /\ entry.removed = req[r].removed
        BY <3>1
      <3>5. Present(n)'.row.user = Present(n).row.user
        BY <2>7, <2>11, <3>3
      <3>6. req[r].added \ req[r].names = req[r].added /\ req[r].removed \ req[r].names = req[r].removed
        BY <2>5
      <3> QED BY <2>11, <3>2, <3>4, <3>5, <3>6 DEF Undoes
    <2>14. page[n] # NoReport => Undoes(Present(n)', before[n], page[n])
      BY <2>10, <2>13
    <2>15. /\ row'[n].user = row[n].user /\ row'[n].status # "none"
           /\ \A p \in Profiles : p # n => row'[p] = row[p]
      BY <2>5, <2>7, <2>8, TableTypes
    <2> QED BY <2>1, <2>5, <2>9, <2>10, <2>12, <2>14, <2>15, NextMemberSerial
  <1> QED BY <1>1, <1>2, <1>3

LEMMA DeactivateSerial ==
  ASSUME \A s, t \in Requests : s = t, SyncInv, SyncInv', SerialInv, NEW r \in Requests,
         ListActive(r) \/ Deactivate(r) \/ EndSync(r)
  PROVE  SerialInv'
  <1>0. /\ req[r] \in Sound /\ req[r] \in RequestRecord
        /\ UsersApart /\ RowsAsRead(r) /\ SyncSoFar(r) /\ PageUndoes(r)
        /\ req[r].op = "sync" /\ \A m \in Members : m \in Profiles
    BY RequestFields, SerialFields, TableTypes DEF ListActive, Deactivate, EndSync, Sound
  <1>1. ASSUME ListActive(r) PROVE SerialInv'
    <2>1. /\ req[r].stage = "members" /\ req[r].todo = {}
          /\ UNCHANGED <<row, roles, report, before>>
          /\ req'[r].stage = "deactivate" /\ req'[r].todo = Missing(r)
          /\ \A p \in Profiles : req'[r].rows[p] = IF p \in Missing(r) THEN row[p] ELSE NoRow
          /\ UNCHANGED <<req[r].op, req[r].roster, req[r].page>>
      BY <1>0, <1>1, TableTypes DEF ListActive, RequestRecord
    <2>2. \A m \in Members : Present(m)' = Present(m)
      BY <2>1, Untouched
    <2>3. UsersApart'
      BY <1>0, <2>1 DEF UsersApart
    <2>4. RowsAsRead(r)'
      BY <1>0, <2>1 DEF RowsAsRead, Current, Missing
    <2>5. SyncSoFar(r)'
      BY <1>0, <2>1, <2>2 DEF SyncSoFar, Current, Missing
    <2>6. PageUndoes(r)'
      <3> SUFFICES ASSUME NEW m \in Members
                   PROVE  /\ req[r].page[m] # NoReport => Undoes(Present(m), before[m], req[r].page[m])
                          /\ m \in Missing(r) => req[r].page[m] = NoReport /\ Present(m) = before[m]
        BY <2>1, <2>2 DEF PageUndoes, Current
      <3> QED BY <1>0, <2>1 DEF PageUndoes, Missing
    <2> QED BY <1>0, <2>1, <2>3, <2>4, <2>5, <2>6, InSync
  <1>2. ASSUME Deactivate(r) PROVE SerialInv'
    <2>1. PICK p \in req[r].todo :
            /\ row' = [row EXCEPT ![p] = [req[r].rows[p] EXCEPT !.status = "inactive"]]
            /\ req' = [req EXCEPT ![r].todo = @ \ {p}, ![r].rows[p] = NoRow,
                         ![r].page = [m \in Members |->
                            IF m = p THEN [NoReport EXCEPT !.old = req[r].rows[p]]
                                     ELSE req[r].page[m]]]
      BY <1>2 DEF Deactivate
    <2>2. /\ req[r].stage = "deactivate" /\ p \in Members /\ p \in Profiles
          /\ req[r].rows[p] = row[p] /\ row[p].status = "active"
          /\ req[r].roster[p].kind = "none" /\ row[p] \in Row
          /\ roles' = roles /\ before' = before
      <3>1. req[r].stage = "deactivate" /\ UNCHANGED <<roles, before>>
        BY <1>2 DEF Deactivate
      <3>2. p \in Members /\ p \in Profiles
        BY <1>0, <2>1 DEF Sound
      <3>3. req[r].rows[p] = row[p] /\ row[p].status = "active"
        BY <1>0, <2>1, <3>1, <3>2 DEF RowsAsRead
      <3>4. req[r].roster[p].kind = "none"
        BY <1>0, <2>1, <3>1, <3>2 DEF SyncSoFar
      <3> QED BY <3>1, <3>2, <3>3, <3>4, TableTypes
    <2>3. /\ req'[r].todo = req[r].todo \ {p} /\ req'[r].stage = "deactivate"
          /\ req'[r].op = "sync" /\ req'[r].roster = req[r].roster
      BY <1>0, <2>1, <2>2, TableTypes DEF RequestRecord
    <2>4. \A s \in Profiles : s # p => req'[r].rows[s] = req[r].rows[s]
      BY <1>0, <2>1, <2>2, TableTypes DEF RequestRecord
    <2>5. \A m \in Members :
            req'[r].page[m] = IF m = p THEN [NoReport EXCEPT !.old = row[p]] ELSE req[r].page[m]
      BY <1>0, <2>1, <2>2, TableTypes DEF RequestRecord
    <2>6. /\ row' = [row EXCEPT ![p] = [row[p] EXCEPT !.status = "inactive"]]
          /\ [row[p] EXCEPT !.status = "inactive"] \in Row
          /\ row'[p].status = "inactive" /\ row'[p].user = row[p].user
          /\ \A s \in Profiles : s # p => row'[s] = row[s]
      BY <2>1, <2>2, TableTypes DEF Row
    <2>7. \A m \in Members : m # p => Present(m)' = Present(m)
      BY <1>0, <2>2, <2>6, Untouched
    <2>8. UsersApart'
      BY <1>0, <2>2, <2>6 DEF UsersApart
    <2>9. RowsAsRead(r)'
      BY <1>0, <2>2, <2>3, <2>4, <2>6 DEF RowsAsRead, Current
    <2>10. SyncSoFar(r)'
      BY <1>0, <2>2, <2>3, <2>6, <2>7 DEF SyncSoFar, Current
    <2>11. Undoes(Present(p)', before[p], [NoReport EXCEPT !.old = row[p]])
      <3>1. Present(p) = before[p]
        BY <1>0, <2>1, <2>2 DEF PageUndoes
      <3>2. Present(p).row = row[p] /\ (row[p].user = NoUser => Present(p).roles = {})
        BY <2>2, PresentType
      <3>3. Present(p)'.row.user = row[p].user /\ Present(p)'.roles = Present(p).roles
        BY <2>2, <2>6 DEF Present, RolesOf
      <3> QED BY <3>1, <3>2, <3>3 DEF Undoes, NoReport
    <2>12. PageUndoes(r)'
      <3> SUFFICES ASSUME NEW m \in Members
                   PROVE  /\ req'[r].page[m] # NoReport => Undoes(Present(m)', before[m], req'[r].page[m])
                          /\ m \in req'[r].todo => req'[r].page[m] = NoReport /\ Present(m)' = before[m]
        BY <2>2, <2>3 DEF PageUndoes, Current
      <3>1. CASE m = p
        BY <2>3, <2>5, <2>11, <3>1
      <3>2. CASE m # p
        BY <1>0, <2>3, <2>5, <2>7, <3>2 DEF PageUndoes
      <3> QED BY <3>1, <3>2
    <2> QED BY <2>3, <2>8, <2>9, <2>10, <2>12, InSync
  <1>3. ASSUME EndSync(r) PROVE SerialInv'
    <2>1. /\ req[r].stage = "deactivate" /\ req[r].todo = {}
          /\ UNCHANGED <<row, roles, report, before>>
          /\ req'[r].stage = "answer"
          /\ UNCHANGED <<req[r].op, req[r].todo, req[r].roster, req[r].page>>
      BY <1>0, <1>3, TableTypes DEF EndSync, GoTo, RequestRecord
    <2>2. \A m \in Members : Present(m)' = Present(m)
      BY <2>1, Untouched
    <2>3. UsersApart'
      BY <1>0, <2>1 DEF UsersApart
    <2>4. RowsAsRead(r)'
      BY <1>0, <2>1 DEF RowsAsRead, Current
    <2>5. SyncSoFar(r)'
      BY <1>0, <2>1, <2>2 DEF SyncSoFar, Current
    <2>6. PageUndoes(r)'
      BY <1>0, <2>1, <2>2 DEF PageUndoes, Current
    <2> QED BY <1>0, <2>1, <2>3, <2>4, <2>5, <2>6, InSync
  <1> QED BY <1>1, <1>2, <1>3

-----------------------------------------------------------------------------

\* ReconcileRoles gives a role: the way to the target is shorter, and the one back leads to
\* the same past, without the role when it is a status role, which may have been held.
LEMMA GiveRole ==
  ASSUME NEW now, NEW target, NEW added, NEW removed, NEW names,
         Between(now, target, added, removed, names),
         NEW name \in names, name \in added
  PROVE  /\ Between(now \union {name}, target, added, removed, names \ {name})
         /\ ((now \union {name}) \ (added \ (names \ {name}))) \union (removed \ (names \ {name}))
              = ((now \ (added \ names)) \union (removed \ names)) \ (StatusRoles \intersect {name})
  <1>1. name \in target /\ name \notin removed /\ (name \in now => name \in StatusRoles)
    BY DEF Between
  <1>2. Between(now \union {name}, target, added, removed, names \ {name})
    BY <1>1 DEF Between
  <1> QED BY <1>1, <1>2

\* It takes one, and the way back leads to the same past.
LEMMA TakeRole ==
  ASSUME NEW now, NEW target, NEW added, NEW removed, NEW names \in SUBSET (added \union removed),
         Between(now, target, added, removed, names), names \intersect added = {}, NEW name \in names
  PROVE  /\ Between(now \ {name}, target, added, removed, names \ {name})
         /\ ((now \ {name}) \ (added \ (names \ {name}))) \union (removed \ (names \ {name}))
              = (now \ (added \ names)) \union (removed \ names)
  <1>1. name \in removed /\ name \notin added /\ name \in now /\ name \notin target
    BY DEF Between
  <1>2. Between(now \ {name}, target, added, removed, names \ {name})
    BY <1>1 DEF Between
  <1> QED BY <1>1, <1>2

LEMMA ReadRolesSerial ==
  ASSUME \A s, t \in Requests : s = t, SyncInv, SyncInv', SerialInv, NEW r \in Requests, ReadRoles(r)
  PROVE  SerialInv'
  <1> DEFINE current == roles[req[r].user] \ StatusRoles
             added == TargetPositions(r) \ current
             removed == current \ TargetPositions(r)
  <1>1. /\ req[r] \in Sound /\ req[r] \in RequestRecord /\ req[r].stage = "readRoles"
        /\ UsersApart /\ RowsAsRead(r) /\ SyncSoFar(r) /\ PageUndoes(r) /\ ReportUndoes(r)
        /\ req[r].op \in {"sync", "complete"} /\ UNCHANGED <<row, roles, report, before>>
    BY RequestFields, SerialFields DEF ReadRoles, Sound
  <1>2. /\ req'[r].stage = "changeRoles" /\ req'[r].added = added /\ req'[r].removed = removed
        /\ req'[r].names = added \union removed
        /\ UNCHANGED <<req[r].op, req[r].profile, req[r].row, req[r].user, req[r].roster,
                       req[r].todo, req[r].page>>
    BY <1>1, TableTypes DEF ReadRoles, RequestRecord
  <1> HIDE DEF current, added, removed
  <1>3. \A m \in Members : Present(m)' = Present(m)
    BY <1>1, Untouched
  <1>4. UsersApart'
    BY <1>1 DEF UsersApart
  <1>5. RowsAsRead(r)'
    BY <1>1, <1>2 DEF RowsAsRead, Current
  <1>6. CASE req[r].op = "complete"
    <2>1. ReportUndoes(r)'
      BY <1>1, <1>2, <1>3, <1>6 DEF ReportUndoes
    <2> QED BY <1>2, <1>4, <1>5, <1>6, <2>1, Elsewhere
  <1>7. CASE req[r].op = "sync"
    <2>1. PICK n \in Members : n = req[r].profile
      BY <1>1, <1>7 DEF Sound
    <2>2. /\ n \in Profiles /\ row[n].user = req[r].user /\ req[r].row = row[n]
          /\ row[n].user \in Users /\ row[n].user # NoUser
          /\ current = Present(n).roles \ StatusRoles
          /\ TargetPositions(r) = req[r].roster[n].positions
      <3>1. n \in Profiles /\ row[n].user = req[r].user /\ req[r].row = row[n]
        BY <1>1, <1>7, <2>1, TableTypes DEF RowsAsRead, Current
      <3>2. req[r].user \in Users /\ req[r].user # NoUser
        BY <1>1, SetsAssumption DEF Sound
      <3> QED BY <1>7, <2>1, <3>1, <3>2, PresentType DEF current, TargetPositions
    <2>3. Between(Present(n).roles, req[r].roster[n].positions, added, removed, added \union removed)
      BY <2>2 DEF Between, added, removed
    <2>4. added \intersect removed = {}
      BY DEF added, removed
    <2>5. Undoes(Present(n), before[n], [old |-> req[r].row, added |-> added \ (added \union removed),
                                         removed |-> removed \ (added \union removed)])
      <3>1. Present(n) = before[n] /\ Present(n).row = row[n]
        BY <1>1, <1>7, <2>1, <2>2, PresentType DEF PageUndoes, Current
      <3>2. added \ (added \union removed) = {} /\ removed \ (added \union removed) = {}
        OBVIOUS
      <3> QED BY <2>2, <3>1, <3>2 DEF Undoes
    <2>6. SyncSoFar(r)'
      <3> SUFFICES ASSUME NEW m \in Members
                   PROVE  /\ /\ req[r].roster[m].kind # "none" /\ m \notin req[r].todo /\ m # n
                             => Applied(Present(m), req[r].roster[m])
                          /\ m = n => Between(Present(m).roles, req[r].roster[m].positions,
                                              added, removed, added \union removed)
        BY <1>1, <1>2, <1>3, <2>1 DEF SyncSoFar, Current
      <3> QED BY <1>1, <1>7, <2>1, <2>3 DEF SyncSoFar
    <2>7. PageUndoes(r)'
      <3> SUFFICES ASSUME NEW m \in Members
                   PROVE  /\ req[r].page[m] # NoReport => Undoes(Present(m), before[m], req[r].page[m])
                          /\ m \in req[r].todo \/ req[r].roster[m].kind = "none"
                             => req[r].page[m] = NoReport /\ Present(m) = before[m]
                          /\ m = n => m \notin req[r].todo /\ req[r].page[m] = NoReport
        BY <1>1, <1>2, <1>3, <2>1, <2>4, <2>5 DEF PageUndoes, Current
      <3> QED BY <1>1, <1>7, <2>1 DEF PageUndoes, Current
    <2> QED BY <1>2, <1>4, <1>5, <1>7, <2>6, <2>7, InSync
  <1> QED BY <1>1, <1>6, <1>7

LEMMA ChangeRoleSerial ==
  ASSUME \A s, t \in Requests : s = t, SyncInv, SyncInv', SerialInv, NEW r \in Requests, ChangeRole(r)
  PROVE  SerialInv'
  <1>1. /\ req[r] \in Sound /\ req[r] \in RequestRecord /\ req[r].stage = "changeRoles"
        /\ UsersApart /\ RowsAsRead(r) /\ SyncSoFar(r) /\ PageUndoes(r) /\ ReportUndoes(r)
        /\ req[r].op \in {"sync", "complete"} /\ UNCHANGED <<row, report, before>>
    BY RequestFields, SerialFields DEF ChangeRole, Sound
  <1>2. PICK name \in req[r].names :
          /\ req' = [req EXCEPT ![r].names = @ \ {name}]
          /\ \/ name \in req[r].added /\ AssignRoleToUser(req[r].user, name)
             \/ req[r].names \intersect req[r].added = {} /\ RemoveRoleFromUser(req[r].user, name)
    BY DEF ChangeRole
  <1>3. PICK u \in Users : u = req[r].user
    BY <1>1 DEF Sound
  <1>4. PICK held : roles' = [roles EXCEPT ![u] = held]
    BY <1>2, <1>3 DEF AssignRoleToUser, RemoveRoleFromUser
  <1>5. /\ req'[r].names = req[r].names \ {name}
        /\ UNCHANGED <<req[r].stage, req[r].op, req[r].profile, req[r].row, req[r].user,
                       req[r].roster, req[r].todo, req[r].page, req[r].added, req[r].removed>>
    BY <1>1, <1>2, TableTypes DEF RequestRecord
  <1>6. UsersApart'
    BY <1>1 DEF UsersApart
  <1>7. RowsAsRead(r)'
    BY <1>1, <1>5 DEF RowsAsRead, Current
  <1>8. \A m \in Members : m \in Profiles /\ (row[m].user # u => Present(m)' = Present(m))
    BY <1>1, <1>4, TableTypes, OthersUntouched
  <1>9. CASE req[r].op = "complete"
    <2>1. \A m \in Members : Present(m)' = Present(m)
      BY <1>1, <1>3, <1>8, <1>9 DEF RowsAsRead
    <2>2. ReportUndoes(r)'
      BY <1>1, <1>5, <1>9, <2>1 DEF ReportUndoes
    <2> QED BY <1>1, <1>5, <1>6, <1>7, <1>9, <2>2, Elsewhere
  <1>10. CASE req[r].op = "sync"
    <2>1. PICK n \in Members : n = req[r].profile
      BY <1>1, <1>10 DEF Sound
    <2>2. /\ n \in Profiles /\ row[n].user = u /\ row[n].user # NoUser
          /\ req[r].roster[n].positions \in SUBSET Positions
      BY <1>1, <1>3, <1>10, <2>1, TableTypes, RequestFields, SetsAssumption DEF RowsAsRead, Current, Entry
    <2>3. \A m \in Members : m # n => Present(m)' = Present(m)
      BY <1>1, <1>8, <2>2 DEF UsersApart
    <2>4. /\ Present(n)'.row = Present(n).row /\ Present(n).row = row[n]
          /\ Present(n).roles = roles[u] /\ Present(n)'.roles = roles'[u]
      BY <1>1, <2>2 DEF Present, RolesOf
    <2>5. Between(Present(n).roles, req[r].roster[n].positions,
                  req[r].added, req[r].removed, req[r].names)
      BY <1>1, <1>10, <2>1, <2>2 DEF SyncSoFar
    <2>6. /\ Between(roles'[u], req[r].roster[n].positions,
                     req[r].added, req[r].removed, req[r].names \ {name})
          /\ (roles'[u] \ (req[r].added \ (req[r].names \ {name})))
                 \union (req[r].removed \ (req[r].names \ {name}))
               = ((roles[u] \ (req[r].added \ req[r].names)) \union (req[r].removed \ req[r].names))
                   \ (StatusRoles \intersect {name} \intersect req[r].added)
      <3>1. CASE name \in req[r].added /\ AssignRoleToUser(req[r].user, name)
        <4>1. roles'[u] = roles[u] \union {name} /\ name \in req[r].added
          BY <1>3, <3>1, TableTypes DEF AssignRoleToUser
        <4>2. PICK now, target : now = roles[u] /\ target = req[r].roster[n].positions
          OBVIOUS
        <4>3. PICK added, removed, names : /\ added = req[r].added /\ removed = req[r].removed
                                           /\ names = req[r].names
          OBVIOUS
        <4>4. Between(now, target, added, removed, names) /\ target \in SUBSET Positions
          BY <2>2, <2>4, <2>5, <4>2, <4>3
        <4>5. name \in names /\ name \in added
          BY <1>2, <4>1, <4>3
        <4>6. /\ Between(now \union {name}, target, added, removed, names \ {name})
              /\ ((now \union {name}) \ (added \ (names \ {name}))) \union (removed \ (names \ {name}))
                   = ((now \ (added \ names)) \union (removed \ names)) \ (StatusRoles \intersect {name})
          BY <4>4, <4>5, GiveRole
        <4>7. StatusRoles \intersect {name} \intersect added = StatusRoles \intersect {name}
          BY <4>5
        <4> QED BY <4>1, <4>2, <4>3, <4>6, <4>7
      <3>2. CASE req[r].names \intersect req[r].added = {} /\ RemoveRoleFromUser(req[r].user, name)
        <4>1. roles'[u] = roles[u] \ {name} /\ req[r].names \in SUBSET (req[r].added \union req[r].removed)
          BY <1>3, <3>2, RequestFields, TableTypes DEF RemoveRoleFromUser
        <4>2. PICK now, target : now = roles[u] /\ target = req[r].roster[n].positions
          OBVIOUS
        <4>3. PICK added, removed, names : /\ added = req[r].added /\ removed = req[r].removed
                                           /\ names = req[r].names
          OBVIOUS
        <4>4. Between(now, target, added, removed, names) /\ names \in SUBSET (added \union removed)
          BY <2>4, <2>5, <4>1, <4>2, <4>3
        <4>5. name \in names /\ names \intersect added = {}
          BY <1>2, <3>2, <4>3
        <4>6. /\ Between(now \ {name}, target, added, removed, names \ {name})
              /\ ((now \ {name}) \ (added \ (names \ {name}))) \union (removed \ (names \ {name}))
                   = (now \ (added \ names)) \union (removed \ names)
          BY <4>4, <4>5, TakeRole
        <4>7. StatusRoles \intersect {name} \intersect added = {}
          BY <4>5
        <4> QED BY <4>1, <4>2, <4>3, <4>6, <4>7
      <3> QED BY <1>2, <3>1, <3>2
    <2>7. SyncSoFar(r)'
      <3> SUFFICES ASSUME NEW m \in Members
                   PROVE  /\ /\ req[r].roster[m].kind # "none" /\ m \notin req[r].todo /\ m # n
                             => Applied(Present(m)', req[r].roster[m])
                          /\ m = n => Between(Present(m)'.roles, req[r].roster[m].positions,
                                              req[r].added, req[r].removed, req[r].names \ {name})
        BY <1>1, <1>5, <2>1 DEF SyncSoFar, Current
      <3> QED BY <1>1, <1>10, <2>1, <2>3, <2>4, <2>6 DEF SyncSoFar
    <2>8. Undoes(Present(n)', before[n],
                 [old |-> req[r].row, added |-> req[r].added \ (req[r].names \ {name}),
                  removed |-> req[r].removed \ (req[r].names \ {name})])
          /\ req[r].added \intersect req[r].removed = {}
      <3>1. /\ Undoes(Present(n), before[n],
                      [old |-> req[r].row, added |-> req[r].added \ req[r].names,
                       removed |-> req[r].removed \ req[r].names])
            /\ req[r].added \intersect req[r].removed = {}
        BY <1>1, <1>10, <2>1 DEF PageUndoes, Current
      <3>2. (req[r].added \ (req[r].names \ {name})) \intersect (req[r].removed \ (req[r].names \ {name})) = {}
        BY <3>1
      <3>3. before[n].roles \ (StatusRoles \intersect (req[r].added \ (req[r].names \ {name})))
              = (before[n].roles \ (StatusRoles \intersect (req[r].added \ req[r].names)))
                  \ (StatusRoles \intersect {name} \intersect req[r].added)
        OBVIOUS
      <3> QED BY <2>2, <2>4, <2>6, <3>1, <3>2, <3>3 DEF Undoes
    <2>9. PageUndoes(r)'
      <3> SUFFICES ASSUME NEW m \in Members
                   PROVE  /\ req[r].page[m] # NoReport => Undoes(Present(m)', before[m], req[r].page[m])
                          /\ m \in req[r].todo \/ req[r].roster[m].kind = "none"
                             => req[r].page[m] = NoReport /\ Present(m)' = before[m]
                          /\ m = n => m \notin req[r].todo /\ req[r].page[m] = NoReport
        BY <1>1, <1>5, <2>1, <2>8 DEF PageUndoes, Current
      <3>1. CASE m = n
        BY <1>1, <1>10, <2>1, <3>1 DEF PageUndoes, Current, Sound
      <3>2. CASE m # n
        BY <1>1, <1>10, <2>3, <3>2 DEF PageUndoes, Current
      <3> QED BY <3>1, <3>2
    <2> QED BY <1>5, <1>6, <1>7, <1>10, <2>7, <2>9, InSync
  <1> QED BY <1>1, <1>9, <1>10

-----------------------------------------------------------------------------

LEMMA RestoreSerial ==
  ASSUME \A s, t \in Requests : s = t, SyncInv, SyncInv', SerialInv, NEW r \in Requests,
         RestoreProfile(r)
  PROVE  SerialInv'
  <1>1. /\ req[r] \in Sound /\ req[r] \in RequestRecord /\ req[r].stage = "restore"
        /\ req[r].op = "revert" /\ UsersApart /\ RowsAsRead(r) /\ ReportUndoes(r)
        /\ UNCHANGED <<roles, report, before>>
    BY RequestFields, SerialFields DEF RestoreProfile, Sound
  <1>2. PICK n \in Members : n = req[r].profile
    BY <1>1 DEF Sound
  <1>3. /\ n \in Profiles /\ req[r].row = row[n] /\ row[n].status # "none" /\ row[n] \in Row
        /\ req[r].user = row[n].user /\ req[r].page[n] = report[n]
        /\ report[n].old.status # "none" /\ report[n].old \in Row
    BY <1>1, <1>2, TableTypes DEF RowsAsRead, ReportUndoes, Report
  <1>4. /\ req'[r].stage = "undoRoles" /\ req'[r].added = report[n].added
        /\ req'[r].removed = report[n].removed
        /\ req'[r].names = IF row[n].user = NoUser THEN {} ELSE report[n].added \union report[n].removed
        /\ UNCHANGED <<req[r].op, req[r].profile, req[r].user>>
    BY <1>1, <1>2, <1>3, TableTypes DEF RestoreProfile, RequestRecord
  <1>5. PICK new \in Row : new = [report[n].old EXCEPT !.user = row[n].user]
    BY <1>3, RowType DEF Restored
  <1>6. /\ row' = [row EXCEPT ![n] = new] /\ row'[n] = new
        /\ \A p \in Profiles : p # n => row'[p] = row[p]
        /\ new.user = row[n].user /\ new.status # "none"
    BY <1>1, <1>2, <1>3, <1>5, TableTypes DEF RestoreProfile, Restored, Row
  <1>7. UsersApart'
    BY <1>1, <1>3, <1>6, ApartAsBefore DEF UsersApart
  <1>8. RowsAsRead(r)'
    BY <1>1, <1>2, <1>3, <1>4, <1>6 DEF RowsAsRead, Current
  <1>9. \A m \in Members : m # n => Present(m)' = Present(m)
    BY <1>1, <1>6, TableTypes, Untouched
  <1>10. Present(n)'.row = new /\ Present(n)'.roles = Present(n).roles /\ Present(n).row = row[n]
    BY <1>1, <1>6 DEF Present, RolesOf
  <1>11. ASSUME before[n] # NoPast
         PROVE  Undoes(Present(n)', before[n], report[n]) /\ new = before[n].row
    <2>1. Undoes(Present(n), before[n], report[n])
      BY <1>1, <1>11 DEF ReportUndoes
    <2>2. Undoes(Present(n)', before[n], report[n])
      BY <1>6, <1>10, <2>1 DEF Undoes
    <2>3. report[n].old = before[n].row /\ row[n].user = report[n].old.user
      BY <1>10, <2>1 DEF Undoes
    <2>4. new = report[n].old
      BY <1>3, <1>5, <2>3 DEF Row
    <2> QED BY <2>2, <2>3, <2>4
  <1>12. ReportUndoes(r)'
    <2> SUFFICES ASSUME NEW m \in Members
                 PROVE  /\ before[m] # NoPast => Undoes(Present(m)', before[m], report[m])
                        /\ m = n /\ before[m] # NoPast =>
                             /\ row'[m] = before[m].row
                             /\ row'[m].user # NoUser =>
                                  /\ (req'[r].added \ req'[r].names) \intersect Present(m)'.roles = {}
                                  /\ req'[r].removed \ req'[r].names \subseteq Present(m)'.roles
      BY <1>1, <1>2, <1>4 DEF ReportUndoes
    <2>1. CASE m = n
      BY <1>4, <1>6, <1>11, <2>1
    <2>2. CASE m # n
      BY <1>1, <1>9, <2>2 DEF ReportUndoes
    <2> QED BY <2>1, <2>2
  <1> QED BY <1>1, <1>4, <1>7, <1>8, <1>12, Elsewhere

LEMMA UndoRoleSerial ==
  ASSUME \A s, t \in Requests : s = t, SyncInv, SyncInv', SerialInv, NEW r \in Requests, UndoRole(r)
  PROVE  SerialInv'
  <1>1. /\ req[r] \in Sound /\ req[r] \in RequestRecord /\ req[r].stage = "undoRoles"
        /\ req[r].op = "revert" /\ UsersApart /\ RowsAsRead(r) /\ ReportUndoes(r)
        /\ UNCHANGED <<row, report, before>>
    BY RequestFields, SerialFields DEF UndoRole, Sound
  <1>2. PICK n \in Members : n = req[r].profile
    BY <1>1 DEF Sound
  <1>3. /\ n \in Profiles /\ row[n].user = req[r].user
        /\ row[n].user # NoUser => row[n].user \in Users /\ Present(n).roles = roles[row[n].user]
        /\ row[n].user = NoUser => Present(n).roles = {}
        /\ Present(n) \in Past /\ Present(n).row = row[n]
    BY <1>1, <1>2, TableTypes, PresentType DEF RowsAsRead
  <1>4. UsersApart'
    BY <1>1 DEF UsersApart
  <1>5. ASSUME NEW name \in req[r].names,
               req' = [req EXCEPT ![r].names = @ \ {name}],
               \/ name \in req[r].added /\ RemoveRoleFromUser(req[r].user, name)
               \/ req[r].names \intersect req[r].added = {} /\ AssignRoleToUser(req[r].user, name)
        PROVE  SerialInv'
    <2>1. PICK u \in Users : u = req[r].user
      BY <1>1, <1>5 DEF Sound
    <2>2. PICK held : roles' = [roles EXCEPT ![u] = held]
      BY <1>5, <2>1 DEF AssignRoleToUser, RemoveRoleFromUser
    <2>3. /\ req'[r].names = req[r].names \ {name}
          /\ UNCHANGED <<req[r].stage, req[r].op, req[r].profile, req[r].user, req[r].added, req[r].removed>>
      BY <1>1, <1>5, TableTypes DEF RequestRecord
    <2>4. \A m \in Members : m # n => Present(m)' = Present(m)
      <3>1. \A m \in Members : m # n => m \in Profiles /\ row[m].user # u
        BY <1>1, <1>3, <2>1, TableTypes, SetsAssumption DEF UsersApart
      <3> QED BY <1>1, <2>2, <3>1, OthersUntouched
    <2>5. RowsAsRead(r)'
      BY <1>1, <2>3 DEF RowsAsRead, Current
    <2>6. /\ Present(n)'.row = row[n] /\ Present(n)'.roles = roles'[u] /\ Present(n).roles = roles[u]
          /\ row[n].user = u /\ row[n].user # NoUser
      BY <1>1, <1>3, <2>1, SetsAssumption DEF Present, RolesOf
    <2>7. \/ name \in req[r].added /\ roles'[u] = roles[u] \ {name}
          \/ name \in req[r].removed /\ name \notin req[r].added /\ roles'[u] = roles[u] \union {name}
      <3>1. req[r].names \subseteq req[r].added \union req[r].removed
        BY RequestFields
      <3> QED BY <1>5, <2>1, <3>1, TableTypes DEF AssignRoleToUser, RemoveRoleFromUser
    <2>8. ASSUME before[n] # NoPast
          PROVE  /\ Undoes(Present(n)', before[n], report[n])
                 /\ row[n] = before[n].row
                 /\ req[r].added = report[n].added /\ req[r].removed = report[n].removed
                 /\ (req[r].added \ (req[r].names \ {name})) \intersect roles'[u] = {}
                 /\ req[r].removed \ (req[r].names \ {name}) \subseteq roles'[u]
      <3>1. /\ Undoes(Present(n), before[n], report[n])
            /\ row[n] = before[n].row
            /\ req[r].added = report[n].added /\ req[r].removed = report[n].removed
            /\ (req[r].added \ req[r].names) \intersect roles[u] = {}
            /\ req[r].removed \ req[r].names \subseteq roles[u]
        BY <1>1, <1>2, <2>6, <2>8 DEF ReportUndoes
      <3>2. req[r].added \intersect req[r].removed = {}
        BY <3>1 DEF Undoes
      <3>3. (roles'[u] \ req[r].added) \union req[r].removed = (roles[u] \ req[r].added) \union req[r].removed
        BY <2>7
      <3>4. Undoes(Present(n)', before[n], report[n])
        BY <1>3, <2>6, <3>1, <3>3 DEF Undoes
      <3>5. (req[r].added \ (req[r].names \ {name})) \intersect roles'[u] = {}
        BY <2>7, <3>1
      <3>6. req[r].removed \ (req[r].names \ {name}) \subseteq roles'[u]
        BY <2>7, <3>1, <3>2
      <3> QED BY <3>1, <3>4, <3>5, <3>6
    <2>9. ReportUndoes(r)'
      <3> SUFFICES ASSUME NEW m \in Members
                   PROVE  /\ before[m] # NoPast => Undoes(Present(m)', before[m], report[m])
                          /\ m = n /\ before[m] # NoPast =>
                               /\ row[m] = before[m].row
                               /\ req[r].added = report[m].added /\ req[r].removed = report[m].removed
                               /\ (req[r].added \ (req[r].names \ {name})) \intersect Present(m)'.roles = {}
                               /\ req[r].removed \ (req[r].names \ {name}) \subseteq Present(m)'.roles
        BY <1>1, <1>2, <2>3 DEF ReportUndoes
      <3>1. CASE m = n
        BY <2>6, <2>8, <3>1
      <3>2. CASE m # n
        BY <1>1, <2>4, <3>2 DEF ReportUndoes
      <3> QED BY <3>1, <3>2
    <2> QED BY <1>1, <1>4, <2>3, <2>5, <2>9, Elsewhere
  <1>6. ASSUME req[r].names = {}, GoTo(r, "answer"), UNCHANGED roles
        PROVE  SerialInv'
    <2>1. /\ req'[r].stage = "answer" /\ UNCHANGED <<req[r].op, req[r].profile, req[r].added>>
      BY <1>1, <1>6, TableTypes DEF GoTo, RequestRecord
    <2>2. \A m \in Members : Present(m)' = Present(m)
      BY <1>1, <1>6, Untouched
    <2>3. RowsAsRead(r)'
      BY <1>1, <2>1 DEF RowsAsRead, Current
    <2>4. ASSUME before[n] # NoPast
          PROVE  /\ row[n] = before[n].row
                 /\ Present(n).roles = before[n].roles \ (StatusRoles \intersect req[r].added)
      <3>1. /\ Undoes(Present(n), before[n], report[n]) /\ row[n] = before[n].row
            /\ req[r].added = report[n].added /\ req[r].removed = report[n].removed
            /\ row[n].user # NoUser => /\ req[r].added \intersect Present(n).roles = {}
                                       /\ req[r].removed \subseteq Present(n).roles
        BY <1>1, <1>2, <1>6, <2>4 DEF ReportUndoes
      <3>2. Present(n).roles = before[n].roles \ (StatusRoles \intersect req[r].added)
        <4>1. CASE row[n].user = NoUser
          BY <1>3, <3>1, <4>1 DEF Undoes
        <4>2. CASE row[n].user # NoUser
          <5>1. (Present(n).roles \ report[n].added) \union report[n].removed = Present(n).roles
            BY <3>1, <4>2
          <5> QED BY <1>3, <3>1, <4>2, <5>1 DEF Undoes
        <4> QED BY <4>1, <4>2
      <3> QED BY <3>1, <3>2
    <2>5. ReportUndoes(r)'
      BY <1>1, <1>2, <2>1, <2>2, <2>4 DEF ReportUndoes
    <2> QED BY <1>1, <1>2, <1>4, <2>1, <2>3, <2>5, Elsewhere
  <1> QED BY <1>1, <1>5, <1>6 DEF UndoRole

\* Handlers that write a row and end, of a profile whose past is not known any more.
LEMMA RowWritten ==
  ASSUME \A s, t \in Requests : s = t, SyncInv, SerialInv, NEW r \in Requests, Finish(r),
         NEW n \in Profiles, n = req[r].profile, req[r].op \in {"toggle", "complete"},
         UNCHANGED <<roles, report, before>>, UsersApart',
         \A p \in Profiles : p # n => row'[p] = row[p]
  PROVE  SerialInv'
  <1>1. \A m \in Members : m # n => Present(m)' = Present(m)
    BY TableTypes, Untouched
  <1>2. ReportUndoes(r)
    BY SerialFields
  <1>3. \A m \in Members : before'[m] # NoPast => Undoes(Present(m)', before'[m], report'[m])
    BY <1>1, <1>2 DEF ReportUndoes
  <1> QED BY <1>3, Rests

LEMMA OtherSerial ==
  ASSUME \A s, t \in Requests : s = t, SyncInv, SyncInv', SerialInv, NEW r \in Requests,
         ToggleProfileStatus(r) \/ AssignStatusRole(r) \/ LinkUser(r)
  PROVE  SerialInv'
  <1>1. /\ req[r] \in Sound /\ req[r] \in RequestRecord
        /\ UsersApart /\ RowsAsRead(r) /\ ReportUndoes(r)
        /\ UNCHANGED <<report, before>>
    BY RequestFields, SerialFields DEF ToggleProfileStatus, AssignStatusRole, LinkUser
  <1>2. PICK n \in Profiles : n = req[r].profile
    BY <1>1 DEF ToggleProfileStatus, AssignStatusRole, LinkUser, Sound
  <1>3. req[r].row = row[n] /\ row[n].status # "none" /\ row[n] \in Row
    BY <1>1, <1>2, TableTypes DEF ToggleProfileStatus, AssignStatusRole, LinkUser, RowsAsRead
  <1>4. CASE ToggleProfileStatus(r)
    <2>1. PICK new \in Row : new = [row[n] EXCEPT !.status = NextStatus(@)]
      BY <1>3, RowType
    <2>2. row' = [row EXCEPT ![n] = new]
      BY <1>2, <1>3, <1>4, <2>1 DEF ToggleProfileStatus
    <2>3. new.status # "none" /\ new.user = row[n].user
      BY <1>3, <2>1 DEF NextStatus, Row
    <2>4. UsersApart'
      BY <1>1, <1>3, <2>2, <2>3, ApartAsBefore DEF UsersApart
    <2>5. Finish(r) /\ req[r].op \in {"toggle", "complete"} /\ UNCHANGED <<roles, report, before>>
      BY <1>1, <1>4 DEF ToggleProfileStatus, Sound
    <2>6. \A p \in Profiles : p # n => row'[p] = row[p]
      BY <2>2, TableTypes
    <2> QED BY <1>2, <2>4, <2>5, <2>6, RowWritten
  <1>5. CASE LinkUser(r)
    <2>1. PICK u \in Users : u = req[r].user
      BY <1>1, <1>5 DEF LinkUser, RowsAsRead
    <2>2. PICK new \in Row : new = [row[n] EXCEPT !.user = u]
      BY <1>3, RowType
    <2>3. row' = [row EXCEPT ![n] = new]
      BY <1>2, <1>3, <1>5, <2>1, <2>2 DEF LinkUser
    <2>4. new.status # "none" /\ new.user = u /\ \A s \in Profiles : row[s].user # u
      BY <1>1, <1>3, <1>5, <2>1, <2>2 DEF LinkUser, RowsAsRead, Row
    <2>5. UsersApart'
      BY <1>1, <1>3, <2>3, <2>4, ApartAsBefore
    <2>6. Finish(r) /\ req[r].op \in {"toggle", "complete"} /\ UNCHANGED <<roles, report, before>>
      BY <1>1, <1>5 DEF LinkUser
    <2>7. \A p \in Profiles : p # n => row'[p] = row[p]
      BY <2>3, TableTypes
    <2> QED BY <1>2, <2>5, <2>6, <2>7, RowWritten
  <1>6. CASE AssignStatusRole(r)
    <2>1. /\ req[r].stage = "enrol" /\ req[r].op = "complete" /\ UNCHANGED row
      BY <1>1, <1>6 DEF AssignStatusRole, Sound
    <2>2. PICK u \in Users : u = req[r].user
      BY <1>1, <2>1 DEF RowsAsRead
    <2>3. PICK held : roles' = [roles EXCEPT ![u] = held]
      BY <1>6, <2>2 DEF AssignStatusRole, AssignRoleToUser
    <2>4. /\ req'[r].stage \in {"readRoles", "changeRoles"}
          /\ UNCHANGED <<req[r].op, req[r].profile, req[r].row, req[r].user>>
      BY <1>1, <1>6, TableTypes DEF AssignStatusRole, GoTo, RequestRecord
    <2>5. \A m \in Members : Present(m)' = Present(m)
      BY <1>1, <2>1, <2>2, <2>3, OthersUntouched, TableTypes DEF RowsAsRead
    <2>6. UsersApart'
      BY <1>1, <2>1 DEF UsersApart
    <2>7. RowsAsRead(r)'
      BY <1>1, <2>1, <2>4 DEF RowsAsRead, Current
    <2>8. ReportUndoes(r)'
      BY <1>1, <2>1, <2>4, <2>5 DEF ReportUndoes
    <2> QED BY <2>1, <2>4, <2>6, <2>7, <2>8, Elsewhere
  <1> QED BY <1>4, <1>5, <1>6

LEMMA EndSerial ==
  ASSUME \A s, t \in Requests : s = t, SyncInv, SyncInv', SerialInv, NEW r \in Requests,
         Answer(r) \/ StatementFails(r)
  PROVE  SerialInv'
  <1>1. /\ UsersApart /\ PageUndoes(r) /\ ReportUndoes(r) /\ Finish(r) /\ UNCHANGED <<row, roles>>
    BY SerialFields DEF Answer, StatementFails
  <1>2. UsersApart'
    BY <1>1 DEF UsersApart
  <1>3. \A m \in Members : Present(m)' = Present(m)
    BY <1>1, Untouched
  <1>4. ASSUME NEW m \in Members, before'[m] # NoPast
        PROVE  Undoes(Present(m), before'[m], report'[m])
    <2>1. CASE req[r].op = "sync" /\ Answer(r)
      <3>1. report'[m] = req[r].page[m]
        BY <2>1 DEF Answer
      <3>2. before'[m] = before[m] /\ req[r].page[m] # NoReport
        BY <1>4, <2>1 DEF Answer
      <3> QED BY <1>1, <2>1, <3>1, <3>2 DEF PageUndoes
    <2>2. CASE req[r].op = "sync" /\ StatementFails(r)
      BY <1>4, <2>2 DEF StatementFails
    <2>3. CASE req[r].op # "sync"
      <3>1. UNCHANGED <<report, before>>
        BY <2>3 DEF Answer, StatementFails
      <3> QED BY <1>1, <1>4, <2>3, <3>1 DEF ReportUndoes
    <2> QED BY <2>1, <2>2, <2>3
  <1> QED BY <1>1, <1>2, <1>3, <1>4, Rests

LEMMA StepSerial ==
  ASSUME \A s, t \in Requests : s = t, SyncInv, SyncInv', SerialInv, [Next]_vars
  PROVE  SerialInv'
  <1>1. CASE UNCHANGED vars
    <2>1. \A m \in Members : Present(m)' = Present(m)
      BY <1>1, Untouched DEF vars
    <2>2. UsersApart'
      BY <1>1 DEF vars, SerialInv, UsersApart
    <2>3. ASSUME NEW r \in Requests
          PROVE  /\ RowsAsRead(r)' /\ SyncSoFar(r)' /\ PageUndoes(r)' /\ ReportUndoes(r)'
                 /\ req'[r].stage = "answer" => req'[r].op = "sync" \/ req'[r].profile \in Members
      <3>0. RowsAsRead(r) /\ SyncSoFar(r) /\ PageUndoes(r) /\ ReportUndoes(r)
        BY SerialFields
      <3>1. RowsAsRead(r)'
        BY <1>1, <3>0 DEF vars, RowsAsRead
      <3>2. SyncSoFar(r)'
        BY <1>1, <2>1, <3>0 DEF vars, SyncSoFar
      <3>3. PageUndoes(r)'
        BY <1>1, <2>1, <3>0 DEF vars, PageUndoes
      <3>4. ReportUndoes(r)'
        BY <1>1, <2>1, <3>0 DEF vars, ReportUndoes
      <3>5. req'[r].stage = "answer" => req'[r].op = "sync" \/ req'[r].profile \in Members
        BY <1>1, SerialFields DEF vars
      <3> QED BY <3>1, <3>2, <3>3, <3>4, <3>5
    <2> QED BY <2>2, <2>3 DEF SerialInv
  <1>2. CASE Next
    <2>1. PICK r \in Requests : Begin(r) \/ Serve(r) \/ StatementFails(r)
      BY <1>2 DEF Next
    <2>2. CASE Begin(r)
      BY <2>2, BeginSerial
    <2>3. CASE ReadMember(r) \/ CreateProfile(r) \/ UpdateProfile(r)
      BY <2>3, MembersSerial
    <2>4. CASE ListActive(r) \/ Deactivate(r) \/ EndSync(r)
      BY <2>4, DeactivateSerial
    <2>5. CASE ReadRoles(r)
      BY <2>5, ReadRolesSerial
    <2>6. CASE ChangeRole(r)
      BY <2>6, ChangeRoleSerial
    <2>7. CASE RestoreProfile(r)
      BY <2>7, RestoreSerial
    <2>8. CASE UndoRole(r)
      BY <2>8, UndoRoleSerial
    <2>9. CASE ToggleProfileStatus(r) \/ AssignStatusRole(r) \/ LinkUser(r)
      BY <2>9, OtherSerial
    <2>10. CASE Answer(r) \/ StatementFails(r)
      BY <2>10, EndSerial
    <2> QED BY <2>1, <2>2, <2>3, <2>4, <2>5, <2>6, <2>7, <2>8, <2>9, <2>10 DEF Serve
  <1> QED BY <1>1, <1>2

LEMMA SerialInvariant ==
  ASSUME \A s, t \in Requests : s = t
  PROVE  Spec => [](SyncInv /\ SerialInv)
  <1>1. Init => SerialInv
    <2> SUFFICES ASSUME Init PROVE SerialInv
      OBVIOUS
    <2>1. /\ \A p \in Profiles : row[p].user = NoUser /\ (row[p].status = "none" => row[p] = NoRow)
          /\ \A m \in Members : before[m] = NoPast
          /\ \A r \in Requests : req[r].op = "none" /\ req[r].stage = "idle"
      BY DEF Init, NoRow, Idle
    <2>2. UsersApart
      BY <2>1 DEF UsersApart
    <2>3. \A r \in Requests : RowsAsRead(r) /\ SyncSoFar(r) /\ PageUndoes(r) /\ ReportUndoes(r)
      BY <2>1 DEF RowsAsRead, SyncSoFar, PageUndoes, ReportUndoes, Current
    <2> QED BY <2>1, <2>2, <2>3 DEF SerialInv
  <1>2. Spec => []SyncInv
    BY SyncInvariant
  <1>3. SyncInv /\ SyncInv' /\ SerialInv /\ [Next]_vars => SerialInv'
    BY StepSerial
  <1> QED BY <1>1, <1>2, <1>3, PTL DEF Spec

\* A synchronisation that answers has applied the roster, whatever the ones before it left
\* half-done: no handler runs beside it.
THEOREM SyncHasApplied ==
  ASSUME \A s, t \in Requests : s = t
  PROVE  Spec => []SyncApplies
  <1>1. SyncInv /\ SerialInv => SyncApplies
    <2> SUFFICES ASSUME SyncInv, SerialInv, NEW r \in Requests, req[r].stage = "answer",
                        req[r].op = "sync", NEW m \in Members
                 PROVE  IF req[r].roster[m].kind = "none" THEN row[m].status # "active"
                        ELSE /\ row[m] = Listed(row[m], req[r].roster[m])
                             /\ row[m].user # NoUser =>
                                  /\ row[m].positions \subseteq roles[row[m].user]
                                  /\ roles[row[m].user] \subseteq row[m].positions \union StatusRoles
      BY DEF SyncApplies
    <2>1. SyncSoFar(r) /\ m \in Profiles /\ row[m] \in Row
      BY SerialFields, TableTypes
    <2>2. CASE req[r].roster[m].kind = "none"
      BY <2>1, <2>2 DEF SyncSoFar
    <2>3. CASE req[r].roster[m].kind # "none"
      <3>1. Applied(Present(m), req[r].roster[m])
        BY <2>1, <2>3 DEF SyncSoFar, Current
      <3>2. row[m] = Listed(row[m], req[r].roster[m])
        BY <2>1, <3>1, PresentType DEF Applied
      <3>3. row[m].positions = req[r].roster[m].positions
        BY <2>1, <3>2, ListedRow, RequestFields
      <3> QED BY <2>1, <2>3, <3>1, <3>2, <3>3, PresentType DEF Applied
    <2> QED BY <2>2, <2>3
  <1>2. Spec => [](SyncInv /\ SerialInv)
    BY SerialInvariant
  <1> QED BY <1>1, <1>2, PTL

\* A Revert that answers has brought the profile and its roles back to what they were
\* before the synchronisation, but for the status roles that the roster listed as
\* positions, also when an earlier Revert failed half-way.
THEOREM RevertHasUndone ==
  ASSUME \A s, t \in Requests : s = t
  PROVE  Spec => []RevertUndoes
  <1>1. SyncInv /\ SerialInv => RevertUndoes
    <2> SUFFICES ASSUME SyncInv, SerialInv, NEW r \in Requests, req[r].stage = "answer",
                        req[r].op = "revert", before[req[r].profile] # NoPast
                 PROVE  /\ row[req[r].profile] = before[req[r].profile].row
                        /\ RolesOf(row[req[r].profile].user) =
                             before[req[r].profile].roles \ (StatusRoles \intersect req[r].added)
      BY DEF RevertUndoes
    <2>1. PICK m \in Members : m = req[r].profile
      BY SerialFields
    <2>2. /\ row[m] = before[m].row
          /\ Present(m).roles = before[m].roles \ (StatusRoles \intersect req[r].added)
      BY <2>1, SerialFields DEF ReportUndoes
    <2> QED BY <2>1, <2>2 DEF Present
  <1>2. Spec => [](SyncInv /\ SerialInv)
    BY SerialInvariant
  <1> QED BY <1>1, <1>2, PTL

\* No handler that runs alone takes the user of a profile away: each writes back the whole
\* row that it read, and the row is still that one.
THEOREM LinkIsKept ==
  ASSUME \A s, t \in Requests : s = t
  PROVE  Spec => LinkKept
  <1> DEFINE Kept == \A p \in Profiles : row[p].user # NoUser => row'[p].user # NoUser
  <1>1. SyncInv /\ SerialInv /\ [Next]_vars => [Kept]_vars
    <2> SUFFICES ASSUME SyncInv, SerialInv, Next, NEW p \in Profiles, row[p].user # NoUser
                 PROVE  row'[p].user # NoUser
      BY DEF Kept
    <2>0. row \in [Profiles -> Row] /\ Members \subseteq Profiles
      BY TableTypes
    <2>1. PICK r \in Requests : Begin(r) \/ Serve(r) \/ StatementFails(r)
      BY DEF Next
    <2>2. req[r] \in Sound /\ UsersApart /\ RowsAsRead(r) /\ ReportUndoes(r)
      BY RequestFields, SerialFields
    <2>3. ASSUME NEW n \in Profiles, NEW new, row' = [row EXCEPT ![n] = new],
                 row[n].user # NoUser => new.user # NoUser
          PROVE  row'[p].user # NoUser
      BY <2>0, <2>3
    <2>4. CASE CreateProfile(r)
      <3>1. req[r].profile \in Profiles /\ row[req[r].profile] = NoRow
        BY <2>0, <2>2, <2>4 DEF CreateProfile, Sound, RowsAsRead, UsersApart
      <3> QED BY <2>3, <2>4, <3>1 DEF CreateProfile, NoRow
    <2>5. CASE UpdateProfile(r)
      <3>1. PICK n \in Profiles : n = req[r].profile /\ req[r].row = row[n]
        BY <2>0, <2>2, <2>5 DEF UpdateProfile, Sound, RowsAsRead
      <3>2. Listed(row[n], req[r].roster[n]).user = row[n].user
        BY <2>0, <3>1 DEF Listed, Row
      <3> QED BY <2>3, <2>5, <3>1, <3>2 DEF UpdateProfile
    <2>6. CASE Deactivate(r)
      <3>1. PICK n \in req[r].todo : row' = [row EXCEPT ![n] = [req[r].rows[n] EXCEPT !.status = "inactive"]]
        BY <2>6 DEF Deactivate
      <3>2. n \in Profiles /\ req[r].rows[n] = row[n] /\ row[n] \in Row
        BY <2>0, <2>2, <2>6, <3>1 DEF Deactivate, Sound, RowsAsRead
      <3>3. [req[r].rows[n] EXCEPT !.status = "inactive"].user = row[n].user
        BY <3>2 DEF Row
      <3> QED BY <2>3, <3>1, <3>2, <3>3
    <2>7. CASE RestoreProfile(r)
      <3>1. PICK n \in Members : n = req[r].profile
        BY <2>2, <2>7 DEF RestoreProfile, Sound
      <3>2. req[r].row = row[n] /\ n \in Profiles /\ req[r].page[n].old \in Row
        BY <2>0, <2>2, <2>7, <3>1, RequestFields DEF RestoreProfile, RowsAsRead, Report
      <3>3. Restored(req[r].row, req[r].page[n].old).user = row[n].user
        BY <3>2 DEF Restored, Row
      <3> QED BY <2>3, <2>7, <3>1, <3>2, <3>3 DEF RestoreProfile
    <2>8. CASE ToggleProfileStatus(r)
      <3>1. PICK n \in Profiles : n = req[r].profile /\ req[r].row = row[n]
        BY <2>2, <2>8 DEF ToggleProfileStatus, Sound, RowsAsRead
      <3>2. [row[n] EXCEPT !.status = NextStatus(@)].user = row[n].user
        BY <2>0 DEF Row
      <3> QED BY <2>3, <2>8, <3>1, <3>2 DEF ToggleProfileStatus
    <2>9. CASE LinkUser(r)
      <3>1. PICK n \in Profiles : n = req[r].profile /\ req[r].row = row[n]
        BY <2>2, <2>9 DEF LinkUser, Sound, RowsAsRead
      <3>2. [row[n] EXCEPT !.user = req[r].user].user # NoUser
        BY <2>0, <2>2, <2>9, SetsAssumption DEF LinkUser, RowsAsRead, Row
      <3> QED BY <2>3, <2>9, <3>1, <3>2 DEF LinkUser
    <2>10. CASE row' = row
      BY <2>10
    <2> QED BY <2>1, <2>4, <2>5, <2>6, <2>7, <2>8, <2>9, <2>10
            DEF Begin, BeginSync, BeginRevert, BeginToggle, BeginComplete, Serve, ReadMember,
                ListActive, EndSync, ReadRoles, ChangeRole, UndoRole, AssignStatusRole, Answer,
                StatementFails
  <1>2. Spec => [](SyncInv /\ SerialInv)
    BY SerialInvariant
  <1> QED BY <1>1, <1>2, PTL DEF Spec, LinkKept
=============================================================================
