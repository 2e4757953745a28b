------------------------- MODULE CookingPatrolsProofs -------------------------
(***************************************************************************)
(* Theorems about CookingPatrols, for every set of profiles, patrols and   *)
(* overlapping requests, and every number of failures.                     *)
(***************************************************************************)
EXTENDS CookingPatrols, TLAPS

LEMMA IdleType == Idle \in RequestRecord
  BY DEF Idle, RequestRecord, Stages, AllTabOps

\* The stages that need a profile, and those that need a patrol.
ProfileStages == {"enrol", "readToggle", "readType", "findAdultPatrol", "createAdult", "place",
                  "checkPatrol", "assign", "cancel", "listPatrols", "listMembers", "clearListed", "remove",
                  "findPatrol", "setCook"}

PatrolStages == {"place", "checkPatrol", "assign", "delete", "clearListed", "findPatrol", "setCook", "clearCook"}

\* Giving up, or moving on to a stage that needs no more than the request already has.
LEMMA MoveType ==
  ASSUME TypeOK, NEW r \in Requests
  PROVE  /\ Finish(r) => req' \in [Requests -> RequestRecord]
         /\ \A s \in Stages :
              /\ GoTo(r, s)
              /\ req[r].stage \in ProfileStages
              /\ req[r].stage \in PatrolStages \/ s \notin PatrolStages
              => req' \in [Requests -> RequestRecord]
  <1>1. req \in [Requests -> RequestRecord] /\ req[r] \in RequestRecord
    BY DEF TypeOK
  <1>2. Finish(r) => req' \in [Requests -> RequestRecord]
    BY <1>1, IdleType DEF Finish
  <1>3. ASSUME NEW s \in Stages, GoTo(r, s), req[r].stage \in ProfileStages,
               req[r].stage \in PatrolStages \/ s \notin PatrolStages
        PROVE  req' \in [Requests -> RequestRecord]
    <2>1. [req[r] EXCEPT !.stage = s] \in RequestRecord
      BY <1>1, <1>3 DEF RequestRecord, ProfileStages, PatrolStages
    <2> QED BY <1>1, <1>3, <2>1 DEF GoTo
  <1> QED BY <1>2, <1>3

-----------------------------------------------------------------------------
(***************************************************************************)
(* Type correctness.                                                       *)
(***************************************************************************)

LEMMA BeginType ==
  ASSUME TypeOK, NEW r \in Requests, Begin(r)
  PROVE  TypeOK'
  <1>0. /\ req \in [Requests -> RequestRecord]
        /\ Idle \in RequestRecord
        /\ cookingEnabled \in BOOLEAN
    BY IdleType DEF TypeOK
  <1>1. ASSUME NEW q \in RequestRecord, Admit(r, q) PROVE TypeOK'
    BY <1>0, <1>1 DEF Admit, TypeOK
  <1>2. ASSUME NEW p \in Profiles, BeginSignUp(r, p) PROVE TypeOK'
    <2>1. [Idle EXCEPT !.stage = "enrol", !.profile = p] \in RequestRecord
      BY <1>0 DEF Idle, RequestRecord, Stages
    <2> QED BY <1>1, <1>2, <2>1 DEF BeginSignUp
  <1>3. ASSUME NEW p \in Profiles, BeginWithdraw(r, p) PROVE TypeOK'
    <2>1. [Idle EXCEPT !.stage = "cancel", !.profile = p] \in RequestRecord
      BY <1>0 DEF Idle, RequestRecord, Stages
    <2> QED BY <1>1, <1>3, <2>1 DEF BeginWithdraw
  <1>4. ASSUME NEW wanted \in BOOLEAN, BeginEdit(r, wanted) PROVE TypeOK'
    <2>1. [Idle EXCEPT !.stage = "update", !.was = cookingEnabled, !.wanted = wanted]
             \in RequestRecord
      BY <1>0 DEF Idle, RequestRecord, Stages
    <2> QED BY <1>1, <1>4, <2>1 DEF BeginEdit
  <1>5. ASSUME NEW op \in {"createYouth"}, BeginTab(r, op, NoProfile, NoPatrol) PROVE TypeOK'
    <2>1. [Idle EXCEPT !.stage = op, !.profile = NoProfile, !.patrol = NoPatrol] \in RequestRecord
      BY <1>0 DEF Idle, RequestRecord, Stages, AllTabOps
    <2> QED BY <1>1, <1>5, <2>1 DEF BeginTab
  <1>6. ASSUME NEW k \in Patrols, NEW op \in {"delete", "clearCook"}, BeginTab(r, op, NoProfile, k)
        PROVE  TypeOK'
    <2>1. [Idle EXCEPT !.stage = op, !.profile = NoProfile, !.patrol = k] \in RequestRecord
      BY <1>0 DEF Idle, RequestRecord, Stages, AllTabOps
    <2> QED BY <1>1, <1>6, <2>1 DEF BeginTab
  <1>7. ASSUME NEW p \in Profiles, NEW k \in Patrols, NEW op \in {"place", "findPatrol"},
               BeginTab(r, op, p, k)
        PROVE  TypeOK'
    <2>1. [Idle EXCEPT !.stage = op, !.profile = p, !.patrol = k] \in RequestRecord
      BY <1>0 DEF Idle, RequestRecord, Stages, AllTabOps
    <2> QED BY <1>1, <1>7, <2>1 DEF BeginTab
  <1>8. ASSUME NEW p \in Profiles, BeginTab(r, "listPatrols", p, NoPatrol) PROVE TypeOK'
    <2>1. [Idle EXCEPT !.stage = "listPatrols", !.profile = p, !.patrol = NoPatrol]
             \in RequestRecord
      BY <1>0 DEF Idle, RequestRecord, Stages, AllTabOps
    <2> QED BY <1>1, <1>8, <2>1 DEF BeginTab
  <1> QED BY <1>2, <1>3, <1>4, <1>5, <1>6, <1>7, <1>8 DEF Begin

\* Deleting patrols keeps the types of the tables.
LEMMA DeleteType ==
  ASSUME TypeOK, NEW doomed, DeletePatrols(doomed)
  PROVE  /\ patrol' \in [Patrols -> {"none", "adult", "youth"}]
         /\ member' \in [Profiles -> Patrols \union {NoPatrol}]
         /\ cook' \in SUBSET Profiles
  BY DEF TypeOK, DeletePatrols

LEMMA ServeType ==
  ASSUME TypeOK, NEW r \in Requests, Serve(r)
  PROVE  TypeOK'
  <1> USE DEF TypeOK
  <1>0. /\ req \in [Requests -> RequestRecord]
        /\ req[r] \in RequestRecord
    OBVIOUS
  <1>1. CASE Enrol(r) \/ ReadToggle(r) \/ CancelAttendance(r)
    <2>1. req' \in [Requests -> RequestRecord]
      BY <1>1, MoveType DEF Enrol, ReadToggle, CancelAttendance, Stages, AllTabOps,
                            ProfileStages, PatrolStages
    <2> QED BY <1>1, <2>1 DEF Enrol, ReadToggle, CancelAttendance
  <1>2. ASSUME req[r].stage \in {"findAdultPatrol", "createAdult"}, NEW k \in Patrols,
               req' = [req EXCEPT ![r].stage = "assign", ![r].patrol = k]
        PROVE  req' \in [Requests -> RequestRecord]
    <2>1. [req[r] EXCEPT !.stage = "assign", !.patrol = k] \in RequestRecord
      BY <1>0, <1>2 DEF RequestRecord, Stages
    <2> QED BY <1>0, <1>2, <2>1
  <1>3. CASE FindAdultPatrol(r)
    <2>1. req' \in [Requests -> RequestRecord]
      BY <1>2, <1>3, MoveType DEF FindAdultPatrol, OfKind, Stages, ProfileStages, PatrolStages
    <2> QED BY <1>3, <2>1 DEF FindAdultPatrol
  <1>4. CASE CreateAdult(r)
    <2>1. req' \in [Requests -> RequestRecord]
      BY <1>2, <1>4, MoveType DEF CreateAdult, Fresh, OfKind
    <2> QED BY <1>4, <2>1 DEF CreateAdult
  <1>5. CASE CheckPatrol(r) \/ FindPatrol(r)
    <2>1. req' \in [Requests -> RequestRecord]
      BY <1>5, MoveType DEF CheckPatrol, FindPatrol, Stages, ProfileStages, PatrolStages
    <2> QED BY <1>5, <2>1 DEF CheckPatrol, FindPatrol
  <1>6. CASE Assign(r)
    <2>1. req[r].profile \in Profiles /\ req[r].patrol \in Patrols
      BY <1>0, <1>6 DEF RequestRecord, Assign
    <2> QED BY <1>6, <2>1, MoveType DEF Assign
  <1>7. CASE ListPatrols(r)
    <2>1. [req[r] EXCEPT !.stage = "listMembers", !.seen = {k \in Patrols : patrol[k] # "none"}]
             \in RequestRecord
      BY <1>0, <1>7 DEF ListPatrols, RequestRecord, Stages
    <2> QED BY <1>0, <1>7, <2>1 DEF ListPatrols
  <1>8. CASE ListMembers(r)
    <2>1. req[r].profile \in Profiles /\ req[r].seen \subseteq Patrols
      BY <1>0, <1>8 DEF RequestRecord, ListMembers
    <2>2. ASSUME NEW p \in Profiles, NEW k \in Patrols
          PROVE  /\ [Idle EXCEPT !.stage = "clearListed", !.profile = p, !.patrol = k]
                       \in RequestRecord
                 /\ [Idle EXCEPT !.stage = "remove", !.profile = p] \in RequestRecord
      BY IdleType DEF Idle, RequestRecord, Stages
    <2>3. [Idle EXCEPT !.stage = "remove", !.profile = req[r].profile] \in RequestRecord
      BY <2>1, IdleType DEF Idle, RequestRecord, Stages
    <2>4. req' \in [Requests -> RequestRecord]
      BY <1>0, <1>8, <2>1, <2>2, <2>3 DEF ListMembers
    <2> QED BY <1>8, <2>4 DEF ListMembers
  <1>9. CASE ClearListed(r)
    <2>1. req' \in [Requests -> RequestRecord]
      BY <1>9, MoveType DEF ClearListed, Stages, ProfileStages, PatrolStages
    <2> QED BY <1>9, <2>1 DEF ClearListed
  <1>10. CASE Remove(r) \/ ClearCook(r)
    BY <1>10, MoveType DEF Remove, ClearCook
  <1>11. CASE SetCook(r)
    <2>1. req[r].profile \in Profiles
      BY <1>0, <1>11 DEF RequestRecord, SetCook
    <2> QED BY <1>11, <2>1, MoveType DEF SetCook
  <1>12. CASE CreateYouth(r)
    BY <1>12, MoveType DEF CreateYouth
  <1>13. CASE Delete(r)
    BY <1>13, MoveType, DeleteType DEF Delete
  <1>14. CASE Update(r)
    <2>1. req[r].wanted \in BOOLEAN
      BY <1>0 DEF RequestRecord
    <2>2. ASSUME NEW k \in Patrols, EnableCooking(k)
          PROVE  /\ patrol' \in [Patrols -> {"none", "adult", "youth"}]
                 /\ member' \in [Profiles -> Patrols \union {NoPatrol}]
                 /\ cook' \in SUBSET Profiles
      BY <2>2 DEF EnableCooking
    <2>3. ASSUME NEW was, NEW wanted, ApplyToggle(was, wanted)
          PROVE  /\ patrol' \in [Patrols -> {"none", "adult", "youth"}]
                 /\ member' \in [Profiles -> Patrols \union {NoPatrol}]
                 /\ cook' \in SUBSET Profiles
      BY <2>2, <2>3, DeleteType DEF ApplyToggle, AdultPatrol, OfKind, Fresh
    <2> QED BY <1>14, <2>1, <2>3, MoveType DEF Update
  <1>15. CASE ReadType(r)
    <2>1. [req[r] EXCEPT !.stage = "findAdultPatrol", !.adult = TRUE] \in RequestRecord
      BY <1>0, <1>15 DEF ReadType, RequestRecord, Stages
    <2>2. req' \in [Requests -> RequestRecord]
      BY <1>0, <1>15, <2>1, MoveType DEF ReadType
    <2> QED BY <1>15, <2>2 DEF ReadType
  <1>16. CASE Place(r)
    <2>1. ASSUME NEW adult \in BOOLEAN, NEW x \in {"checkPatrol", "assign"}
          PROVE  [req EXCEPT ![r].stage = x, ![r].adult = adult] \in [Requests -> RequestRecord]
      <3>1. req[r] \in RequestRecord /\ req[r].stage = "place" /\ x \in Stages
        BY <1>0, <1>16 DEF Place, Stages
      <3> DEFINE q == [req[r] EXCEPT !.stage = x, !.adult = adult]
      <3>2. /\ q \in [stage: Stages, profile: Profiles \union {NoProfile}, adult: BOOLEAN,
                      patrol: Patrols \union {NoPatrol}, seen: SUBSET Patrols, was: BOOLEAN,
                      wanted: BOOLEAN]
            /\ q.profile = req[r].profile /\ q.patrol = req[r].patrol
        BY <3>1 DEF RequestRecord
      <3>3. req[r].profile \in Profiles /\ req[r].patrol \in Patrols
        BY <3>1 DEF RequestRecord
      <3>4. q \in RequestRecord
        <4> HIDE DEF q
        <4> QED BY <3>2, <3>3 DEF RequestRecord
      <3> QED BY <1>0, <3>4
    <2>2. req' \in [Requests -> RequestRecord]
      <3>1. CASE req[r].profile \in adults
        <4>1. req' = [req EXCEPT ![r].stage = "checkPatrol", ![r].adult = TRUE]
          BY <1>16, <3>1 DEF Place
        <4> QED BY <2>1, <4>1
      <3>2. CASE req[r].profile \notin adults
        <4>1. req' = [req EXCEPT ![r].stage = "assign", ![r].adult = FALSE]
          BY <1>16, <3>2 DEF Place
        <4> QED BY <2>1, <4>1
      <3> QED BY <3>1, <3>2
    <2> QED BY <1>16, <2>2 DEF Place
  <1> QED BY <1>1, <1>3, <1>4, <1>5, <1>6, <1>7, <1>8, <1>9, <1>10, <1>11, <1>12, <1>13, <1>14,
             <1>15, <1>16
          DEF Serve

LEMMA InitType == Init => TypeOK
  BY IdleType, ConstantsAssumption DEF Init, TypeOK

LEMMA StepType == TypeOK /\ [Next]_vars => TypeOK'
  <1> SUFFICES ASSUME TypeOK, [Next]_vars PROVE TypeOK'
    OBVIOUS
  <1>1. ASSUME NEW r \in Requests, StatementFails(r) PROVE TypeOK'
    <2>1. faults' \in 0..MaxFaults
      BY <1>1, ConstantsAssumption DEF TypeOK, StatementFails
    <2> QED BY <1>1, <2>1, MoveType DEF TypeOK, StatementFails
  <1>2. CASE EventDelete
    BY <1>2, DeleteType DEF EventDelete, TypeOK
  <1>3. ASSUME NEW p \in Retyped, ChangeMemberType(p) PROVE TypeOK'
    BY <1>3, ConstantsAssumption DEF TypeOK, ChangeMemberType
  <1>4. CASE UNCHANGED vars
    BY <1>4 DEF TypeOK, vars
  <1> QED BY <1>1, <1>2, <1>3, <1>4, BeginType, ServeType DEF Next

\* The tables and the memory of every handler keep their types; a handler about to
\* write the row of a member or of a patrol knows which.
THEOREM TypeCorrect == Spec => []TypeOK
  BY InitType, StepType, PTL DEF Spec

-----------------------------------------------------------------------------
(***************************************************************************)
(* The inductive invariant.  The properties need three more facts: there   *)
(* is one adult patrol at most; a request about to place one it has read   *)
(* to be an adult names a patrol that is the adults' or is gone, and stays *)
(* so because its id is not given to another patrol; and every cook has a  *)
(* member row.                                                             *)
(***************************************************************************)

OneAdultPatrol == \A j, k \in OfKind("adult") : j = k

\* The request may place its adult: the patrol it names is the adults' or is gone.
SafeToAssign(r) ==
    req[r].stage = "assign" /\ req[r].adult
        => patrol[req[r].patrol] \in {"adult", "none"}

PatrolsInv == /\ MembersHavePatrols
              /\ OneAdultPatrol
              /\ OneCookPerPatrol
              /\ \A r \in Requests : SafeToAssign(r)

\* A step changes the memory of one request only, and Fresh keeps the id of a patrol
\* that a request remembers from being used again.
LEMMA OthersSafe ==
  ASSUME TypeOK, NEW r \in Requests, \A s \in Requests : SafeToAssign(s),
         \A s \in Requests \ {r} : req'[s] = req[s],
         \A k \in Patrols : \/ patrol'[k] \in {patrol[k], "none"}
                            \/ \A s \in Requests : req[s].patrol # k
                            \/ patrol'[k] = "adult",
         SafeToAssign(r)'
  PROVE  \A s \in Requests : SafeToAssign(s)'
  <1> SUFFICES ASSUME NEW s \in Requests \ {r}, req[s].stage = "assign", req[s].adult
               PROVE  patrol'[req[s].patrol] \in {"adult", "none"}
    BY DEF SafeToAssign
  <1>1. req[s].patrol \in Patrols
    BY DEF TypeOK, RequestRecord
  <1>2. patrol[req[s].patrol] \in {"adult", "none"}
    BY DEF SafeToAssign
  <1> QED BY <1>1, <1>2

\* A request that ends, or goes on to anything but the INSERT, is safe.
LEMMA MoveSafe ==
  ASSUME TypeOK, NEW r \in Requests
  PROVE  /\ Finish(r) => SafeToAssign(r)' /\ \A s \in Requests \ {r} : req'[s] = req[s]
         /\ \A x \in Stages \ {"assign"} :
              GoTo(r, x) => SafeToAssign(r)' /\ \A s \in Requests \ {r} : req'[s] = req[s]
  <1>1. req \in [Requests -> RequestRecord] /\ req[r] \in RequestRecord
    BY DEF TypeOK
  <1>2. ASSUME Finish(r)
        PROVE  SafeToAssign(r)' /\ \A s \in Requests \ {r} : req'[s] = req[s]
    BY <1>1, <1>2 DEF Finish, Idle, SafeToAssign
  <1>3. ASSUME NEW x \in Stages \ {"assign"}, GoTo(r, x)
        PROVE  SafeToAssign(r)' /\ \A s \in Requests \ {r} : req'[s] = req[s]
    BY <1>1, <1>3 DEF GoTo, RequestRecord, SafeToAssign
  <1> QED BY <1>2, <1>3

\* What a step that leaves patrols and rows alone has to show.
LEMMA OnlyMoves ==
  ASSUME TypeOK, PatrolsInv, NEW r \in Requests, UNCHANGED <<patrol, member, cook, exists>>,
         \A p \in Profiles : attendee[p] # "none" => attendee'[p] # "none",
         SafeToAssign(r)', \A s \in Requests \ {r} : req'[s] = req[s]
  PROVE  PatrolsInv'
  <1>1. \A s \in Requests : SafeToAssign(s)'
    BY OthersSafe DEF PatrolsInv, TypeOK
  <1>2. MembersHavePatrols'
    BY DEF PatrolsInv, MembersHavePatrols, TypeOK
  <1> QED BY <1>1, <1>2
          DEF PatrolsInv, OneAdultPatrol, OneCookPerPatrol, OfKind

\* Clearing designations keeps the invariant, as long as nothing else is touched.
LEMMA ClearSafe ==
  ASSUME TypeOK, PatrolsInv, NEW r \in Requests, UNCHANGED <<patrol, member, attendee, exists>>,
         cook' \subseteq cook,
         SafeToAssign(r)', \A s \in Requests \ {r} : req'[s] = req[s]
  PROVE  PatrolsInv'
  <1>1. \A s \in Requests : SafeToAssign(s)'
    BY OthersSafe DEF PatrolsInv, TypeOK
  <1> QED BY <1>1 DEF PatrolsInv, OneAdultPatrol, OneCookPerPatrol,
                      MembersHavePatrols, OfKind

\* Deleting patrols with their members keeps all that is said of the tables.
LEMMA DeleteSafe ==
  ASSUME TypeOK, PatrolsInv, NEW doomed, DeletePatrols(doomed),
         \/ UNCHANGED <<exists, attendee>>
         \/ Patrols \subseteq doomed
  PROVE  /\ MembersHavePatrols' /\ OneAdultPatrol' /\ OneCookPerPatrol'
         /\ \A k \in Patrols : patrol'[k] \in {patrol[k], "none"}
  <1>1. \A k \in Patrols : patrol'[k] = IF k \in doomed THEN "none" ELSE patrol[k]
    BY DEF DeletePatrols
  <1>2. \A p \in Profiles : member'[p] = IF member[p] \in doomed THEN NoPatrol ELSE member[p]
    BY DEF DeletePatrols
  <1>3. \A p \in cook' : p \in cook /\ member[p] \notin doomed /\ member'[p] = member[p]
    BY <1>2 DEF DeletePatrols, TypeOK
  <1>4. \A p \in Profiles : member'[p] # NoPatrol =>
           member'[p] = member[p] /\ member[p] \in Patrols /\ member[p] \notin doomed
    BY <1>2 DEF PatrolsInv, MembersHavePatrols
  <1>5. MembersHavePatrols'
    BY <1>1, <1>3, <1>4 DEF PatrolsInv, MembersHavePatrols, TypeOK
  <1>6. OneCookPerPatrol'
    BY <1>3 DEF PatrolsInv, OneCookPerPatrol
  <1>7. OneAdultPatrol'
    BY <1>1 DEF PatrolsInv, OneAdultPatrol, OfKind
  <1> QED BY <1>1, <1>5, <1>6, <1>7

LEMMA BeginSafe ==
  ASSUME TypeOK, PatrolsInv, NEW r \in Requests, Begin(r)
  PROVE  PatrolsInv'
  <1>1. ASSUME NEW q \in [stage: Stages \ {"assign"}, profile: Profiles \union {NoProfile},
                          adult: BOOLEAN, patrol: Patrols \union {NoPatrol},
                          seen: SUBSET Patrols, was: BOOLEAN, wanted: BOOLEAN], Admit(r, q)
        PROVE  PatrolsInv'
    <2>1. SafeToAssign(r)' /\ \A s \in Requests \ {r} : req'[s] = req[s]
      BY <1>1 DEF Admit, TypeOK, SafeToAssign
    <2> QED BY <1>1, <2>1, OnlyMoves DEF Admit
  <1>2. ASSUME NEW p \in Profiles, BeginSignUp(r, p) PROVE PatrolsInv'
    BY <1>1, <1>2 DEF BeginSignUp, Idle, Stages
  <1>3. ASSUME NEW p \in Profiles, BeginWithdraw(r, p) PROVE PatrolsInv'
    BY <1>1, <1>3 DEF BeginWithdraw, Idle, Stages
  <1>4. ASSUME NEW wanted \in BOOLEAN, BeginEdit(r, wanted) PROVE PatrolsInv'
    <2>1. cookingEnabled \in BOOLEAN
      BY DEF TypeOK
    <2> QED BY <1>1, <1>4, <2>1 DEF BeginEdit, Idle, Stages
  <1>5. ASSUME NEW op \in AllTabOps, NEW p \in Profiles \union {NoProfile},
               NEW k \in Patrols \union {NoPatrol}, BeginTab(r, op, p, k)
        PROVE  PatrolsInv'
    <2>1. op \in Stages \ {"assign"}
      BY DEF AllTabOps, Stages
    <2> QED BY <1>1, <1>5, <2>1 DEF BeginTab, Idle
  <1> QED BY <1>2, <1>3, <1>4, <1>5 DEF Begin, AllTabOps

\* The step of enabling cooking: nobody but the adults moves, and the index lets them
\* come with no second cook.
LEMMA EnableSafe ==
  ASSUME TypeOK, PatrolsInv, exists, UNCHANGED <<exists, attendee>>,
         NEW k \in AdultPatrol, EnableCooking(k)
  PROVE  /\ MembersHavePatrols' /\ OneAdultPatrol' /\ OneCookPerPatrol'
         /\ \A j \in Patrols : patrol'[j] \in {patrol[j], "adult"}
  <1> USE DEF PatrolsInv
  <1>0. /\ k \in Patrols
        /\ patrol[k] \in {"adult", "none"}
        /\ patrol'[k] = "adult"
        /\ \A j \in Patrols \ {k} : patrol'[j] = patrol[j] /\ patrol[j] # "adult"
    BY DEF AdultPatrol, OfKind, Fresh, EnableCooking, TypeOK, OneAdultPatrol
  <1>1. \A p \in Profiles : member'[p] = IF p \in SignedUpAdults THEN k ELSE member[p]
    BY DEF EnableCooking
  <1>2. MembersHavePatrols'
    <2>1. \A p \in SignedUpAdults : attendee[p] # "none"
      BY DEF SignedUpAdults
    <2>2. cook' = cook /\ k # NoPatrol
      BY <1>0, ConstantsAssumption DEF EnableCooking
    <2>3. \A p \in Profiles : member'[p] # NoPatrol =>
             member'[p] \in Patrols /\ patrol'[member'[p]] # "none" /\ attendee'[p] # "none"
      BY <1>0, <1>1, <2>1 DEF MembersHavePatrols
    <2>4. \A p \in cook' : member'[p] # NoPatrol
      BY <1>1, <2>2 DEF MembersHavePatrols, TypeOK
    <2> QED BY <2>3, <2>4 DEF MembersHavePatrols
  <1>3. OneAdultPatrol'
    BY <1>0 DEF OneAdultPatrol, OfKind
  <1>4. ASSUME NEW p \in cook', NEW q \in cook', member'[p] = member'[q] PROVE p = q
    <2>1. p \in Profiles /\ q \in Profiles /\ p \in cook /\ q \in cook
      BY <1>4 DEF EnableCooking, TypeOK
    <2>2. CASE p \in SignedUpAdults \/ q \in SignedUpAdults
      <3>1. {p, q} \subseteq SignedUpAdults \union Members(k)
        BY <1>1, <1>4, <2>1, <2>2 DEF Members
      <3> QED BY <2>1, <3>1 DEF EnableCooking, CooksCollide
    <2>3. CASE p \notin SignedUpAdults /\ q \notin SignedUpAdults
      BY <1>1, <1>4, <2>1, <2>3 DEF OneCookPerPatrol
    <2> QED BY <2>2, <2>3
  <1>5. OneCookPerPatrol'
    BY <1>4 DEF OneCookPerPatrol
  <1> QED BY <1>0, <1>2, <1>3, <1>5

LEMMA ServeSafe ==
  ASSUME TypeOK, PatrolsInv, NEW r \in Requests, Serve(r)
  PROVE  PatrolsInv'
  <1>0. /\ req \in [Requests -> RequestRecord]
        /\ req[r] \in RequestRecord
    BY DEF TypeOK
  <1>1. CASE Enrol(r) \/ ReadToggle(r) \/ CancelAttendance(r) \/ FindPatrol(r)
    <2>1. SafeToAssign(r)' /\ \A s \in Requests \ {r} : req'[s] = req[s]
      BY <1>1, MoveSafe DEF Enrol, ReadToggle, CancelAttendance, FindPatrol, Stages, AllTabOps
    <2>2. \A p \in Profiles : attendee[p] # "none" => attendee'[p] # "none"
      BY <1>1 DEF Enrol, ReadToggle, CancelAttendance, FindPatrol, TypeOK
    <2> QED BY <1>1, <2>1, <2>2, OnlyMoves DEF Enrol, ReadToggle, CancelAttendance, FindPatrol
  <1>2. CASE FindAdultPatrol(r)
    <2>1. ASSUME NEW k \in OfKind("adult"),
                 req' = [req EXCEPT ![r].stage = "assign", ![r].patrol = k]
          PROVE  SafeToAssign(r)' /\ \A s \in Requests \ {r} : req'[s] = req[s]
      BY <1>0, <1>2, <2>1 DEF FindAdultPatrol, OfKind, SafeToAssign, RequestRecord
    <2>2. SafeToAssign(r)' /\ \A s \in Requests \ {r} : req'[s] = req[s]
      BY <1>2, <2>1, MoveSafe DEF FindAdultPatrol, Stages
    <2> QED BY <1>2, <2>2, OnlyMoves DEF FindAdultPatrol
  <1>3. CASE CreateAdult(r)
    <2>1. CASE Finish(r) /\ UNCHANGED patrol
      BY <1>3, <2>1, MoveSafe, OnlyMoves DEF CreateAdult
    <2>2. ASSUME exists, OfKind("adult") = {}, NEW k \in Fresh,
                 patrol' = [patrol EXCEPT ![k] = "adult"],
                 req' = [req EXCEPT ![r].stage = "assign", ![r].patrol = k]
          PROVE  PatrolsInv'
      <3>1. /\ k \in Patrols /\ patrol[k] = "none" /\ patrol'[k] = "adult"
            /\ \A j \in Patrols \ {k} : patrol'[j] = patrol[j] /\ patrol[j] # "adult"
        BY <2>2 DEF Fresh, OfKind, TypeOK
      <3>2. SafeToAssign(r)' /\ \A s \in Requests \ {r} : req'[s] = req[s]
        BY <1>0, <2>2, <3>1 DEF SafeToAssign, RequestRecord
      <3>3. \A s \in Requests : SafeToAssign(s)'
        BY <3>1, <3>2, OthersSafe DEF PatrolsInv
      <3>4. UNCHANGED <<exists, attendee, member, cook>>
        BY <1>3 DEF CreateAdult
      <3>5. MembersHavePatrols'
        BY <2>2, <3>1, <3>4, ConstantsAssumption DEF PatrolsInv, MembersHavePatrols
      <3>6. OneAdultPatrol' /\ OneCookPerPatrol'
        BY <3>1, <3>4 DEF PatrolsInv, OneAdultPatrol, OneCookPerPatrol, OfKind
      <3> QED BY <3>3, <3>5, <3>6 DEF PatrolsInv
    <2> QED BY <1>3, <2>1, <2>2 DEF CreateAdult
  <1>4. CASE CheckPatrol(r)
    <2>1. CASE patrol[req[r].patrol] = "adult"
      <3>1. SafeToAssign(r)' /\ \A s \in Requests \ {r} : req'[s] = req[s]
        BY <1>0, <1>4, <2>1 DEF CheckPatrol, GoTo, SafeToAssign, RequestRecord
      <3> QED BY <1>4, <3>1, OnlyMoves DEF CheckPatrol
    <2>2. CASE patrol[req[r].patrol] # "adult"
      BY <1>4, <2>2, MoveSafe, OnlyMoves DEF CheckPatrol
    <2> QED BY <2>1, <2>2
  <1>5. CASE Assign(r)
    <2> DEFINE p == req[r].profile
               k == req[r].patrol
    <2>1. p \in Profiles /\ k \in Patrols /\ UNCHANGED <<exists, attendee, patrol>>
      BY <1>0, <1>5 DEF RequestRecord, Assign
    <2>2. SafeToAssign(r)' /\ \A s \in Requests \ {r} : req'[s] = req[s]
      BY <1>5, MoveSafe DEF Assign
    <2>3. CASE UNCHANGED <<member, cook>>
      BY <2>1, <2>2, <2>3, OnlyMoves
    <2>4. CASE /\ patrol[k] # "none" /\ attendee[p] # "none"
               /\ member' = [member EXCEPT ![p] = k]
               /\ cook' = cook \ {p}
      <3>1. \A s \in Requests : SafeToAssign(s)'
        BY <2>1, <2>2, OthersSafe DEF PatrolsInv
      <3>2. /\ member'[p] = k
            /\ \A q \in Profiles \ {p} : member'[q] = member[q]
        BY <2>1, <2>4 DEF TypeOK
      <3>3. MembersHavePatrols'
        BY <2>1, <2>4, <3>2 DEF PatrolsInv, MembersHavePatrols, TypeOK
      <3>4. OneAdultPatrol'
        BY <2>1 DEF PatrolsInv, OneAdultPatrol, OfKind
      <3>5. OneCookPerPatrol'
        BY <2>4, <3>2 DEF PatrolsInv, OneCookPerPatrol, TypeOK
      <3> QED BY <3>1, <3>3, <3>4, <3>5 DEF PatrolsInv
    <2> QED BY <1>5, <2>3, <2>4 DEF Assign
  <1>6. CASE ListPatrols(r) \/ ListMembers(r)
    <2>1. SafeToAssign(r)' /\ \A s \in Requests \ {r} : req'[s] = req[s]
      <3>1. CASE ListPatrols(r)
        BY <1>0, <3>1 DEF ListPatrols, SafeToAssign, RequestRecord
      <3>2. CASE ListMembers(r)
        BY <1>0, <3>2 DEF ListMembers, SafeToAssign, Idle
      <3> QED BY <1>6, <3>1, <3>2
    <2> QED BY <1>6, <2>1, OnlyMoves DEF ListPatrols, ListMembers
  <1>7. CASE ClearListed(r) \/ ClearCook(r)
    <2>1. SafeToAssign(r)' /\ \A s \in Requests \ {r} : req'[s] = req[s]
      BY <1>7, MoveSafe DEF ClearListed, ClearCook, Stages
    <2> QED BY <1>7, <2>1, ClearSafe DEF ClearListed, ClearCook
  <1>8. CASE Remove(r)
    <2> DEFINE p == req[r].profile
    <2>1. p \in Profiles /\ UNCHANGED <<exists, attendee, patrol>> /\ cook' = cook \ {p}
      BY <1>0, <1>8 DEF RequestRecord, Remove
    <2>2. /\ member'[p] = NoPatrol
          /\ \A q \in Profiles \ {p} : member'[q] = member[q]
      BY <1>8, <2>1 DEF TypeOK, Remove
    <2>3. SafeToAssign(r)' /\ \A s \in Requests \ {r} : req'[s] = req[s]
      BY <1>8, MoveSafe DEF Remove
    <2>4. \A s \in Requests : SafeToAssign(s)'
      BY <2>1, <2>3, OthersSafe DEF PatrolsInv
    <2>5. MembersHavePatrols'
      BY <2>1, <2>2 DEF PatrolsInv, MembersHavePatrols, TypeOK
    <2>6. OneAdultPatrol'
      BY <2>1 DEF PatrolsInv, OneAdultPatrol, OfKind
    <2>7. OneCookPerPatrol'
      BY <2>1, <2>2 DEF PatrolsInv, OneCookPerPatrol, TypeOK
    <2> QED BY <2>4, <2>5, <2>6, <2>7 DEF PatrolsInv
  <1>9. CASE SetCook(r)
    <2> DEFINE p == req[r].profile
               k == req[r].patrol
    <2>1. /\ p \in Profiles /\ k \in Patrols /\ k # NoPatrol
          /\ UNCHANGED <<exists, attendee, patrol, member>>
      BY <1>0, <1>9, ConstantsAssumption DEF RequestRecord, SetCook
    <2>2. SafeToAssign(r)' /\ \A s \in Requests \ {r} : req'[s] = req[s]
      BY <1>9, MoveSafe DEF SetCook
    <2>3. \A s \in Requests : SafeToAssign(s)'
      BY <2>1, <2>2, OthersSafe DEF PatrolsInv
    <2>4. cook' = cook \/ (member[p] = k /\ cook' = (cook \ Members(k)) \union {p})
      BY <1>9 DEF SetCook
    <2>5. MembersHavePatrols' /\ OneAdultPatrol'
      BY <2>1, <2>4 DEF PatrolsInv, MembersHavePatrols, OneAdultPatrol, OfKind
    <2>6. OneCookPerPatrol'
      BY <2>1, <2>4 DEF PatrolsInv, OneCookPerPatrol, Members, TypeOK
    <2> QED BY <2>3, <2>5, <2>6 DEF PatrolsInv
  <1>10. CASE CreateYouth(r)
    <2>1. SafeToAssign(r)' /\ \A s \in Requests \ {r} : req'[s] = req[s]
      BY <1>10, MoveSafe DEF CreateYouth
    <2>2. CASE UNCHANGED patrol
      BY <1>10, <2>1, <2>2, OnlyMoves DEF CreateYouth
    <2>3. ASSUME exists, NEW k \in Fresh, patrol' = [patrol EXCEPT ![k] = "youth"]
          PROVE  PatrolsInv'
      <3>1. /\ k \in Patrols /\ patrol[k] = "none" /\ patrol'[k] = "youth"
            /\ \A j \in Patrols \ {k} : patrol'[j] = patrol[j]
            /\ \A s \in Requests : req[s].patrol # k
        BY <2>3 DEF Fresh, OfKind, TypeOK
      <3>2. UNCHANGED <<exists, attendee, member, cook>>
        BY <1>10 DEF CreateYouth
      <3>3. \A s \in Requests : SafeToAssign(s)'
        BY <2>1, <3>1, OthersSafe DEF PatrolsInv
      <3>4. MembersHavePatrols'
        BY <2>3, <3>1, <3>2, ConstantsAssumption DEF PatrolsInv, MembersHavePatrols
      <3>5. OneAdultPatrol' /\ OneCookPerPatrol'
        BY <3>1, <3>2 DEF PatrolsInv, OneAdultPatrol, OneCookPerPatrol, OfKind
      <3> QED BY <3>3, <3>4, <3>5 DEF PatrolsInv
    <2> QED BY <1>10, <2>2, <2>3 DEF CreateYouth
  <1>11. CASE Delete(r)
    <2>1. SafeToAssign(r)' /\ \A s \in Requests \ {r} : req'[s] = req[s]
      BY <1>11, MoveSafe DEF Delete
    <2>2. DeletePatrols({req[r].patrol}) /\ UNCHANGED <<exists, attendee>>
      BY <1>11 DEF Delete
    <2> QED BY <2>1, <2>2, DeleteSafe, OthersSafe DEF PatrolsInv
  <1>12. CASE Update(r)
    <2>1. SafeToAssign(r)' /\ \A s \in Requests \ {r} : req'[s] = req[s]
      BY <1>12, MoveSafe DEF Update
    <2>2. UNCHANGED <<exists, attendee>>
      BY <1>12 DEF Update
    <2>3. CASE UNCHANGED <<patrol, member, cook>>
      BY <2>1, <2>2, <2>3, OnlyMoves
    <2>4. CASE DeletePatrols(Patrols)
      BY <2>1, <2>2, <2>4, DeleteSafe, OthersSafe DEF PatrolsInv
    <2>5. ASSUME exists, NEW k \in AdultPatrol, EnableCooking(k)
          PROVE  PatrolsInv'
      <3>1. /\ MembersHavePatrols' /\ OneAdultPatrol' /\ OneCookPerPatrol'
            /\ \A j \in Patrols : patrol'[j] \in {patrol[j], "adult"}
        BY <2>2, <2>5, EnableSafe
      <3>2. \A s \in Requests : SafeToAssign(s)'
        BY <2>1, <3>1, OthersSafe DEF PatrolsInv
      <3> QED BY <3>1, <3>2 DEF PatrolsInv
    <2> QED BY <1>12, <2>3, <2>4, <2>5 DEF Update, ApplyToggle
  <1>13. CASE ReadType(r) \/ Place(r)
    <2>1. SafeToAssign(r)' /\ \A s \in Requests \ {r} : req'[s] = req[s]
      <3>1. CASE ReadType(r) /\ req[r].profile \in adults
        BY <1>0, <3>1 DEF ReadType, SafeToAssign, RequestRecord
      <3>2. CASE ReadType(r) /\ req[r].profile \notin adults
        BY <3>2, MoveSafe DEF ReadType
      <3>3. CASE Place(r)
        BY <1>0, <3>3 DEF Place, SafeToAssign, RequestRecord
      <3> QED BY <1>13, <3>1, <3>2, <3>3
    <2> QED BY <1>13, <2>1, OnlyMoves DEF ReadType, Place
  <1> QED BY <1>1, <1>2, <1>3, <1>4, <1>5, <1>6, <1>7, <1>8, <1>9, <1>10, <1>11, <1>12, <1>13
          DEF Serve

LEMMA StepSafe == TypeOK /\ PatrolsInv /\ [Next]_vars => PatrolsInv'
  <1> SUFFICES ASSUME TypeOK, PatrolsInv, [Next]_vars PROVE PatrolsInv'
    OBVIOUS
  <1>1. ASSUME NEW r \in Requests, StatementFails(r) PROVE PatrolsInv'
    BY <1>1, MoveSafe, OnlyMoves DEF StatementFails
  <1>2. CASE EventDelete
    <2>1. UNCHANGED req
      BY <1>2 DEF EventDelete
    <2>2. \A k \in Patrols : patrol'[k] = "none"
      BY <1>2 DEF EventDelete, DeletePatrols
    <2>3. \A r \in Requests : SafeToAssign(r)'
      BY <2>1, <2>2 DEF SafeToAssign, TypeOK, RequestRecord
    <2> QED BY <1>2, <2>3, DeleteSafe DEF EventDelete, PatrolsInv
  <1>3. CASE UNCHANGED vars \/ \E p \in Retyped : ChangeMemberType(p)
    BY <1>3 DEF vars, ChangeMemberType, PatrolsInv, MembersHavePatrols, OneAdultPatrol,
                OneCookPerPatrol, SafeToAssign, OfKind
  <1> QED BY <1>1, <1>2, <1>3, BeginSafe, ServeSafe DEF Next

LEMMA PatrolsInvariant == Spec => []PatrolsInv
  <1>1. Init => PatrolsInv
    BY ConstantsAssumption DEF Init, Idle, PatrolsInv, MembersHavePatrols, OneAdultPatrol,
           OneCookPerPatrol, SafeToAssign, OfKind
  <1> QED BY <1>1, StepSafe, TypeCorrect, PTL DEF Spec

\* No interleaving of sign-ups, placements, deletions, edits and changes of type puts one
\* who is an adult into a youth patrol, but a placement that found a youth.
THEOREM AdultsStayTogether == Spec => AdultsPlacedWithAdults
  <1> DEFINE Found(p, r) == /\ req[r].stage = "assign" /\ req[r].profile = p
                            /\ ~req[r].adult /\ req'[r] = Idle
             Together == \A p \in adults :
                InYouthPatrol(p)' /\ (member'[p] # member[p] \/ ~InYouthPatrol(p)) =>
                   \E r \in Requests : /\ req[r].stage = "assign" /\ req[r].profile = p
                                      /\ ~req[r].adult /\ req'[r] = Idle
  <1>1. ASSUME TypeOK, PatrolsInv, Next, NEW p \in adults, InYouthPatrol(p)',
               member'[p] # member[p] \/ ~InYouthPatrol(p)
        PROVE  \E r \in Requests : Found(p, r)
    <2>0. /\ p \in Profiles /\ member'[p] # NoPatrol /\ patrol'[member'[p]] = "youth"
          /\ member'[p] = member[p] => patrol[member[p]] # "youth"
          /\ member[p] # NoPatrol => member[p] \in Patrols /\ patrol[member[p]] # "none"
      BY <1>1 DEF TypeOK, InYouthPatrol, PatrolsInv, MembersHavePatrols
    <2>1. ~ UNCHANGED <<patrol, member>>
      BY <2>0
    <2>2. ASSUME NEW doomed, DeletePatrols(doomed) PROVE FALSE
      <3>1. member'[p] = member[p] /\ member[p] \notin doomed /\ member[p] \in Patrols
        BY <2>0, <2>2 DEF DeletePatrols
      <3> QED BY <2>0, <2>2, <3>1 DEF DeletePatrols
    <2>3. ASSUME NEW k \in Patrols, NEW kind \in {"adult", "youth"}, patrol[k] = "none",
                 patrol' = [patrol EXCEPT ![k] = kind], UNCHANGED member
          PROVE  FALSE
      BY <1>1, <2>0, <2>3 DEF TypeOK
    <2>4. ASSUME NEW r \in Requests, Assign(r) PROVE Found(p, r)
      <3>1. /\ req[r].profile \in Profiles /\ UNCHANGED patrol
            /\ req[r].stage = "assign" /\ req'[r] = Idle
        BY <1>1, <2>4 DEF TypeOK, RequestRecord, Assign, Finish
      <3>2. req[r].profile = p /\ member'[p] = req[r].patrol
        BY <1>1, <2>0, <2>4, <3>1 DEF Assign, TypeOK
      <3>3. ~req[r].adult
        BY <1>1, <2>0, <3>1, <3>2 DEF PatrolsInv, SafeToAssign
      <3> QED BY <3>1, <3>2, <3>3
    <2>5. ASSUME NEW r \in Requests, Remove(r) PROVE FALSE
      BY <1>1, <2>0, <2>5 DEF Remove, TypeOK
    <2>6. ASSUME NEW r \in Requests, CreateAdult(r) \/ CreateYouth(r) PROVE FALSE
      BY <2>1, <2>3, <2>6 DEF CreateAdult, CreateYouth, Fresh, OfKind
    <2>7. ASSUME NEW r \in Requests, Update(r) PROVE FALSE
      <3>1. PICK k \in AdultPatrol : EnableCooking(k)
        BY <2>1, <2>2, <2>7 DEF Update, ApplyToggle
      <3>2. k \in Patrols /\ patrol' = [patrol EXCEPT ![k] = "adult"]
        BY <3>1 DEF EnableCooking, AdultPatrol, OfKind, Fresh
      <3>3. member'[p] = IF p \in SignedUpAdults THEN k ELSE member[p]
        BY <2>0, <3>1 DEF EnableCooking
      <3> QED BY <1>1, <2>0, <3>2, <3>3 DEF TypeOK
    <2>8. ASSUME NEW r \in Requests,
                 \/ Begin(r) \/ StatementFails(r)
                 \/ /\ Serve(r) /\ ~Assign(r) /\ ~Remove(r) /\ ~CreateAdult(r)
                    /\ ~CreateYouth(r) /\ ~Delete(r) /\ ~Update(r)
          PROVE  FALSE
      BY <2>1, <2>8 DEF Begin, BeginSignUp, BeginWithdraw, BeginEdit, BeginTab, Admit,
            StatementFails, Serve, Enrol, ReadToggle, ReadType, FindAdultPatrol, Place,
            CheckPatrol, CancelAttendance, ListPatrols, ListMembers, ClearListed, FindPatrol,
            SetCook, ClearCook
    <2>9. ASSUME NEW r \in Requests, Delete(r) PROVE FALSE
      BY <2>2, <2>9 DEF Delete
    <2>10. ~EventDelete /\ \A q \in Retyped : ~ChangeMemberType(q)
      BY <2>1, <2>2 DEF EventDelete, ChangeMemberType
    <2>11. PICK r \in Requests : Begin(r) \/ Serve(r) \/ StatementFails(r)
      BY <1>1, <2>10 DEF Next
    <2> QED BY <2>4, <2>5, <2>6, <2>7, <2>8, <2>9, <2>11
  <1>2. TypeOK /\ PatrolsInv /\ [Next]_vars => [Together]_vars
    BY <1>1
  <1> QED BY <1>2, TypeCorrect, PatrolsInvariant, PTL DEF Spec, AdultsPlacedWithAdults

\* No patrol ever has two cooks: the index that forbids it is needed for the enabling of
\* cooking only.
THEOREM SingleCook == Spec => []OneCookPerPatrol
  BY PatrolsInvariant, PTL DEF PatrolsInv

\* No member without patrol and attendee, no cook without member, no patrol without event.
THEOREM NoOrphans == Spec => []MembersHavePatrols
  BY PatrolsInvariant, PTL DEF PatrolsInv

-----------------------------------------------------------------------------
(***************************************************************************)
(* One request at a time.  Then nothing lies between the moment a handler  *)
(* reads the toggle, or whom it is about to take the designation from, and *)
(* the moment it acts on it, but the deletion of the event.                *)
(***************************************************************************)

ToggleKnown(r) ==
    LET q == req[r]
    IN /\ q.stage = "update" => (q.was <=> cookingEnabled)
       /\ q.stage \in {"readType", "findAdultPatrol", "createAdult", "createYouth"} =>
            cookingEnabled
       /\ q.stage = "clearListed" =>
            ~exists \/ (q.profile \in cook /\ member[q.profile] = q.patrol)

DisabledIsEmpty == ~cookingEnabled => \A k \in Patrols : patrol[k] = "none"

SerialInv == (\A r \in Requests : ToggleKnown(r)) /\ DisabledIsEmpty

\* A request that ends, or waits for a statement that relies on nothing it has read.
LEMMA MoveKnown ==
  ASSUME TypeOK, NEW r \in Requests
  PROVE  /\ Finish(r) => ToggleKnown(r)'
         /\ \A x \in Stages \ {"update", "readType", "findAdultPatrol", "createAdult",
                               "createYouth", "clearListed"} :
              GoTo(r, x) => ToggleKnown(r)'
  <1>1. req \in [Requests -> RequestRecord] /\ req[r] \in RequestRecord
    BY DEF TypeOK
  <1>2. ASSUME Finish(r) PROVE ToggleKnown(r)'
    <2>1. req'[r].stage = "idle"
      BY <1>1, <1>2 DEF Finish, Idle
    <2> QED BY <2>1 DEF ToggleKnown
  <1>3. ASSUME NEW x \in Stages \ {"update", "readType", "findAdultPatrol", "createAdult",
                                   "createYouth", "clearListed"}, GoTo(r, x)
        PROVE  ToggleKnown(r)'
    <2>1. req'[r].stage = x
      BY <1>1, <1>3 DEF GoTo, RequestRecord
    <2> QED BY <2>1 DEF ToggleKnown
  <1> QED BY <1>2, <1>3

LEMMA BeginSerial ==
  ASSUME \A s, t \in Requests : s = t, TypeOK, SerialInv, NEW r \in Requests, Begin(r)
  PROVE  SerialInv'
  <1>1. UNCHANGED <<exists, cookingEnabled, patrol, member, cook>>
    BY DEF Begin, BeginSignUp, BeginWithdraw, BeginEdit, BeginTab, Admit
  <1>2. ASSUME NEW q, q.stage \in {"enrol", "cancel", "createYouth", "delete", "clearCook", "place",
                                   "findPatrol", "listPatrols"},
               q.stage = "createYouth" => cookingEnabled,
               Admit(r, q)
        PROVE  ToggleKnown(r)'
    <2>1. req'[r] = q
      BY <1>2 DEF Admit, TypeOK
    <2> QED BY <1>1, <1>2, <2>1 DEF ToggleKnown
  <1>3. ASSUME NEW p \in Profiles, BeginSignUp(r, p) PROVE ToggleKnown(r)'
    <2>1. PICK q : q = [Idle EXCEPT !.stage = "enrol", !.profile = p]
      OBVIOUS
    <2>2. q.stage = "enrol"
      BY <2>1 DEF Idle
    <2>3. Admit(r, q)
      BY <2>1, <1>3 DEF BeginSignUp
    <2> QED BY <1>2, <2>2, <2>3
  <1>4. ASSUME NEW p \in Profiles, BeginWithdraw(r, p) PROVE ToggleKnown(r)'
    <2>1. PICK q : q = [Idle EXCEPT !.stage = "cancel", !.profile = p]
      OBVIOUS
    <2>2. q.stage = "cancel"
      BY <2>1 DEF Idle
    <2>3. Admit(r, q)
      BY <2>1, <1>4 DEF BeginWithdraw
    <2> QED BY <1>2, <2>2, <2>3
  <1>5. ASSUME NEW wanted \in BOOLEAN, BeginEdit(r, wanted) PROVE ToggleKnown(r)'
    <2>1. req'[r] = [Idle EXCEPT !.stage = "update", !.was = cookingEnabled, !.wanted = wanted]
      BY <1>5 DEF BeginEdit, Admit, TypeOK
    <2>2. req'[r].stage = "update" /\ req'[r].was = cookingEnabled
      BY <2>1 DEF Idle
    <2> QED BY <1>1, <2>2 DEF ToggleKnown
  <1>6. ASSUME NEW op \in AllTabOps, NEW p, NEW k, BeginTab(r, op, p, k) PROVE ToggleKnown(r)'
    <2>1. PICK q : q = [Idle EXCEPT !.stage = op, !.profile = p, !.patrol = k]
      OBVIOUS
    <2>2. q.stage = op
      BY <2>1 DEF Idle
    <2>3. Admit(r, q)
      BY <2>1, <1>6 DEF BeginTab
    <2> QED BY <1>2, <2>2, <2>3, <1>6 DEF BeginTab, AllTabOps
  <1>7. ToggleKnown(r)'
    BY <1>3, <1>5, <1>6, <1>4 DEF Begin, AllTabOps
  <1>8. \A s \in Requests : ToggleKnown(s)'
    BY <1>7
  <1> QED BY <1>1, <1>8 DEF SerialInv, DisabledIsEmpty

LEMMA ServeSerial ==
  ASSUME \A s, t \in Requests : s = t, TypeOK, PatrolsInv, SerialInv,
         NEW r \in Requests, Serve(r)
  PROVE  SerialInv'
  <1>0. /\ req \in [Requests -> RequestRecord]
        /\ req[r] \in RequestRecord
        /\ ToggleKnown(r)
        /\ DisabledIsEmpty
    BY DEF TypeOK, SerialInv
  <1>1. ASSUME ToggleKnown(r)', DisabledIsEmpty' PROVE SerialInv'
    <2>1. \A s \in Requests : ToggleKnown(s)'
      BY <1>1
    <2> QED BY <1>1, <2>1 DEF SerialInv
  <1>2. ASSUME UNCHANGED <<cookingEnabled, patrol>> PROVE DisabledIsEmpty'
    BY <1>0, <1>2 DEF DisabledIsEmpty
  <1>3. ASSUME cookingEnabled, UNCHANGED cookingEnabled PROVE DisabledIsEmpty'
    BY <1>3 DEF DisabledIsEmpty
  <1>4. CASE \/ Enrol(r) \/ CheckPatrol(r) \/ Assign(r) \/ CancelAttendance(r) \/ ClearListed(r)
             \/ Remove(r) \/ FindPatrol(r) \/ SetCook(r) \/ ClearCook(r)
    <2>1. ToggleKnown(r)'
      BY <1>4, MoveKnown DEF Enrol, CheckPatrol, Assign, CancelAttendance, ClearListed, Remove,
                             FindPatrol, SetCook, ClearCook, Stages, AllTabOps
    <2>2. UNCHANGED <<cookingEnabled, patrol>>
      BY <1>4 DEF Enrol, CheckPatrol, Assign, CancelAttendance, ClearListed, Remove, FindPatrol,
                  SetCook, ClearCook
    <2> QED BY <2>1, <2>2, <1>1, <1>2
  <1>5. CASE ReadToggle(r)
    <2>1. UNCHANGED <<cookingEnabled, patrol>>
      BY <1>5 DEF ReadToggle
    <2>2. ASSUME cookingEnabled, GoTo(r, "readType") PROVE ToggleKnown(r)'
      <3>1. req'[r].stage = "readType"
        BY <1>0, <2>2 DEF GoTo, RequestRecord
      <3> QED BY <2>1, <2>2, <3>1 DEF ToggleKnown
    <2>3. ToggleKnown(r)'
      BY <1>5, <2>2, MoveKnown DEF ReadToggle
    <2> QED BY <2>1, <2>3, <1>1, <1>2
  <1>6. CASE FindAdultPatrol(r)
    <2>1. UNCHANGED <<cookingEnabled, patrol>>
      BY <1>6 DEF FindAdultPatrol
    <2>2. cookingEnabled
      BY <1>0, <1>6 DEF FindAdultPatrol, ToggleKnown
    <2>3. ASSUME NEW k, req' = [req EXCEPT ![r].stage = "assign", ![r].patrol = k]
          PROVE  req'[r].stage = "assign"
      BY <1>0, <2>3 DEF RequestRecord
    <2>4. ASSUME GoTo(r, "createAdult") PROVE req'[r].stage = "createAdult"
      BY <1>0, <2>4 DEF RequestRecord, GoTo
    <2>5. ToggleKnown(r)'
      BY <1>6, <2>1, <2>2, <2>3, <2>4 DEF FindAdultPatrol, ToggleKnown
    <2> QED BY <2>1, <2>5, <1>1, <1>2
  <1>7. CASE CreateAdult(r)
    <2>1. cookingEnabled /\ UNCHANGED cookingEnabled
      BY <1>0, <1>7 DEF CreateAdult, ToggleKnown
    <2>2. ASSUME NEW k, req' = [req EXCEPT ![r].stage = "assign", ![r].patrol = k]
          PROVE  ToggleKnown(r)'
      <3>1. req'[r].stage = "assign"
        BY <1>0, <2>2 DEF RequestRecord
      <3> QED BY <3>1 DEF ToggleKnown
    <2>3. ToggleKnown(r)'
      BY <1>7, <2>2, MoveKnown DEF CreateAdult
    <2> QED BY <2>1, <2>3, <1>1, <1>3
  <1>8. CASE CreateYouth(r)
    <2>1. cookingEnabled /\ UNCHANGED cookingEnabled
      BY <1>0, <1>8 DEF CreateYouth, ToggleKnown
    <2>2. ToggleKnown(r)'
      BY <1>8, MoveKnown DEF CreateYouth
    <2> QED BY <2>1, <2>2, <1>1, <1>3
  <1>9. CASE ListPatrols(r)
    <2>1. req'[r].stage = "listMembers"
      BY <1>0, <1>9 DEF ListPatrols, RequestRecord
    <2>2. ToggleKnown(r)' /\ UNCHANGED <<cookingEnabled, patrol>>
      BY <1>9, <2>1 DEF ToggleKnown, ListPatrols
    <2> QED BY <2>2, <1>1, <1>2
  <1>10. CASE ListMembers(r)
    <2> DEFINE p == req[r].profile
    <2>1. UNCHANGED <<exists, cookingEnabled, patrol, member, cook>>
      BY <1>10 DEF ListMembers
    <2>2. CASE p \in cook /\ member[p] \in req[r].seen
      <3>1. req'[r] = [Idle EXCEPT !.stage = "clearListed", !.profile = p, !.patrol = member[p]]
        BY <1>0, <1>10, <2>2 DEF ListMembers
      <3>2. /\ req'[r].stage = "clearListed" /\ req'[r].profile = p
            /\ req'[r].patrol = member[p]
        BY <3>1 DEF Idle
      <3> QED BY <2>1, <2>2, <3>2, <1>1, <1>2 DEF ToggleKnown
    <2>3. CASE ~ (p \in cook /\ member[p] \in req[r].seen)
      <3>1. req'[r] = [Idle EXCEPT !.stage = "remove", !.profile = p]
        BY <1>0, <1>10, <2>3 DEF ListMembers
      <3>2. req'[r].stage = "remove"
        BY <3>1 DEF Idle
      <3> QED BY <2>1, <3>2, <1>1, <1>2 DEF ToggleKnown
    <2> QED BY <2>2, <2>3
  <1>11. CASE Delete(r)
    <2>1. ToggleKnown(r)' /\ UNCHANGED cookingEnabled
      BY <1>11, MoveKnown DEF Delete
    <2>2. \A k \in Patrols : patrol[k] = "none" => patrol'[k] = "none"
      BY <1>11 DEF Delete, DeletePatrols
    <2> QED BY <2>1, <2>2, <1>0, <1>1 DEF DisabledIsEmpty
  <1>12. CASE Update(r)
    <2>1. ToggleKnown(r)'
      BY <1>12, MoveKnown DEF Update
    <2>2. CASE UNCHANGED <<cookingEnabled, patrol, member, cook>>
      BY <1>2, <2>2, <1>1, <2>1
    <2>3. CASE /\ cookingEnabled' = req[r].wanted
               /\ ApplyToggle(req[r].was, req[r].wanted)
      <3>1. (req[r].was <=> cookingEnabled) /\ (cookingEnabled' <=> req[r].wanted)
        <4>1. req[r].stage = "update"
          BY <1>12 DEF Update
        <4> QED BY <1>0, <2>3, <4>1, Zenon DEF ToggleKnown
      <3>2. CASE req[r].wanted
        BY <3>1, <3>2, <2>1, <1>1 DEF DisabledIsEmpty
      <3>3. CASE ~req[r].wanted /\ req[r].was
        <4>1. DeletePatrols(Patrols)
          BY <1>12, <2>3, <3>3 DEF Update, ApplyToggle
        <4>2. \A k \in Patrols : patrol'[k] = "none"
          BY <4>1 DEF DeletePatrols
        <4> QED BY <4>2, <2>1, <1>1 DEF DisabledIsEmpty
      <3>4. CASE ~req[r].wanted /\ ~req[r].was
        <4>1. UNCHANGED patrol
          BY <1>12, <2>3, <3>4 DEF Update, ApplyToggle
        <4> QED BY <4>1, <3>1, <3>4, <2>1, <1>0, <1>1 DEF DisabledIsEmpty
      <3> QED BY <3>2, <3>3, <3>4
    <2> QED BY <1>12, <2>2, <2>3 DEF Update
  <1>13. CASE ReadType(r)
    <2>1. UNCHANGED <<cookingEnabled, patrol>> /\ cookingEnabled
      BY <1>0, <1>13 DEF ReadType, ToggleKnown
    <2>2. CASE req[r].profile \in adults
      <3>1. req'[r].stage = "findAdultPatrol"
        BY <1>0, <1>13, <2>2 DEF ReadType, RequestRecord
      <3>2. ToggleKnown(r)'
        BY <2>1, <3>1 DEF ToggleKnown
      <3> QED BY <2>1, <3>2, <1>1, <1>2
    <2>3. CASE req[r].profile \notin adults
      <3>1. ToggleKnown(r)'
        BY <1>13, <2>3, MoveKnown DEF ReadType
      <3> QED BY <2>1, <3>1, <1>1, <1>2
    <2> QED BY <2>2, <2>3
  <1>14. CASE Place(r)
    <2>1. UNCHANGED <<cookingEnabled, patrol>> /\ req'[r].stage \in {"checkPatrol", "assign"}
      BY <1>0, <1>14 DEF Place, RequestRecord
    <2>2. ToggleKnown(r)'
      BY <2>1 DEF ToggleKnown
    <2> QED BY <2>1, <2>2, <1>1, <1>2
  <1> QED BY <1>4, <1>5, <1>6, <1>7, <1>8, <1>9, <1>10, <1>11, <1>12, <1>13, <1>14 DEF Serve

LEMMA StepSerial ==
  ASSUME \A s, t \in Requests : s = t
  PROVE  TypeOK /\ PatrolsInv /\ SerialInv /\ [Next]_vars => SerialInv'
  <1> SUFFICES ASSUME TypeOK, PatrolsInv, SerialInv, [Next]_vars PROVE SerialInv'
    OBVIOUS
  <1>1. ASSUME NEW r \in Requests, StatementFails(r) PROVE SerialInv'
    <2>1. ToggleKnown(r)' /\ UNCHANGED <<cookingEnabled, patrol>>
      BY <1>1, MoveKnown DEF StatementFails
    <2>2. \A s \in Requests : ToggleKnown(s)'
      BY <2>1
    <2> QED BY <2>1, <2>2 DEF SerialInv, DisabledIsEmpty
  <1>2. CASE EventDelete
    <2>1. /\ UNCHANGED <<cookingEnabled, req>> /\ ~exists'
          /\ \A k \in Patrols : patrol'[k] = "none"
      BY <1>2 DEF EventDelete, DeletePatrols
    <2> QED BY <2>1 DEF SerialInv, ToggleKnown, DisabledIsEmpty
  <1>3. CASE UNCHANGED vars \/ \E p \in Retyped : ChangeMemberType(p)
    BY <1>3 DEF vars, ChangeMemberType, SerialInv, ToggleKnown, DisabledIsEmpty
  <1> QED BY <1>1, <1>2, <1>3, BeginSerial, ServeSerial DEF Next

LEMMA SerialInvariant ==
  ASSUME \A s, t \in Requests : s = t
  PROVE  Spec => []SerialInv
  <1>1. Init => SerialInv
    BY DEF Init, Idle, SerialInv, ToggleKnown, DisabledIsEmpty
  <1>2. TypeOK /\ PatrolsInv /\ SerialInv /\ [Next]_vars => SerialInv'
    BY StepSerial
  <1> QED BY <1>1, <1>2, TypeCorrect, PatrolsInvariant, PTL DEF Spec

\* When handlers do not overlap, an event with cooking disabled has no patrols,
\* whatever statement has failed: disabling deletes them with the toggle, and only
\* handlers that have found cooking enabled create one.
THEOREM DisabledHasNone ==
  ASSUME \A s, t \in Requests : s = t
  PROVE  Spec => []DisabledHasNoPatrols
  <1>1. SerialInv => DisabledHasNoPatrols
    BY DEF SerialInv, DisabledIsEmpty, DisabledHasNoPatrols
  <1>2. Spec => []SerialInv
    BY SerialInvariant
  <1> QED BY <1>1, <1>2, PTL

\* When handlers do not overlap, the UPDATE that clears the cook of a patrol, in a
\* withdrawal or a removal, finds the profile it was read for still the cook of that
\* patrol, and by OneCookPerPatrol nobody else.
THEOREM OwnCookCleared ==
  ASSUME \A s, t \in Requests : s = t
  PROVE  Spec => OnlyOwnCookCleared
  <1> DEFINE Clears == \A r \in Requests :
               req[r].stage = "clearListed" /\ req'[r] # req[r] => cook \ cook' \subseteq {req[r].profile}
  <1>1. ASSUME TypeOK, PatrolsInv, SerialInv, [Next]_vars, NEW r \in Requests,
               req[r].stage = "clearListed", req'[r] # req[r]
        PROVE  cook \ cook' \subseteq {req[r].profile}
    <2> DEFINE p == req[r].profile
               k == req[r].patrol
    <2>1. /\ ~exists \/ (p \in cook /\ member[p] = k)
          /\ req[r] # Idle
      BY <1>1 DEF SerialInv, ToggleKnown, Idle
    <2>2. CASE ClearListed(r)
      <3>1. CASE ~exists
        <4>1. cook = {}
          BY <1>1, <3>1 DEF PatrolsInv, MembersHavePatrols, TypeOK
        <4> QED BY <4>1
      <3>2. CASE p \in cook /\ member[p] = k
        BY <1>1, <2>2, <3>2 DEF ClearListed, Members, PatrolsInv, OneCookPerPatrol
      <3> QED BY <2>1, <3>1, <3>2
    <2>3. CASE StatementFails(r)
      BY <2>3 DEF StatementFails
    <2>4. ~Begin(r)
      BY <2>1 DEF Begin, BeginSignUp, BeginWithdraw, BeginEdit, BeginTab, Admit
    <2>5. Serve(r) => ClearListed(r)
      BY <1>1 DEF Serve, Enrol, ReadToggle, ReadType, FindAdultPatrol, CreateAdult, Place,
                  CheckPatrol, Assign, CancelAttendance, ListPatrols, ListMembers, Remove, FindPatrol, SetCook,
                  ClearCook, CreateYouth, Delete, Update
    <2>6. ~EventDelete /\ ~UNCHANGED vars /\ \A q \in Retyped : ~ChangeMemberType(q)
      BY <1>1 DEF EventDelete, ChangeMemberType, vars
    <2> QED BY <1>1, <2>2, <2>3, <2>4, <2>5, <2>6 DEF Next
  <1>2. TypeOK /\ PatrolsInv /\ SerialInv /\ [Next]_vars => [Clears]_vars
    BY <1>1
  <1>3. Spec => []SerialInv
    BY SerialInvariant
  <1> QED BY <1>2, <1>3, TypeCorrect, PatrolsInvariant, PTL DEF Spec, OnlyOwnCookCleared

\* When handlers do not overlap, the toggle that EventEdit compares with its form is
\* the one its transaction replaces, so enabling cooking places every adult who is
\* signed up.
THEOREM EnablingPlaces ==
  ASSUME \A s, t \in Requests : s = t
  PROVE  Spec => EnablingPlacesAdults
  <1> DEFINE Places == ~cookingEnabled /\ cookingEnabled' =>
               \A p \in SignedUpAdults : member'[p] # NoPatrol /\ patrol'[member'[p]] = "adult"
  <1>1. ASSUME TypeOK, SerialInv, [Next]_vars, ~cookingEnabled, cookingEnabled',
               NEW p \in SignedUpAdults
        PROVE  member'[p] # NoPatrol /\ patrol'[member'[p]] = "adult"
    <2>1. PICK r \in Requests : Update(r)
      <3>1. ~EventDelete /\ ~UNCHANGED vars /\ \A q \in Retyped : ~ChangeMemberType(q)
        BY <1>1 DEF EventDelete, ChangeMemberType, vars
      <3>2. \A r \in Requests : ~Begin(r) /\ ~StatementFails(r)
        BY <1>1 DEF Begin, BeginSignUp, BeginWithdraw, BeginEdit, BeginTab, Admit, StatementFails
      <3>3. \A r \in Requests : Serve(r) => Update(r)
        BY <1>1 DEF Serve, Enrol, ReadToggle, ReadType, FindAdultPatrol, CreateAdult, Place,
                    CheckPatrol, Assign, CancelAttendance, ListPatrols, ListMembers, ClearListed, Remove, FindPatrol,
                    SetCook, ClearCook, CreateYouth, Delete
      <3> QED BY <1>1, <3>1, <3>2, <3>3 DEF Next
    <2>2. exists /\ req[r].wanted
      BY <1>1, <2>1 DEF Update
    <2>3. ~req[r].was
      <3>1. req[r].stage = "update"
        BY <2>1 DEF Update
      <3>2. ToggleKnown(r)
        BY <1>1 DEF SerialInv
      <3> QED BY <1>1, <3>1, <3>2, Zenon DEF ToggleKnown
    <2>4. PICK k \in AdultPatrol : EnableCooking(k)
      BY <1>1, <2>1, <2>2, <2>3 DEF Update, ApplyToggle
    <2>5. k \in Patrols /\ p \in Profiles
      BY <1>1 DEF AdultPatrol, OfKind, Fresh, SignedUpAdults, TypeOK
    <2>6. member'[p] = k /\ patrol'[k] = "adult"
      BY <1>1, <2>4, <2>5 DEF EnableCooking, TypeOK
    <2> QED BY <2>5, <2>6, ConstantsAssumption
  <1>2. TypeOK /\ SerialInv /\ [Next]_vars => [Places]_vars
    BY <1>1
  <1>3. Spec => []SerialInv
    BY SerialInvariant
  <1> QED BY <1>2, <1>3, TypeCorrect, PTL DEF Spec, EnablingPlacesAdults
=============================================================================
