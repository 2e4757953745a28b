------------------------ MODULE EventAttendanceProofs ------------------------
(***************************************************************************)
(* Theorems about EventAttendance, for every set of profiles, every finite *)
(* set of requests and every bound.                                        *)
(***************************************************************************)
EXTENDS EventAttendance, FiniteSetTheorems, TLAPS

LEMMA CascadeLength == Len(CascadeOrder) = 5
  BY DEF CascadeOrder

LEMMA IdleType == Idle \in RequestRecord
  BY CascadeLength, BoundsAssumption DEF Idle, RequestRecord, Stages, PostStages

\* Deleting a responsibility row keeps the types of the tables.
LEMMA DeleteType ==
  ASSUME TypeOK, NEW p, NEW x, DeleteResponsibility(p, x)
  PROVE  /\ holds' \in [Profiles -> SUBSET Posts]
         /\ seatbelts' \in [Profiles -> 0..MaxSeatbelts]
  <1>1. holds' \in [Profiles -> SUBSET Posts]
    BY DEF TypeOK, DeleteResponsibility
  <1>2. 0 \in 0..MaxSeatbelts
    BY BoundsAssumption
  <1>3. CASE x = "driver"
    BY <1>1, <1>2, <1>3 DEF TypeOK, DeleteResponsibility
  <1>4. CASE x # "driver"
    BY <1>1, <1>4 DEF TypeOK, DeleteResponsibility
  <1> QED BY <1>3, <1>4

\* Giving up, or moving on to a stage that needs no more than the request already has.
LEMMA MoveType ==
  ASSUME TypeOK, NEW r \in Requests, req[r].stage # "idle"
  PROVE  /\ Finish(r) => req' \in [Requests -> RequestRecord]
         /\ \A s \in Stages \ {"evict"} :
              /\ GoTo(r, s)
              /\ req[r].stage \in PostStages \/ s \notin PostStages
              => req' \in [Requests -> RequestRecord]
         /\ NextInCascade(r) => req' \in [Requests -> RequestRecord]
  <1>1. /\ req \in [Requests -> RequestRecord]
        /\ req[r] \in RequestRecord
    BY DEF TypeOK
  <1>2. Finish(r) => req' \in [Requests -> RequestRecord]
    BY <1>1, IdleType DEF Finish
  <1>3. ASSUME NEW s \in Stages \ {"evict"}, GoTo(r, s),
               req[r].stage \in PostStages \/ s \notin PostStages
        PROVE  req' \in [Requests -> RequestRecord]
    <2>1. [req[r] EXCEPT !.stage = s] \in RequestRecord
      BY <1>1, <1>3 DEF RequestRecord
    <2> QED BY <1>1, <1>3, <2>1 DEF GoTo
  <1>4. ASSUME NextInCascade(r) PROVE req' \in [Requests -> RequestRecord]
    <2>1. CASE req[r].step < Len(CascadeOrder)
      <3>1. [req[r] EXCEPT !.step = @ + 1] \in RequestRecord
        BY <1>1, <2>1, CascadeLength DEF RequestRecord
      <3> QED BY <1>1, <1>4, <2>1, <3>1 DEF NextInCascade
    <2>2. CASE ~ (req[r].step < Len(CascadeOrder))
      BY <1>2, <1>4, <2>2 DEF NextInCascade
    <2> QED BY <2>1, <2>2
  <1> QED BY <1>2, <1>3, <1>4

-----------------------------------------------------------------------------
(***************************************************************************)
(* Type correctness.                                                       *)
(***************************************************************************)

\* Every step of the handlers and of the event keeps the types.
LEMMA BeginType ==
  ASSUME TypeOK, NEW r \in Requests, Begin(r)
  PROVE  TypeOK'
  <1> USE BoundsAssumption DEF TypeOK
  <1>0. /\ req \in [Requests -> RequestRecord]
        /\ Idle \in RequestRecord
    BY IdleType
  <1>1. ASSUME NEW q \in RequestRecord, Admit(r, q) PROVE TypeOK'
    BY <1>0, <1>1 DEF Admit, tables
  <1>2. CASE EventCreate(r)
    <2>1. ASSUME NEW p \in Profiles
          PROVE  [Idle EXCEPT !.stage = "enrol", !.op = "create", !.profile = p] \in RequestRecord
      BY <1>0 DEF Idle, RequestRecord, Stages, PostStages
    <2>2. req' \in [Requests -> RequestRecord]
      BY <1>0, <1>2, <2>1 DEF EventCreate
    <2> QED BY <1>2, <2>2 DEF EventCreate, tables
  <1>3. ASSUME NEW p \in Profiles, BeginSignUp(r, p) PROVE TypeOK'
    <2>1. [Idle EXCEPT !.stage = "enrol", !.op = "signUp", !.profile = p] \in RequestRecord
      BY <1>0 DEF Idle, RequestRecord, Stages, PostStages
    <2> QED BY <1>1, <1>3, <2>1 DEF BeginSignUp
  <1>4. ASSUME NEW p \in Profiles, BeginWithdraw(r, p) PROVE TypeOK'
    <2>1. [Idle EXCEPT !.stage = "cancel", !.profile = p] \in RequestRecord
      BY <1>0 DEF Idle, RequestRecord, Stages, PostStages
    <2> QED BY <1>1, <1>4, <2>1 DEF BeginWithdraw
  <1>5. ASSUME NEW p \in Profiles, NEW post \in ToggledPosts, BeginToggle(r, p, post)
        PROVE  TypeOK'
    <2>1. [Idle EXCEPT !.stage = "attending", !.op = "toggle", !.profile = p, !.post = post]
            \in RequestRecord
      BY <1>0, ProfilesAssumption DEF Idle, RequestRecord, Stages, PostStages
    <2> QED BY <1>1, <1>5, <2>1 DEF BeginToggle
  <1>6. ASSUME NEW p \in Profiles, NEW n \in 0..MaxSeatbelts,
               NEW stage \in {"addDriver", "updateSeatbelts", "removeDriver"},
               BeginDriver(r, p, stage, n)
        PROVE  TypeOK'
    <2>1. [Idle EXCEPT !.stage = stage, !.profile = p, !.belts = n] \in RequestRecord
      BY <1>0 DEF Idle, RequestRecord, Stages, PostStages
    <2> QED BY <1>1, <1>6, <2>1 DEF BeginDriver
  <1> QED BY <1>2, <1>3, <1>4, <1>5, <1>6 DEF Begin

LEMMA ServeType ==
  ASSUME TypeOK, NEW r \in Requests, Serve(r)
  PROVE  TypeOK'
  <1> USE BoundsAssumption DEF TypeOK
  <1>0. /\ req[r] \in RequestRecord
        /\ req[r].belts \in 0..MaxSeatbelts
    BY DEF RequestRecord
  <1>1. CASE Enrol(r)
    <2>1. AutoPost(req[r].op, req[r].profile) \in Posts \union {"none"}
      BY DEF AutoPost, Posts
    <2>2. ASSUME NEW post \in Posts
          PROVE  [req[r] EXCEPT !.stage = "select", !.post = post] \in RequestRecord
      BY <1>0, <1>1 DEF RequestRecord, Enrol, Stages, PostStages
    <2>3. ASSUME NEW post \in Posts,
                 req' = [req EXCEPT ![r].stage = "select", ![r].post = post]
          PROVE  req' \in [Requests -> RequestRecord]
      BY <2>2, <2>3
    <2>4. req' \in [Requests -> RequestRecord]
      BY <1>1, <2>1, <2>3, MoveType DEF Enrol
    <2> QED BY <1>1, <2>4 DEF Enrol
  <1>2. CASE SelectHolder(r)
    <2>1. ASSUME NEW h \in OtherHolders(r)
          PROVE  [req[r] EXCEPT !.stage = "evict", !.holder = h] \in RequestRecord
      BY <1>0, <1>2 DEF SelectHolder, OtherHolders, Holders, RequestRecord, Stages, PostStages
    <2>2. ASSUME NEW h \in OtherHolders(r),
                 req' = [req EXCEPT ![r].stage = "evict", ![r].holder = h]
          PROVE  req' \in [Requests -> RequestRecord]
      BY <2>1, <2>2
    <2>3. req' \in [Requests -> RequestRecord]
      BY <1>2, <2>2, MoveType DEF SelectHolder, Stages, PostStages
    <2> QED BY <1>2, <2>3 DEF SelectHolder, tables
  <1>3. CASE InsertPost(r)
    <2>1. req[r].post \in Posts
      BY <1>0, <1>3 DEF InsertPost, RequestRecord, PostStages
    <2>2. holds' \in [Profiles -> SUBSET Posts]
      BY <1>3, <2>1 DEF InsertPost
    <2> QED BY <1>3, <2>2, MoveType DEF InsertPost
  <1>4. CASE EvictHolder(r)
    BY <1>4, MoveType, DeleteType DEF EvictHolder, Stages, PostStages
  <1>5. CASE CheckAttending(r)
    BY <1>5, MoveType DEF CheckAttending, tables, Stages, PostStages
  <1>6. CASE CheckHolding(r)
    BY <1>6, MoveType DEF CheckHolding, tables, Stages, PostStages
  <1>7. CASE ReleasePost(r)
    BY <1>7, MoveType, DeleteType DEF ReleasePost
  <1>8. CASE CancelAttendance(r)
    BY <1>8, MoveType DEF CancelAttendance, Stages, PostStages
  <1>9. CASE CascadeDelete(r)
    BY <1>9, MoveType, DeleteType DEF CascadeDelete
  <1>10. CASE AddDriver(r)
    BY <1>0, <1>10, MoveType DEF AddDriver
  <1>11. CASE RemoveDriver(r)
    BY <1>11, MoveType, DeleteType DEF RemoveDriver
  <1>12. CASE UpdateDriverSeatbelt(r)
    BY <1>0, <1>12, MoveType DEF UpdateDriverSeatbelt
  <1> QED BY <1>1, <1>2, <1>3, <1>4, <1>5, <1>6, <1>7, <1>8, <1>9, <1>10, <1>11, <1>12 DEF Serve

LEMMA InitType == Init => TypeOK
  <1>1. 0 \in 0..MaxSeatbelts /\ 0 \in 0..MaxFaults
    BY BoundsAssumption
  <1> QED BY <1>1, IdleType DEF Init, TypeOK

LEMMA StepType == TypeOK /\ [Next]_vars => TypeOK'
  <1> SUFFICES ASSUME TypeOK, [Next]_vars PROVE TypeOK'
    OBVIOUS
  <1>1. ASSUME NEW r \in Requests, StatementFails(r) PROVE TypeOK'
    <2>1. faults' \in 0..MaxFaults
      BY <1>1, BoundsAssumption DEF TypeOK, StatementFails
    <2>2. req' \in [Requests -> RequestRecord]
      BY <1>1, MoveType DEF StatementFails
    <2> QED BY <1>1, <2>1, <2>2 DEF TypeOK, StatementFails, tables
  <1>2. CASE EventEdit
    BY <1>2 DEF EventEdit, TypeOK, tables
  <1>3. CASE EventDelete
    BY <1>3, BoundsAssumption DEF EventDelete, TypeOK
  <1>4. CASE EndTimePasses
    BY <1>4 DEF EndTimePasses, TypeOK, tables
  <1>5. CASE UNCHANGED vars
    BY <1>5 DEF TypeOK, vars, tables
  <1> QED BY <1>1, <1>2, <1>3, <1>4, <1>5, BeginType, ServeType DEF Next

\* The tables and the memory of every handler keep their types, and a handler that
\* is about to touch a post knows which post, and of which profile.
THEOREM TypeCorrect == Spec => []TypeOK
  BY InitType, StepType, PTL DEF Spec

-----------------------------------------------------------------------------
(***************************************************************************)
(* Referential integrity: an INSERT that overlaps the deletion of the      *)
(* event is refused, whichever of the two comes first.                     *)
(***************************************************************************)

\* Removing responsibility rows cannot break the references.
LEMMA DeleteKeepsIntegrity ==
  ASSUME TypeOK, ReferentialIntegrity, NEW p, NEW x, DeleteResponsibility(p, x),
         UNCHANGED <<event, attendee>>
  PROVE  ReferentialIntegrity'
  <1>1. \A q \in Profiles : holds'[q] # {} => holds[q] # {}
    BY DEF TypeOK, DeleteResponsibility
  <1>2. \A q \in Profiles : seatbelts'[q] > 0 => seatbelts[q] > 0
    <2>1. CASE x = "driver"
      BY <2>1 DEF TypeOK, DeleteResponsibility
    <2>2. CASE x # "driver"
      BY <2>2 DEF TypeOK, DeleteResponsibility
    <2> QED BY <2>1, <2>2
  <1> QED BY <1>1, <1>2 DEF ReferentialIntegrity, HasAttendeeRow

LEMMA StepIntegrity == TypeOK /\ ReferentialIntegrity /\ [Next]_vars => ReferentialIntegrity'
  <1> SUFFICES ASSUME TypeOK, ReferentialIntegrity, [Next]_vars PROVE ReferentialIntegrity'
    OBVIOUS
  <1> USE DEF ReferentialIntegrity, HasAttendeeRow
  <1>1. ASSUME NEW r \in Requests, Begin(r) PROVE ReferentialIntegrity'
    <2>1. /\ UNCHANGED tables
          /\ event' = event \/ (event = "unborn" /\ event' \in {"upcoming", "past"})
      BY <1>1 DEF Begin, EventCreate, BeginSignUp, BeginWithdraw, BeginToggle, BeginDriver, Admit
    <2> QED BY <2>1 DEF tables
  <1>2. ASSUME NEW r \in Requests, Serve(r) PROVE ReferentialIntegrity'
    <2>1. CASE Enrol(r)
      BY <2>1 DEF Enrol, TypeOK
    <2>2. CASE InsertPost(r)
      BY <2>2 DEF InsertPost, TypeOK
    <2>3. CASE CancelAttendance(r)
      BY <2>3 DEF CancelAttendance, TypeOK
    <2>4. CASE AddDriver(r)
      BY <2>4 DEF AddDriver, TypeOK
    <2>5. CASE UpdateDriverSeatbelt(r)
      <3>1. \A p \in Profiles : seatbelts'[p] > 0 => seatbelts[p] > 0
        BY <2>5 DEF UpdateDriverSeatbelt, TypeOK
      <3> QED BY <2>5, <3>1 DEF UpdateDriverSeatbelt
    <2>6. CASE SelectHolder(r) \/ CheckAttending(r) \/ CheckHolding(r)
      BY <2>6 DEF SelectHolder, CheckAttending, CheckHolding, tables
    <2>7. CASE EvictHolder(r) \/ ReleasePost(r) \/ CascadeDelete(r) \/ RemoveDriver(r)
      BY <2>7, DeleteKeepsIntegrity DEF EvictHolder, ReleasePost, CascadeDelete, RemoveDriver
    <2> QED BY <1>2, <2>1, <2>2, <2>3, <2>4, <2>5, <2>6, <2>7 DEF Serve
  <1>3. ASSUME NEW r \in Requests, StatementFails(r) PROVE ReferentialIntegrity'
    BY <1>3 DEF StatementFails, tables
  <1>4. CASE EventDelete
    BY <1>4 DEF EventDelete
  <1>5. CASE EventEdit \/ EndTimePasses \/ UNCHANGED vars
    BY <1>5 DEF EventEdit, EndTimePasses, vars, tables
  <1> QED BY <1>1, <1>2, <1>3, <1>4, <1>5 DEF Next

\* No responsibility row without an attendee row, no attendee row without an event,
\* for any number of overlapping requests and of failures.
THEOREM Integrity == Spec => []ReferentialIntegrity
  <1>1. Init => ReferentialIntegrity
    BY DEF Init, ReferentialIntegrity, HasAttendeeRow
  <1> QED BY <1>1, StepIntegrity, TypeCorrect, PTL DEF Spec

-----------------------------------------------------------------------------
(***************************************************************************)
(* Replacements.  A toggle asks for the attendee row once, before it looks *)
(* at the post, and relies on it until its INSERT: only the deletion of    *)
(* the event takes the row away.                                           *)
(***************************************************************************)

Admitted(p) == HasAttendeeRow(p) \/ event = "deleted"

ToggleAttends ==
    \A r \in Requests :
        req[r].op = "toggle" /\ req[r].stage # "attending" =>
            \E p \in Profiles : p = req[r].profile /\ Admitted(p)

LEMMA AdmittedStays ==
  ASSUME TypeOK, [Next]_vars, NEW p \in Profiles, Admitted(p)
  PROVE  Admitted(p)'
  <1> USE DEF Admitted, HasAttendeeRow
  <1>1. ASSUME NEW r \in Requests, Begin(r) PROVE Admitted(p)'
    <2>1. UNCHANGED tables /\ (event' = event \/ event = "unborn")
      BY <1>1 DEF Begin, EventCreate, BeginSignUp, BeginWithdraw, BeginToggle, BeginDriver, Admit
    <2> QED BY <2>1 DEF tables
  <1>2. ASSUME NEW r \in Requests, Serve(r) PROVE Admitted(p)'
    <2>1. CASE Enrol(r)
      BY <2>1 DEF Enrol, TypeOK
    <2>2. CASE CancelAttendance(r)
      BY <2>2 DEF CancelAttendance, TypeOK
    <2>3. CASE ~Enrol(r) /\ ~CancelAttendance(r)
      BY <1>2, <2>3
         DEF Serve, SelectHolder, InsertPost, EvictHolder, CheckAttending, CheckHolding,
             ReleasePost, CascadeDelete, AddDriver, RemoveDriver, UpdateDriverSeatbelt, tables
    <2> QED BY <2>1, <2>2, <2>3
  <1>3. CASE EventDelete
    BY <1>3 DEF EventDelete
  <1>4. CASE EventEdit \/ EndTimePasses \/ UNCHANGED vars \/ \E r \in Requests : StatementFails(r)
    BY <1>4 DEF EventEdit, EndTimePasses, vars, tables, StatementFails
  <1> QED BY <1>1, <1>2, <1>3, <1>4 DEF Next

\* What a step may do to the record of a request.
LEMMA RequestMoves ==
  ASSUME TypeOK, [Next]_vars, NEW r \in Requests, req'[r] # req[r]
  PROVE  Begin(r) \/ Serve(r) \/ StatementFails(r)
  <1>1. ~(EventEdit \/ EventDelete \/ EndTimePasses \/ UNCHANGED vars)
    BY DEF EventEdit, EventDelete, EndTimePasses, vars
  <1>2. PICK s \in Requests : Begin(s) \/ Serve(s) \/ StatementFails(s)
    BY <1>1 DEF Next
  <1>3. req' = req \/ \E q : req' = [req EXCEPT ![s] = q]
    BY <1>2
       DEF Begin, EventCreate, BeginSignUp, BeginWithdraw, BeginToggle, BeginDriver, Admit, Serve,
           Enrol, SelectHolder, InsertPost, EvictHolder, CheckAttending, CheckHolding,
           ReleasePost, CancelAttendance, CascadeDelete, NextInCascade, AddDriver, RemoveDriver,
           UpdateDriverSeatbelt, StatementFails, GoTo, Finish
  <1>4. s = r
    BY <1>3 DEF TypeOK
  <1> QED BY <1>2, <1>4

LEMMA StepAttends == TypeOK /\ ToggleAttends /\ [Next]_vars => ToggleAttends'
  <1> SUFFICES ASSUME TypeOK, ToggleAttends, [Next]_vars, NEW r \in Requests,
                      req'[r].op = "toggle", req'[r].stage # "attending"
               PROVE  \E p \in Profiles : p = req'[r].profile /\ Admitted(p)'
    BY DEF ToggleAttends
  <1>1. req \in [Requests -> RequestRecord] /\ req[r] \in RequestRecord
    BY DEF TypeOK
  <1>2. CASE req'[r] = req[r]
    <2>1. PICK p \in Profiles : p = req[r].profile /\ Admitted(p)
      BY <1>2 DEF ToggleAttends
    <2> QED BY <1>2, <2>1, AdmittedStays
  <1>3. CASE Begin(r)
    <2>1. ASSUME NEW q, q.op # "toggle" \/ q.stage = "attending", req' = [req EXCEPT ![r] = q]
          PROVE  FALSE
      BY <1>1, <2>1
    <2>2. CASE EventCreate(r)
      <3>1. ASSUME NEW p PROVE [Idle EXCEPT !.stage = "enrol", !.op = "create",
                                            !.profile = p].op # "toggle"
        BY DEF Idle
      <3>2. CASE UNCHANGED req
        BY <1>2, <3>2
      <3> QED BY <2>1, <2>2, <3>1, <3>2 DEF EventCreate
    <2>3. ASSUME NEW p, BeginSignUp(r, p) PROVE FALSE
      <3>1. [Idle EXCEPT !.stage = "enrol", !.op = "signUp", !.profile = p].op # "toggle"
        BY DEF Idle
      <3> QED BY <2>1, <2>3, <3>1 DEF BeginSignUp, Admit
    <2>4. ASSUME NEW p, BeginWithdraw(r, p) PROVE FALSE
      <3>1. [Idle EXCEPT !.stage = "cancel", !.profile = p].op # "toggle"
        BY DEF Idle
      <3> QED BY <2>1, <2>4, <3>1 DEF BeginWithdraw, Admit
    <2>5. ASSUME NEW p, NEW post, BeginToggle(r, p, post) PROVE FALSE
      <3>1. [Idle EXCEPT !.stage = "attending", !.op = "toggle", !.profile = p,
                         !.post = post].stage = "attending"
        BY DEF Idle
      <3> QED BY <2>1, <2>5, <3>1 DEF BeginToggle, Admit
    <2>6. ASSUME NEW p, NEW stage, NEW n, BeginDriver(r, p, stage, n) PROVE FALSE
      <3>1. [Idle EXCEPT !.stage = stage, !.profile = p, !.belts = n].op # "toggle"
        BY DEF Idle
      <3> QED BY <2>1, <2>6, <3>1 DEF BeginDriver, Admit
    <2> QED BY <1>3, <2>2, <2>3, <2>4, <2>5, <2>6 DEF Begin
  <1>4. Finish(r) => req'[r].op = "none"
    BY <1>1 DEF Finish, Idle
  <1>5. ASSUME NEW s, GoTo(r, s) PROVE req'[r].op = req[r].op /\ req'[r].profile = req[r].profile
    BY <1>1, <1>5 DEF GoTo, RequestRecord
  <1>6. ASSUME NextInCascade(r), ~Finish(r)
        PROVE  req'[r].op = req[r].op /\ req'[r].profile = req[r].profile
    BY <1>1, <1>6 DEF NextInCascade, RequestRecord
  <1>7. CASE StatementFails(r)
    <2>1. CASE Finish(r)
      BY <1>4, <2>1
    <2>2. CASE ~Finish(r)
      <3>1. /\ req'[r].op = req[r].op /\ req'[r].profile = req[r].profile
            /\ req[r].stage = "cascade"
        BY <1>6, <1>7, <2>2 DEF StatementFails
      <3>2. PICK p \in Profiles : p = req[r].profile /\ Admitted(p)
        BY <3>1 DEF ToggleAttends
      <3> QED BY <3>1, <3>2, AdmittedStays
    <2> QED BY <2>1, <2>2
  <1>8. CASE Serve(r)
    <2>1. req'[r].op = req[r].op /\ req'[r].profile = req[r].profile
      <3>1. ASSUME NEW post, req' = [req EXCEPT ![r].stage = "select", ![r].post = post]
            PROVE  req'[r].op = req[r].op /\ req'[r].profile = req[r].profile
        BY <1>1, <3>1 DEF RequestRecord
      <3>2. ASSUME NEW h, req' = [req EXCEPT ![r].stage = "evict", ![r].holder = h]
            PROVE  req'[r].op = req[r].op /\ req'[r].profile = req[r].profile
        BY <1>1, <3>2 DEF RequestRecord
      <3>3. ~Finish(r)
        BY <1>4
      <3>4. CASE Enrol(r)
        BY <3>1, <3>3, <3>4 DEF Enrol
      <3>5. CASE SelectHolder(r)
        BY <1>5, <3>2, <3>3, <3>5 DEF SelectHolder
      <3>6. CASE CascadeDelete(r)
        BY <1>6, <3>3, <3>6 DEF CascadeDelete
      <3>7. CASE ~Enrol(r) /\ ~SelectHolder(r) /\ ~CascadeDelete(r)
        BY <1>5, <1>8, <3>3, <3>7
           DEF Serve, InsertPost, EvictHolder, CheckAttending, CheckHolding, ReleasePost,
               CancelAttendance, AddDriver, RemoveDriver, UpdateDriverSeatbelt
      <3> QED BY <3>4, <3>5, <3>6, <3>7
    <2>2. PICK p \in Profiles : p = req[r].profile
      BY <1>1, <1>8
         DEF Serve, Enrol, SelectHolder, InsertPost, EvictHolder, CheckAttending, CheckHolding,
             ReleasePost, CancelAttendance, CascadeDelete, AddDriver, RemoveDriver,
             UpdateDriverSeatbelt, RequestRecord
    <2>3. Admitted(p)
      <3>1. CASE CheckAttending(r)
        BY <1>4, <2>2, <3>1 DEF CheckAttending, Admitted, HasAttendeeRow
      <3>2. CASE ~CheckAttending(r)
        <4>1. req[r].stage # "attending"
          BY <1>8, <3>2
             DEF Serve, Enrol, SelectHolder, InsertPost, EvictHolder, CheckHolding, ReleasePost,
                 CancelAttendance, CascadeDelete, AddDriver, RemoveDriver, UpdateDriverSeatbelt
        <4> QED BY <2>1, <2>2, <4>1 DEF ToggleAttends
      <3> QED BY <3>1, <3>2
    <2> QED BY <2>1, <2>2, <2>3, AdmittedStays
  <1> QED BY <1>2, <1>3, <1>7, <1>8, RequestMoves

\* A toggle that has evicted somebody and meets no error ends with somebody in the post,
\* however many requests take it from each other.
THEOREM Replacement == Spec => ReplacementFillsPost
  <1> DEFINE Fills == \A r \in Requests :
         /\ req[r].op = "toggle" /\ req[r].stage \in {"evict", "reselect", "insert"}
         /\ req'[r] = Idle /\ faults' = faults
         => (\E p \in Profiles : req[r].post \in holds'[p]) \/ event = "deleted"
  <1>1. Init => ToggleAttends
    BY DEF Init, ToggleAttends, Idle
  <1>2. ASSUME TypeOK, ToggleAttends, [Next]_vars, NEW r \in Requests, req[r].op = "toggle",
               req[r].stage \in {"evict", "reselect", "insert"}, req'[r] = Idle,
               faults' = faults
        PROVE  (\E p \in Profiles : req[r].post \in holds'[p]) \/ event = "deleted"
    <2>1. /\ req \in [Requests -> RequestRecord] /\ req[r] \in RequestRecord
          /\ req[r].profile \in Profiles /\ holds \in [Profiles -> SUBSET Posts]
      BY <1>2 DEF TypeOK, RequestRecord
    <2>2. req'[r].stage = "idle" /\ req'[r] # req[r]
      BY <1>2 DEF Idle
    <2>3. Serve(r)
      <3>1. ~StatementFails(r)
        <4>1. faults \in Nat
          BY <1>2, BoundsAssumption DEF TypeOK
        <4> QED BY <1>2, <4>1 DEF StatementFails
      <3>2. req[r] # Idle
        BY <2>2, <1>2
      <3>3. ~Begin(r)
        BY <3>2 DEF Begin, EventCreate, BeginSignUp, BeginWithdraw, BeginToggle, BeginDriver, Admit
      <3> QED BY <1>2, <2>2, <3>1, <3>3, RequestMoves
    <2>4. SelectHolder(r) \/ InsertPost(r) \/ EvictHolder(r)
      BY <1>2, <2>3
         DEF Serve, Enrol, CheckAttending, CheckHolding, ReleasePost, CancelAttendance,
             CascadeDelete, AddDriver, RemoveDriver, UpdateDriverSeatbelt
    <2>5. ASSUME NEW s \in {"insert", "reselect"} PROVE ~GoTo(r, s)
      BY <2>1, <2>2, <2>5 DEF GoTo, RequestRecord
    <2>6. CASE SelectHolder(r)
      <3>1. OtherHolders(r) # {} /\ UNCHANGED holds
        BY <2>5, <2>6 DEF SelectHolder, tables
      <3> QED BY <3>1 DEF OtherHolders, Holders
    <2>7. CASE InsertPost(r)
      <3>1. Admitted(req[r].profile)
        BY <1>2 DEF ToggleAttends
      <3>2. CASE HasAttendeeRow(req[r].profile)
        <4>1. req[r].post \in holds'[req[r].profile]
          BY <2>1, <2>7, <3>2 DEF InsertPost
        <4> QED BY <2>1, <4>1
      <3> QED BY <3>1, <3>2 DEF Admitted
    <2>8. ~EvictHolder(r)
      BY <2>5 DEF EvictHolder
    <2> QED BY <2>4, <2>6, <2>7, <2>8
  <1>3. TypeOK /\ ToggleAttends /\ [Next]_vars => [Fills]_vars
    BY <1>2
  <1> QED BY <1>1, <1>3, StepAttends, TypeCorrect, PTL DEF Spec, ReplacementFillsPost

-----------------------------------------------------------------------------
(***************************************************************************)
(* Singletons.  Claims(post) collects the holders and the profiles about   *)
(* to become one.  It grows only when a request finds no other holder, and *)
(* then everything in it belongs to a request in flight; an INSERT turns a *)
(* claim into a holder, and every other step can only shrink it.           *)
(***************************************************************************)

\* The profiles of the requests in flight: no more of them than requests.
Served == {req[r].profile : r \in Requests}

ClaimsInv == \A post \in Posts : /\ IsFiniteSet(Claims(post))
                                 /\ Cardinality(Claims(post)) <= Cardinality(Requests)

LEMMA ServedBounded == IsFiniteSet(Served) /\ Cardinality(Served) <= Cardinality(Requests)
  <1> DEFINE f == [r \in Requests |-> req[r].profile]
  <1>1. f \in Surjection(Requests, Served)
    BY DEF Surjection, Served
  <1> HIDE DEF f
  <1> QED BY <1>1, FS_Surjection, BoundsAssumption

LEMMA ServedBoundedNext ==
  IsFiniteSet(Served') /\ Cardinality(Served') <= Cardinality(Requests)
  <1> DEFINE f == [r \in Requests |-> req'[r].profile]
  <1>1. f \in Surjection(Requests, Served')
    BY DEF Surjection, Served
  <1> HIDE DEF f
  <1> QED BY <1>1, FS_Surjection, BoundsAssumption

\* A step of one request that does not leave it before an INSERT.
Quiet(r) == /\ \A s \in Requests \ {r} : req'[s] = req[s]
            /\ req'[r].stage # "insert"

LEMMA QuietMove ==
  ASSUME TypeOK, NEW r \in Requests
  PROVE  /\ Finish(r) => Quiet(r)
         /\ \A s \in Stages \ {"insert"} : GoTo(r, s) => Quiet(r)
         /\ req[r].stage # "insert" /\ NextInCascade(r) => Quiet(r)
  <1>1. req \in [Requests -> RequestRecord] /\ req[r] \in RequestRecord
    BY DEF TypeOK
  <1>2. Finish(r) => Quiet(r)
    BY <1>1 DEF Finish, Idle, Quiet
  <1>3. ASSUME NEW s \in Stages \ {"insert"}, GoTo(r, s) PROVE Quiet(r)
    BY <1>1, <1>3 DEF GoTo, Quiet, RequestRecord
  <1>4. ASSUME req[r].stage # "insert", NextInCascade(r) PROVE Quiet(r)
    BY <1>1, <1>2, <1>4 DEF NextInCascade, Quiet, RequestRecord
  <1> QED BY <1>2, <1>3, <1>4

\* Such a step, if it puts nobody in a post either, adds no claim.
LEMMA QuietStep ==
  ASSUME TypeOK, NEW r \in Requests, NEW post \in Posts, Quiet(r),
         \A p \in Profiles : holds'[p] \subseteq holds[p]
  PROVE  Claims(post)' \subseteq Claims(post)
  BY DEF Claims, Holders, Quiet

\* Every step shrinks the claims to a post or leaves only profiles being served in them.
LEMMA ClaimStep ==
  ASSUME TypeOK, [Next]_vars, NEW post \in Posts
  PROVE  Claims(post)' \subseteq Claims(post) \/ Claims(post)' \subseteq Served'
  <1>1. ASSUME NEW r \in Requests, Begin(r) PROVE Claims(post)' \subseteq Claims(post)
    <2>1. UNCHANGED holds
      BY <1>1 DEF Begin, EventCreate, BeginSignUp, BeginWithdraw, BeginToggle, BeginDriver,
                  Admit, tables
    <2>2. Quiet(r)
      <3>2. CASE EventCreate(r)
        <4>1. CASE UNCHANGED req
          BY <3>2, <4>1 DEF EventCreate, Quiet, Idle
        <4>2. ASSUME NEW p \in Profiles,
                     req' = [req EXCEPT ![r] = [Idle EXCEPT !.stage = "enrol", !.op = "create",
                                                            !.profile = p]]
              PROVE  Quiet(r)
          BY <4>2 DEF TypeOK, Idle, Quiet
        <4> QED BY <3>2, <4>1, <4>2 DEF EventCreate
      <3>3. ASSUME NEW p \in Profiles, BeginSignUp(r, p) PROVE Quiet(r)
        BY <3>3 DEF BeginSignUp, Admit, Idle, TypeOK, Quiet
      <3>4. ASSUME NEW p \in Profiles, BeginWithdraw(r, p) PROVE Quiet(r)
        BY <3>4 DEF BeginWithdraw, Admit, Idle, TypeOK, Quiet
      <3>5. ASSUME NEW p \in Profiles, NEW x \in ToggledPosts, BeginToggle(r, p, x)
            PROVE  Quiet(r)
        BY <3>5 DEF BeginToggle, Admit, Idle, TypeOK, Quiet
      <3>6. ASSUME NEW p \in Profiles, NEW n,
                   NEW stage \in {"addDriver", "updateSeatbelts", "removeDriver"},
                   BeginDriver(r, p, stage, n)
            PROVE  Quiet(r)
        BY <3>6 DEF BeginDriver, Admit, Idle, TypeOK, Quiet
      <3> QED BY <1>1, <3>2, <3>3, <3>4, <3>5, <3>6 DEF Begin
    <2> QED BY <2>1, <2>2, QuietStep
  <1>2. ASSUME NEW r \in Requests, Enrol(r) PROVE Claims(post)' \subseteq Claims(post)
    <2>1. ASSUME NEW x, req' = [req EXCEPT ![r].stage = "select", ![r].post = x] PROVE Quiet(r)
      BY <2>1 DEF TypeOK, RequestRecord, Quiet
    <2>2. Quiet(r) /\ UNCHANGED holds
      BY <1>2, <2>1, QuietMove DEF Enrol
    <2> QED BY <2>2, QuietStep
  <1>3. ASSUME NEW r \in Requests, SelectHolder(r)
        PROVE  Claims(post)' \subseteq Claims(post) \/ Claims(post)' \subseteq Served'
    <2>0. /\ req[r] \in RequestRecord
          /\ UNCHANGED holds
      BY <1>3 DEF TypeOK, SelectHolder, tables
    <2>1. CASE OtherHolders(r) = {} /\ req[r].post = post
      <3>1. GoTo(r, "insert")
        BY <1>3, <2>1 DEF SelectHolder
      <3>2. req'[r].profile = req[r].profile
        BY <2>0, <3>1 DEF GoTo, TypeOK, RequestRecord
      <3>3. Holders(post)' \subseteq {req'[r].profile}
        BY <2>0, <2>1, <3>2 DEF OtherHolders, Holders
      <3> QED BY <3>3 DEF Claims, Served
    <2>2. CASE OtherHolders(r) = {} /\ req[r].post # post
      <3>1. GoTo(r, "insert")
        BY <1>3, <2>2 DEF SelectHolder
      <3>2. /\ \A s \in Requests \ {r} : req'[s] = req[s]
            /\ req'[r].post # post
        BY <2>0, <2>2, <3>1 DEF GoTo, TypeOK, RequestRecord
      <3> QED BY <2>0, <3>2 DEF Claims, Holders
    <2>3. CASE OtherHolders(r) # {}
      <3>1. ASSUME NEW h, req' = [req EXCEPT ![r].stage = "evict", ![r].holder = h] PROVE Quiet(r)
        BY <3>1, <2>0 DEF TypeOK, RequestRecord, Quiet
      <3>2. Quiet(r)
        BY <1>3, <2>3, <3>1, QuietMove DEF SelectHolder
      <3> QED BY <2>0, <3>2, QuietStep
    <2> QED BY <2>1, <2>2, <2>3
  <1>4. ASSUME NEW r \in Requests, InsertPost(r) PROVE Claims(post)' \subseteq Claims(post)
    <2>1. req[r].profile \in Profiles /\ req[r].stage = "insert"
      BY <1>4 DEF InsertPost, TypeOK, RequestRecord
    <2>2. \A p \in Profiles : post \in holds'[p] =>
             \/ post \in holds[p]
             \/ p = req[r].profile /\ post = req[r].post
      BY <1>4, <2>1 DEF InsertPost, TypeOK
    <2>3. Quiet(r)
      BY <1>4, QuietMove DEF InsertPost
    <2> QED BY <2>1, <2>2, <2>3 DEF Claims, Holders, Quiet
  <1>5. ASSUME NEW r \in Requests,
               EvictHolder(r) \/ ReleasePost(r) \/ CascadeDelete(r) \/ RemoveDriver(r)
        PROVE  Claims(post)' \subseteq Claims(post)
    <2>1. Quiet(r)
      BY <1>5, QuietMove DEF EvictHolder, ReleasePost, CascadeDelete, RemoveDriver, Stages
    <2>2. ASSUME NEW p, NEW x, DeleteResponsibility(p, x), NEW q \in Profiles
          PROVE  holds'[q] \subseteq holds[q]
      BY <2>2 DEF DeleteResponsibility, TypeOK
    <2>3. \A q \in Profiles : holds'[q] \subseteq holds[q]
      BY <1>5, <2>2 DEF EvictHolder, ReleasePost, CascadeDelete, RemoveDriver
    <2> QED BY <2>1, <2>3, QuietStep
  <1>6. ASSUME NEW r \in Requests,
               \/ CheckAttending(r) \/ CheckHolding(r) \/ CancelAttendance(r)
               \/ AddDriver(r) \/ UpdateDriverSeatbelt(r) \/ StatementFails(r)
        PROVE  Claims(post)' \subseteq Claims(post)
    <2>1. Quiet(r)
      BY <1>6, QuietMove DEF CheckAttending, CheckHolding, CancelAttendance, AddDriver,
                             UpdateDriverSeatbelt, StatementFails, Stages
    <2>2. UNCHANGED holds
      BY <1>6 DEF CheckAttending, CheckHolding, CancelAttendance, AddDriver,
                  UpdateDriverSeatbelt, StatementFails, tables
    <2> QED BY <2>1, <2>2, QuietStep
  <1>7. CASE EventDelete
    BY <1>7 DEF EventDelete, Claims, Holders
  <1>8. CASE EventEdit \/ EndTimePasses \/ UNCHANGED vars
    BY <1>8 DEF EventEdit, EndTimePasses, vars, tables, Claims, Holders
  <1> QED BY <1>1, <1>2, <1>3, <1>4, <1>5, <1>6, <1>7, <1>8 DEF Next, Serve

LEMMA StepClaims == TypeOK /\ ClaimsInv /\ [Next]_vars => ClaimsInv'
  <1> SUFFICES ASSUME TypeOK, ClaimsInv, [Next]_vars, NEW post \in Posts
               PROVE  /\ IsFiniteSet(Claims(post)')
                      /\ Cardinality(Claims(post)') <= Cardinality(Requests)
    BY DEF ClaimsInv
  <1>0. Cardinality(Requests) \in Nat
    BY FS_CardinalityType, BoundsAssumption
  <1>1. CASE Claims(post)' \subseteq Claims(post)
    <2>1. /\ IsFiniteSet(Claims(post))
          /\ Cardinality(Claims(post)) \in Nat
          /\ Cardinality(Claims(post)) <= Cardinality(Requests)
      BY FS_CardinalityType DEF ClaimsInv
    <2>2. /\ IsFiniteSet(Claims(post)')
          /\ Cardinality(Claims(post)') <= Cardinality(Claims(post))
          /\ Cardinality(Claims(post)') \in Nat
      BY <1>1, <2>1, FS_Subset, FS_CardinalityType
    <2> QED BY <1>0, <2>1, <2>2
  <1>2. CASE Claims(post)' \subseteq Served'
    <2>1. /\ IsFiniteSet(Served')
          /\ Cardinality(Served') \in Nat
          /\ Cardinality(Served') <= Cardinality(Requests)
      BY ServedBoundedNext, FS_CardinalityType
    <2>2. /\ IsFiniteSet(Claims(post)')
          /\ Cardinality(Claims(post)') <= Cardinality(Served')
          /\ Cardinality(Claims(post)') \in Nat
      BY <1>2, <2>1, FS_Subset, FS_CardinalityType
    <2> QED BY <1>0, <2>1, <2>2
  <1> QED BY <1>1, <1>2, ClaimStep

LEMMA ClaimsInvariant == Spec => []ClaimsInv
  <1>1. Init => ClaimsInv
    <2> SUFFICES ASSUME Init, NEW post \in Posts
                 PROVE  /\ IsFiniteSet(Claims(post))
                        /\ Cardinality(Claims(post)) <= Cardinality(Requests)
      BY DEF ClaimsInv
    <2>1. Claims(post) = {}
      BY DEF Init, Claims, Holders, Idle
    <2> QED BY <2>1, FS_EmptySet, FS_CardinalityType, BoundsAssumption
  <1> QED BY <1>1, StepClaims, TypeCorrect, PTL DEF Spec

\* There are never more holders of a singleton responsibility, or requests about to
\* add one, than requests that overlap.
THEOREM Oversubscription == Spec => []OversubscriptionBounded
  <1>1. ClaimsInv => OversubscriptionBounded
    BY DEF ClaimsInv, OversubscriptionBounded
  <1> QED BY <1>1, ClaimsInvariant, PTL

\* A set of at most one element has no two of them.
LEMMA AtMostOne ==
  ASSUME NEW S, IsFiniteSet(S), Cardinality(S) <= 1, NEW p \in S, NEW q \in S
  PROVE  p = q
  <1>1. {p, q} \in SUBSET S
    OBVIOUS
  <1>2. Cardinality({p, q}) <= Cardinality(S) /\ IsFiniteSet({p, q})
    BY <1>1, FS_Subset
  <1>3. Cardinality({p, q}) <= 1
    BY <1>2, FS_CardinalityType
  <1>4. Cardinality({p}) = 1 /\ IsFiniteSet({p})
    BY FS_Singleton
  <1>5. ASSUME q \notin {p} PROVE Cardinality({p} \union {q}) = 2
    <2>1. Cardinality({p} \union {q}) =
            IF q \in {p} THEN Cardinality({p}) ELSE Cardinality({p}) + 1
      BY <1>4, FS_AddElement, Zenon
    <2> QED BY <2>1, <1>4, <1>5
  <1>6. {p} \union {q} = {p, q}
    OBVIOUS
  <1> QED BY <1>3, <1>5, <1>6

\* When handlers do not overlap, the SELECT before the INSERT is enough: a singleton
\* responsibility has at most one holder.
THEOREM SerialSingleton ==
  ASSUME Cardinality(Requests) <= 1
  PROVE  Spec => []SingletonHolders
  <1>1. ASSUME ClaimsInv, NEW post \in Posts, NEW p \in Holders(post), NEW q \in Holders(post)
        PROVE  p = q
    <2>1. IsFiniteSet(Claims(post)) /\ Cardinality(Claims(post)) <= Cardinality(Requests)
      BY <1>1 DEF ClaimsInv
    <2>2. Cardinality(Claims(post)) <= 1
      BY <2>1, FS_CardinalityType, BoundsAssumption
    <2>3. p \in Claims(post) /\ q \in Claims(post)
      BY DEF Claims
    <2> QED BY <2>1, <2>2, <2>3, AtMostOne
  <1>2. ClaimsInv => SingletonHolders
    BY <1>1 DEF SingletonHolders
  <1> QED BY <1>2, ClaimsInvariant, PTL

-----------------------------------------------------------------------------
(***************************************************************************)
(* One request at a time.  SerialInv says what the request in flight can   *)
(* rely on from the statements it has run: the profile it serves is still  *)
(* signed up, the holder it evicts is the only one, and the cascade has    *)
(* removed what lies behind it.  It holds until a statement fails.         *)
(***************************************************************************)

RequestSound(r) ==
    LET q == req[r]
        p == q.profile
    IN /\ q.stage \in PostStages \ {"attending"} => attendee[p] = "signed_up" \/ event = "deleted"
       /\ q.stage = "release" => q.post \in holds[p] \/ event = "deleted"
       /\ q.holder \in Profiles => q.stage \in {"evict", "reselect", "insert"}
       /\ q.stage = "evict" => Holders(q.post) = {q.holder} \/ event = "deleted"
       /\ q.stage = "reselect" => Holders(q.post) = {}
       /\ q.stage = "insert" => Holders(q.post) \subseteq IF q.holder \in Profiles THEN {} ELSE {p}
       /\ q.stage # "cascade" => q.step = 1
       /\ q.stage = "cascade" =>
            /\ attendee[p] # "signed_up"
            /\ \A i \in 1..(q.step - 1) : CascadeOrder[i] \notin holds[p]
            /\ q.step > 1 => seatbelts[p] = 0

\* Only a profile that is signed up, or whose withdrawal is under way, holds posts.
HoldersAttend == \A p \in Profiles : holds[p] # {} => attendee[p] = "signed_up" \/ p \in Leaving

SerialInv == (\A r \in Requests : RequestSound(r)) /\ HoldersAttend

SerialSoFar == faults = 0 => SerialInv

LEMMA Alone ==
  ASSUME Cardinality(Requests) <= 1
  PROVE  \A r, s \in Requests : r = s
  BY AtMostOne, BoundsAssumption

\* The last statement of a handler, when it leaves no post with a profile that has
\* withdrawn, and the first, which reads the event only.
LEMMA RestingSound ==
  ASSUME \A s, t \in Requests : s = t, NEW r \in Requests,
         req'[r].stage \in {"idle", "enrol", "cancel", "attending", "addDriver",
                            "removeDriver", "updateSeatbelts"},
         req'[r].holder \notin Profiles, req'[r].step = 1,
         \A p \in Profiles : holds'[p] # {} => attendee'[p] = "signed_up"
  PROVE  SerialInv'
  BY DEF SerialInv, RequestSound, HoldersAttend, PostStages

LEMMA FinishRests ==
  ASSUME TypeOK, NEW r \in Requests, Finish(r)
  PROVE  req'[r].stage = "idle" /\ req'[r].holder \notin Profiles /\ req'[r].step = 1
  BY ProfilesAssumption DEF TypeOK, Finish, Idle

\* The request that is not in a cascade leaves posts to the profiles signed up only.
LEMMA NobodyLeaving ==
  ASSUME \A s, t \in Requests : s = t, SerialInv, NEW r \in Requests, req[r].stage # "cascade"
  PROVE  \A p \in Profiles : holds[p] # {} => attendee[p] = "signed_up"
  BY DEF SerialInv, HoldersAttend, Leaving

LEMMA BeginRests ==
  ASSUME TypeOK, NEW r \in Requests, Begin(r)
  PROVE  /\ req'[r].stage \in {"idle", "enrol", "cancel", "attending",
                               "addDriver", "removeDriver", "updateSeatbelts"}
         /\ req'[r].holder \notin Profiles
         /\ req'[r].step = 1
  <1> DEFINE Resting == /\ req'[r].stage \in {"idle", "enrol", "cancel", "attending",
                                              "addDriver", "removeDriver", "updateSeatbelts"}
                        /\ req'[r].holder \notin Profiles
                        /\ req'[r].step = 1
  <1> USE ProfilesAssumption DEF TypeOK, Idle
  <1>1. ASSUME EventCreate(r) PROVE Resting
    <2>1. ASSUME UNCHANGED req, req[r] = Idle PROVE Resting
      BY <2>1
    <2>2. ASSUME NEW p \in Profiles,
                 req' = [req EXCEPT ![r] = [Idle EXCEPT !.stage = "enrol", !.op = "create",
                                                        !.profile = p]]
          PROVE  Resting
      BY <2>2
    <2> HIDE DEF Resting, Idle, TypeOK
    <2> QED BY <1>1, <2>1, <2>2 DEF EventCreate
  <1>2. ASSUME NEW p \in Profiles, BeginSignUp(r, p) PROVE Resting
    BY <1>2 DEF BeginSignUp, Admit
  <1>3. ASSUME NEW p \in Profiles, BeginWithdraw(r, p) PROVE Resting
    BY <1>3 DEF BeginWithdraw, Admit
  <1>4. ASSUME NEW p \in Profiles, NEW post \in ToggledPosts, BeginToggle(r, p, post)
        PROVE  Resting
    BY <1>4 DEF BeginToggle, Admit
  <1>5. ASSUME NEW p \in Profiles, NEW n,
               NEW stage \in {"addDriver", "updateSeatbelts", "removeDriver"},
               BeginDriver(r, p, stage, n)
        PROVE  Resting
    BY <1>5 DEF BeginDriver, Admit
  <1> HIDE DEF Resting, Idle, TypeOK
  <1>6. Resting
    BY <1>1, <1>2, <1>3, <1>4, <1>5 DEF Begin
  <1> QED BY <1>6 DEF Resting

LEMMA BeginSerial ==
  ASSUME \A s, t \in Requests : s = t, TypeOK, SerialInv, NEW r \in Requests, Begin(r)
  PROVE  SerialInv'
  <1>1. /\ UNCHANGED <<attendee, holds>>
        /\ req[r].stage # "cascade"
    <2>1. UNCHANGED tables /\ req[r] = Idle
      BY DEF Begin, EventCreate, BeginSignUp, BeginWithdraw, BeginToggle, BeginDriver, Admit
    <2> QED BY <2>1 DEF tables, Idle
  <1>2. \A p \in Profiles : holds'[p] # {} => attendee'[p] = "signed_up"
    BY <1>1, NobodyLeaving
  <1> QED BY <1>2, BeginRests, RestingSound

\* The request in flight moves on, and no row changes.
LEMMA GoToSound ==
  ASSUME TypeOK, NEW r \in Requests, NEW s, GoTo(r, s)
  PROVE  /\ req'[r].stage = s
         /\ UNCHANGED <<req[r].profile, req[r].post, req[r].holder, req[r].step>>
  BY DEF GoTo, TypeOK, RequestRecord

LEMMA ServeSerial ==
  ASSUME \A s, t \in Requests : s = t, TypeOK, ReferentialIntegrity, SingletonHolders, SerialInv,
         NEW r \in Requests, Serve(r)
  PROVE  SerialInv'
  <1> DEFINE p == req[r].profile
             post == req[r].post
  <1>0. /\ RequestSound(r)
        /\ req[r] \in RequestRecord
        /\ req[r].stage # "idle" => p \in Profiles
        /\ req[r].stage \in PostStages => post \in Posts
    BY DEF SerialInv, TypeOK, RequestRecord
  <1>1. ASSUME RequestSound(r)', HoldersAttend' PROVE SerialInv'
    BY <1>1 DEF SerialInv
  <1>2. ASSUME Finish(r), \A q \in Profiles : holds'[q] # {} => attendee'[q] = "signed_up"
        PROVE  SerialInv'
    BY <1>2, FinishRests, RestingSound
  <1>3. req[r].stage # "cascade" => \A q \in Profiles : holds[q] # {} => attendee[q] = "signed_up"
    BY NobodyLeaving
  <1>4. CASE Enrol(r)
    <2>1. \A q \in Profiles : holds'[q] # {} => attendee'[q] = "signed_up"
      BY <1>0, <1>3, <1>4 DEF Enrol, TypeOK
    <2>2. ASSUME NEW x, attendee'[p] = "signed_up",
                 req' = [req EXCEPT ![r].stage = "select", ![r].post = x]
          PROVE  SerialInv'
      <3>1. /\ req'[r].stage = "select"
            /\ UNCHANGED <<req[r].profile, req[r].holder, req[r].step>>
        BY <2>2 DEF TypeOK, RequestRecord
      <3>2. RequestSound(r)'
        BY <3>1, <2>2, <1>0, <1>4 DEF RequestSound, Enrol
      <3> QED BY <3>2, <2>1, <1>1 DEF HoldersAttend
    <2>3. Finish(r) \/ (/\ attendee'[p] = "signed_up"
                        /\ \E x : req' = [req EXCEPT ![r].stage = "select", ![r].post = x])
      BY <1>0, <1>4 DEF Enrol, TypeOK
    <2> QED BY <2>1, <2>2, <2>3, <1>2
  <1>5. CASE SelectHolder(r)
    <2>1. /\ req[r].stage \in {"select", "reselect"}
          /\ UNCHANGED <<event, attendee, holds, seatbelts>>
      BY <1>5 DEF SelectHolder, tables
    <2>2. HoldersAttend'
      BY <2>1, <1>3 DEF HoldersAttend
    <2>3. CASE OtherHolders(r) = {}
      <3>1. GoTo(r, "insert")
        BY <1>5, <2>3 DEF SelectHolder
      <3>2. Holders(post) \subseteq IF req[r].holder \in Profiles THEN {} ELSE {p}
        BY <2>1, <2>3, <1>0 DEF OtherHolders, RequestSound
      <3>3. RequestSound(r)'
        BY <3>1, <3>2, <2>1, <1>0, GoToSound DEF RequestSound, PostStages, Holders
      <3> QED BY <3>3, <2>2, <1>1
    <2>4. ASSUME req[r].stage = "select", NEW h \in OtherHolders(r),
                 req' = [req EXCEPT ![r].stage = "evict", ![r].holder = h]
          PROVE  SerialInv'
      <3>1. /\ req'[r].stage = "evict" /\ req'[r].holder = h
            /\ UNCHANGED <<req[r].profile, req[r].post, req[r].step>>
        BY <2>4 DEF TypeOK, RequestRecord
      <3>2. Holders(post) = {h}
        BY <1>0, <2>4 DEF SingletonHolders, OtherHolders, PostStages
      <3>3. RequestSound(r)'
        BY <3>1, <3>2, <2>1, <2>4, <1>0 DEF RequestSound, PostStages, Holders
      <3> QED BY <3>3, <2>2, <1>1
    <2>5. ASSUME Finish(r) PROVE SerialInv'
      BY <2>1, <2>5, <1>2, <1>3
    <2> QED BY <1>5, <2>3, <2>4, <2>5 DEF SelectHolder
  <1>6. CASE InsertPost(r)
    <2>1. \A q \in Profiles : holds'[q] # {} => attendee'[q] = "signed_up"
      <3>1. attendee[p] = "signed_up" \/ event = "deleted"
        BY <1>0, <1>6 DEF InsertPost, RequestSound, PostStages
      <3>2. HasAttendeeRow(p) => attendee[p] = "signed_up"
        BY <1>0, <1>6, <3>1 DEF InsertPost, ReferentialIntegrity
      <3> QED BY <3>2, <1>3, <1>6 DEF InsertPost, TypeOK
    <2> QED BY <2>1, <1>2, <1>6 DEF InsertPost
  <1>7. CASE EvictHolder(r)
    <2>1. /\ req[r].stage = "evict" /\ GoTo(r, "reselect")
          /\ UNCHANGED <<event, attendee>>
          /\ holds' = [holds EXCEPT ![req[r].holder] = @ \ {post}]
      BY <1>7 DEF EvictHolder, DeleteResponsibility
    <2>2. \A q \in Profiles : holds'[q] # {} => attendee'[q] = "signed_up"
      BY <2>1, <1>3 DEF TypeOK
    <2>3. Holders(post)' = {}
      <3>1. event = "deleted" => Holders(post) = {}
        BY DEF ReferentialIntegrity, Holders
      <3>2. Holders(post) = {req[r].holder} \/ Holders(post) = {}
        BY <3>1, <2>1, <1>0 DEF RequestSound
      <3>3. UNCHANGED post
        BY <2>1, GoToSound
      <3> QED BY <3>2, <3>3, <2>1 DEF Holders, TypeOK
    <2>4. RequestSound(r)'
      BY <2>1, <2>3, <1>0, GoToSound DEF RequestSound, PostStages
    <2> QED BY <2>2, <2>4, <1>1 DEF HoldersAttend
  <1>8. CASE CheckAttending(r) \/ CheckHolding(r)
    <2>1. /\ req[r].stage \in {"attending", "holding"}
          /\ UNCHANGED <<event, attendee, holds, seatbelts>>
      BY <1>8 DEF CheckAttending, CheckHolding, tables
    <2>2. HoldersAttend'
      BY <2>1, <1>3 DEF HoldersAttend
    <2>3. ASSUME NEW s, GoTo(r, s),
                 \/ s = "holding" /\ attendee[p] = "signed_up"
                 \/ req[r].stage = "holding" /\ s = "release" /\ post \in holds[p]
                 \/ req[r].stage = "holding" /\ s = "select"
          PROVE  RequestSound(r)'
      BY <2>1, <2>3, <1>0, GoToSound DEF RequestSound, PostStages
    <2>4. ASSUME Finish(r) PROVE SerialInv'
      BY <2>1, <2>4, <1>2, <1>3
    <2> QED BY <1>8, <2>2, <2>3, <2>4, <1>1 DEF CheckAttending, CheckHolding
  <1>9. CASE ReleasePost(r) \/ RemoveDriver(r)
    <2>1. \A q \in Profiles : holds'[q] # {} => attendee'[q] = "signed_up"
      BY <1>3, <1>9 DEF ReleasePost, RemoveDriver, DeleteResponsibility, TypeOK
    <2> QED BY <2>1, <1>2, <1>9 DEF ReleasePost, RemoveDriver
  <1>10. CASE AddDriver(r) \/ UpdateDriverSeatbelt(r)
    <2>1. /\ req[r].stage # "cascade" /\ Finish(r)
          /\ UNCHANGED <<attendee, holds>>
      BY <1>10 DEF AddDriver, UpdateDriverSeatbelt
    <2> QED BY <2>1, <1>2, <1>3
  <1>11. CASE CancelAttendance(r)
    <2>1. /\ GoTo(r, "cascade") /\ req[r].stage = "cancel"
          /\ UNCHANGED <<event, holds, seatbelts>>
          /\ \A q \in Profiles \ {p} : attendee'[q] = attendee[q]
          /\ attendee'[p] # "signed_up"
      BY <1>0, <1>11 DEF CancelAttendance, TypeOK
    <2>2. RequestSound(r)'
      BY <2>1, <1>0, GoToSound DEF RequestSound, PostStages
    <2>3. Leaving' = {p}
      BY <2>1, GoToSound DEF Leaving
    <2> QED BY <2>1, <2>2, <2>3, <1>1, <1>3 DEF HoldersAttend
  <1>12. CASE CascadeDelete(r)
    <2>1. /\ req[r].stage = "cascade" /\ NextInCascade(r)
          /\ UNCHANGED <<event, attendee>>
          /\ holds' = [holds EXCEPT ![p] = @ \ {CascadeOrder[req[r].step]}]
          /\ CascadeOrder[req[r].step] = "driver" => seatbelts'[p] = 0
          /\ seatbelts[p] = 0 => seatbelts'[p] = 0
          /\ p \in Profiles
      BY <1>0, <1>12 DEF CascadeDelete, DeleteResponsibility, TypeOK
    <2>2. /\ req[r].step \in 1..5
          /\ \A i \in 1..(req[r].step - 1) : CascadeOrder[i] \notin holds[p]
          /\ attendee[p] # "signed_up"
          /\ req[r].step > 1 => seatbelts[p] = 0
      BY <2>1, <1>0, CascadeLength DEF RequestSound, RequestRecord
    <2>3. /\ \A i \in 1..req[r].step : CascadeOrder[i] \notin holds'[p]
          /\ seatbelts'[p] = 0
      <3>1. req[r].step = 1 => CascadeOrder[req[r].step] = "driver"
        BY DEF CascadeOrder
      <3>2. \A i \in 1..req[r].step : i = req[r].step \/ i \in 1..(req[r].step - 1)
        BY <2>2
      <3> QED BY <2>1, <2>2, <3>1, <3>2 DEF TypeOK
    <2>4. \A q \in Profiles \ {p} : holds'[q] = holds[q]
      BY <2>1 DEF TypeOK
    <2>5. Leaving = {p}
      BY <2>1 DEF Leaving
    <2>6. CASE req[r].step < 5
      <3>1. /\ req'[r].stage = "cascade" /\ req'[r].step = req[r].step + 1
            /\ UNCHANGED <<req[r].profile, req[r].post, req[r].holder>>
        BY <2>1, <2>6, CascadeLength DEF NextInCascade, TypeOK, RequestRecord
      <3>2. RequestSound(r)'
        BY <3>1, <2>1, <2>2, <2>3, <1>0 DEF RequestSound, PostStages
      <3>3. Leaving' = {p}
        BY <3>1 DEF Leaving
      <3> QED BY <3>2, <3>3, <2>1, <2>4, <2>5, <1>1 DEF HoldersAttend, SerialInv
    <2>7. CASE req[r].step = 5
      <3>1. Finish(r)
        BY <2>1, <2>7, CascadeLength DEF NextInCascade
      <3>2. holds'[p] \cap Posts = {}
        BY <2>3, <2>7 DEF CascadeOrder, Posts
      <3>3. holds'[p] \subseteq Posts
        BY <2>1 DEF TypeOK
      <3>4. \A q \in Profiles : holds'[q] # {} => attendee'[q] = "signed_up"
        BY <3>2, <3>3, <2>1, <2>4, <2>5 DEF HoldersAttend, SerialInv
      <3> QED BY <3>1, <3>4, <1>2
    <2> QED BY <2>2, <2>6, <2>7
  <1> QED BY <1>4, <1>5, <1>6, <1>7, <1>8, <1>9, <1>10, <1>11, <1>12 DEF Serve

LEMMA StepSerial ==
  ASSUME \A s, t \in Requests : s = t
  PROVE  /\ TypeOK /\ ReferentialIntegrity /\ SingletonHolders
         /\ SerialSoFar /\ [Next]_vars
         => SerialSoFar'
  <1> SUFFICES ASSUME TypeOK, ReferentialIntegrity, SingletonHolders, faults = 0 => SerialInv,
                      [Next]_vars, faults' = 0
               PROVE  SerialInv'
    BY DEF SerialSoFar
  <1>1. ASSUME NEW r \in Requests, Begin(r) PROVE SerialInv'
    <2>1. UNCHANGED faults
      BY <1>1 DEF Begin, EventCreate, BeginSignUp, BeginWithdraw, BeginToggle, BeginDriver, Admit
    <2> QED BY <1>1, <2>1, BeginSerial
  <1>2. ASSUME NEW r \in Requests, Serve(r) PROVE SerialInv'
    <2>1. UNCHANGED faults
      BY <1>2 DEF Serve, Enrol, SelectHolder, InsertPost, EvictHolder, CheckAttending,
                  CheckHolding, ReleasePost, CancelAttendance, CascadeDelete, AddDriver,
                  RemoveDriver, UpdateDriverSeatbelt
    <2> QED BY <1>2, <2>1, ServeSerial
  <1>3. ASSUME NEW r \in Requests, StatementFails(r) PROVE FALSE
    BY <1>3 DEF StatementFails, TypeOK
  <1>4. CASE EventDelete
    <2>1. /\ SerialInv /\ event' = "deleted" /\ UNCHANGED req
          /\ \A p \in Profiles : attendee'[p] = "none" /\ holds'[p] = {} /\ seatbelts'[p] = 0
      BY <1>4 DEF EventDelete
    <2>2. ASSUME NEW r \in Requests PROVE RequestSound(r)'
      <3>1. Holders(req[r].post)' = {}
        BY <2>1 DEF Holders
      <3>2. RequestSound(r) /\ req[r] \in RequestRecord
        BY <2>1 DEF SerialInv, TypeOK
      <3> QED BY <2>1, <3>1, <3>2 DEF RequestSound, RequestRecord
    <2> QED BY <2>1, <2>2 DEF SerialInv, HoldersAttend
  <1>5. CASE EventEdit \/ EndTimePasses
    <2>1. SerialInv /\ UNCHANGED <<attendee, holds, seatbelts, req>> /\ event # "deleted"
      BY <1>5 DEF EventEdit, EndTimePasses, tables
    <2> QED BY <2>1 DEF SerialInv, RequestSound, HoldersAttend, Holders, Leaving
  <1>6. CASE UNCHANGED vars
    BY <1>6 DEF vars, SerialInv, RequestSound, HoldersAttend, Holders, Leaving
  <1> QED BY <1>1, <1>2, <1>3, <1>4, <1>5, <1>6 DEF Next

LEMMA SerialInvariant ==
  ASSUME Cardinality(Requests) <= 1
  PROVE  Spec => []SerialSoFar
  <1>1. Init => SerialSoFar
    BY ProfilesAssumption DEF Init, SerialSoFar, SerialInv, RequestSound, HoldersAttend, Idle, PostStages
  <1>2. TypeOK /\ ReferentialIntegrity /\ SingletonHolders /\ SerialSoFar
          /\ [Next]_vars => SerialSoFar'
    BY Alone, StepSerial
  <1>3. Spec => []SingletonHolders
    BY SerialSingleton
  <1> QED BY <1>1, <1>2, <1>3, TypeCorrect, Integrity, PTL DEF Spec

\* When handlers do not overlap, a profile that has withdrawn holds no post once its
\* handler has ended, as long as no statement has failed: the cascade of Withdraw
\* misses none of the posts, and ToggleResponsibility gives a post to nobody who is
\* not signed up.
THEOREM SerialWithdrawal ==
  ASSUME Cardinality(Requests) <= 1
  PROVE  Spec => [](faults = 0 => WithdrawnHoldNoPost)
  <1>1. SerialSoFar => (faults = 0 => WithdrawnHoldNoPost)
    BY DEF SerialSoFar, SerialInv, HoldersAttend, Leaving, WithdrawnHoldNoPost
  <1>2. Spec => []SerialSoFar
    BY SerialInvariant
  <1> QED BY <1>1, <1>2, PTL
-----------------------------------------------------------------------------
(***************************************************************************)
(* The refinement of EventRoster, for one request at a time and no         *)
(* failure.  The lemmas that come first say which change of the tables and *)
(* of the request in flight is which step of the roster.                   *)
(***************************************************************************)

Exists == event \in {"upcoming", "past"}
SeatsOffered == [p \in Profiles |-> IF p \in Leaving THEN 0 ELSE seatbelts[p]]

\* The holder the mapping shows for a post that the profiles in S keep.
Shown(S) == IF S = {} THEN NoProfile ELSE CHOOSE p \in S : TRUE

LEMMA ShownOne == Shown({}) = NoProfile /\ \A p : Shown({p}) = p
  BY DEF Shown

LEMMA MapStutter ==
  ASSUME UNCHANGED <<Exists, attendee, SeatsOffered>>,
         \A post \in Posts : Staying(post)' = Staying(post)
  PROVE  UNCHANGED Roster!rosterVars
  <1>1. UNCHANGED [post \in Posts |-> Shown(Staying(post))]
    OBVIOUS
  <1> QED BY <1>1 DEF Roster!rosterVars, Shown, SeatsOffered, Exists, HasAttendeeRow

LEMMA MapTakePost ==
  ASSUME NEW p \in Profiles, NEW post \in Posts, attendee[p] = "signed_up",
         UNCHANGED <<Exists, attendee, SeatsOffered>>,
         Staying(post)' = {p},
         \A x \in Posts \ {post} : Staying(x)' = Staying(x)
  PROVE  Roster!TakePost(p, post)
  <1>1. [x \in Posts |-> Shown(Staying(x))]'
          = [[x \in Posts |-> Shown(Staying(x))] EXCEPT ![post] = p]
    BY ShownOne
  <1> QED BY <1>1 DEF Roster!TakePost, Shown, SeatsOffered, Exists, HasAttendeeRow
LEMMA MapLeavePost ==
  ASSUME NEW p \in Profiles, NEW post \in Posts,
         UNCHANGED <<Exists, attendee, SeatsOffered>>,
         Staying(post) = {p}, Staying(post)' = {},
         \A x \in Posts \ {post} : Staying(x)' = Staying(x)
  PROVE  Roster!LeavePost(p, post)
  <1>1. [x \in Posts |-> Shown(Staying(x))]'
          = [[x \in Posts |-> Shown(Staying(x))] EXCEPT ![post] = NoProfile]
    BY ShownOne
  <1>2. [x \in Posts |-> Shown(Staying(x))][post] = p
    BY ShownOne
  <1> QED BY <1>1, <1>2 DEF Roster!LeavePost, Shown, SeatsOffered, Exists, HasAttendeeRow

LEMMA MapSignUp ==
  ASSUME TypeOK, NEW p \in Profiles, Exists, Exists',
         attendee' = [attendee EXCEPT ![p] = "signed_up"],
         UNCHANGED SeatsOffered,
         \A x \in Posts : Staying(x)' = Staying(x)
  PROVE  Roster!SignUp(p)
  <1>1. UNCHANGED [post \in Posts |-> Shown(Staying(post))]
    OBVIOUS
  <1>2. /\ {q \in Profiles : HasAttendeeRow(q)}' = {q \in Profiles : HasAttendeeRow(q)} \union {p}
        /\ {q \in Profiles : attendee[q] = "signed_up"}'
             = {q \in Profiles : attendee[q] = "signed_up"} \union {p}
    BY DEF TypeOK, HasAttendeeRow
  <1> QED BY <1>1, <1>2 DEF Roster!SignUp, Shown, SeatsOffered, Exists

LEMMA MapWithdraw ==
  ASSUME TypeOK, NEW p \in Profiles, attendee[p] = "signed_up",
         attendee' = [attendee EXCEPT ![p] = "canceled"],
         UNCHANGED Exists,
         SeatsOffered' = [SeatsOffered EXCEPT ![p] = 0],
         \A x \in Posts : /\ Staying(x) = {} \/ \E q \in Profiles : Staying(x) = {q}
                          /\ Staying(x)' = Staying(x) \ {p}
  PROVE  Roster!Withdraw(p)
  <1>1. ASSUME NEW x \in Posts
        PROVE  Shown(Staying(x)') = IF Shown(Staying(x)) = p THEN NoProfile ELSE Shown(Staying(x))
    <2>1. CASE Staying(x) = {}
      <3>1. Staying(x)' = {}
        BY <2>1
      <3> QED BY <2>1, <3>1, ShownOne
    <2>2. CASE Staying(x) = {p}
      <3>1. Staying(x)' = {}
        BY <2>2
      <3> QED BY <2>2, <3>1, ShownOne
    <2>3. ASSUME NEW q \in Profiles, Staying(x) = {q}, q # p
          PROVE  Shown(Staying(x)') = Shown(Staying(x)) /\ Shown(Staying(x)) # p
      <3>1. Staying(x)' = {q}
        BY <2>3
      <3> QED BY <2>3, <3>1, ShownOne
    <2> QED BY <2>1, <2>2, <2>3
  <1>2. [x \in Posts |-> Shown(Staying(x))]'
          = [x \in Posts |-> IF [y \in Posts |-> Shown(Staying(y))][x] = p THEN NoProfile
                             ELSE [y \in Posts |-> Shown(Staying(y))][x]]
    BY <1>1
  <1>3. /\ UNCHANGED {q \in Profiles : HasAttendeeRow(q)}
        /\ {q \in Profiles : attendee[q] = "signed_up"}'
             = {q \in Profiles : attendee[q] = "signed_up"} \ {p}
        /\ p \in {q \in Profiles : attendee[q] = "signed_up"}
    BY DEF TypeOK, HasAttendeeRow
  <1> QED BY <1>2, <1>3 DEF Roster!Withdraw, Shown, SeatsOffered, Exists

LEMMA MapOfferSeats ==
  ASSUME NEW p \in Profiles, NEW n, HasAttendeeRow(p),
         UNCHANGED <<Exists, attendee>>,
         SeatsOffered' = [SeatsOffered EXCEPT ![p] = n],
         \A x \in Posts : Staying(x)' = Staying(x)
  PROVE  Roster!OfferSeats(p, n)
  <1>1. UNCHANGED [post \in Posts |-> Shown(Staying(post))]
    OBVIOUS
  <1> QED BY <1>1 DEF Roster!OfferSeats, Shown, SeatsOffered, Exists, HasAttendeeRow

LEMMA MapOpen ==
  ASSUME ~ Exists, Exists', UNCHANGED <<attendee, SeatsOffered>>,
         \A x \in Posts : Staying(x)' = Staying(x)
  PROVE  Roster!Open
  <1>1. UNCHANGED [post \in Posts |-> Shown(Staying(post))]
    OBVIOUS
  <1> QED BY <1>1 DEF Roster!Open, Shown, SeatsOffered, Exists, HasAttendeeRow

LEMMA MapClose ==
  ASSUME EventDelete
  PROVE  Roster!Close
  <1>1. \A x \in Posts : Staying(x)' = {}
    BY DEF EventDelete, Staying, Holders
  <1>2. [x \in Posts |-> Shown(Staying(x))]' = [x \in Posts |-> NoProfile]
    BY <1>1, ShownOne
  <1>3. SeatsOffered' = [p \in Profiles |-> 0]
    BY DEF EventDelete, SeatsOffered
  <1>4. /\ Exists /\ ~ Exists'
        /\ {q \in Profiles : HasAttendeeRow(q)}' = {}
        /\ {q \in Profiles : attendee[q] = "signed_up"}' = {}
    BY DEF EventDelete, Exists, HasAttendeeRow
  <1> QED BY <1>2, <1>3, <1>4 DEF Roster!Close, Shown, SeatsOffered, Exists

\* The profile that the request in flight is about to evict from a post, or has evicted.
Spared(r, x) == IF req[r].post = x /\ req[r].holder \in Profiles /\ event # "deleted"
                THEN {req[r].holder} ELSE {}

\* What the only request adds to, and takes from, the holders in the table.
LEMMA OneRequestStays ==
  ASSUME \A s, t \in Requests : s = t, NEW r \in Requests
  PROVE  /\ Leaving = IF req[r].stage = "cascade" THEN {req[r].profile} ELSE {}
         /\ Leaving' = IF req'[r].stage = "cascade" THEN {req'[r].profile} ELSE {}
         /\ \A x \in Posts : /\ Staying(x) = (Holders(x) \ Leaving) \union Spared(r, x)
                             /\ Staying(x)' = (Holders(x)' \ Leaving') \union Spared(r, x)'
  <1>1. /\ Leaving = IF req[r].stage = "cascade" THEN {req[r].profile} ELSE {}
        /\ Leaving' = IF req'[r].stage = "cascade" THEN {req'[r].profile} ELSE {}
    BY DEF Leaving
  <1>2. ASSUME NEW x \in Posts
        PROVE  Staying(x) = (Holders(x) \ Leaving) \union Spared(r, x)
    BY DEF Staying, Spared
  <1>3. ASSUME NEW x \in Posts
        PROVE  Staying(x)' = (Holders(x)' \ Leaving') \union Spared(r, x)'
    BY DEF Staying, Spared
  <1> QED BY <1>1, <1>2, <1>3

\* While nobody leaves and nobody is evicted the tables are what the roster shows.
LEMMA RestingShows ==
  ASSUME \A s, t \in Requests : s = t, TypeOK, TypeOK', NEW r \in Requests
  PROVE  /\ (req[r].stage # "cascade" /\ req[r].holder \notin Profiles) =>
              Leaving = {} /\ SeatsOffered = seatbelts /\ \A x \in Posts : Staying(x) = Holders(x)
         /\ (req'[r].stage # "cascade" /\ req'[r].holder \notin Profiles) =>
              /\ Leaving' = {} /\ SeatsOffered' = seatbelts'
              /\ \A x \in Posts : Staying(x)' = Holders(x)'
  <1>1. ASSUME req[r].stage # "cascade", req[r].holder \notin Profiles
        PROVE  Leaving = {} /\ SeatsOffered = seatbelts /\ \A x \in Posts : Staying(x) = Holders(x)
    <2>1. Leaving = {} /\ \A x \in Posts : Spared(r, x) = {}
      BY <1>1, OneRequestStays DEF Spared
    <2>2. seatbelts = [q \in Profiles |-> seatbelts[q]]
      BY DEF TypeOK
    <2>3. SeatsOffered = seatbelts
      BY <2>1, <2>2 DEF SeatsOffered
    <2> QED BY <2>1, <2>3, OneRequestStays
  <1>2. ASSUME req'[r].stage # "cascade", req'[r].holder \notin Profiles
        PROVE  /\ Leaving' = {} /\ SeatsOffered' = seatbelts'
               /\ \A x \in Posts : Staying(x)' = Holders(x)'
    <2>1. Leaving' = {} /\ \A x \in Posts : Spared(r, x)' = {}
      BY <1>2, OneRequestStays DEF Spared
    <2>2. seatbelts' = [q \in Profiles |-> seatbelts'[q]]
      BY DEF TypeOK
    <2>3. SeatsOffered' = seatbelts'
      BY <2>1, <2>2 DEF SeatsOffered
    <2> QED BY <2>1, <2>3, OneRequestStays
  <1> QED BY <1>1, <1>2

StepMaps == Roster!RosterNext \/ UNCHANGED Roster!rosterVars

LEMMA BeginMaps ==
  ASSUME \A s, t \in Requests : s = t, TypeOK, TypeOK', SerialInv, SerialInv',
         NEW r \in Requests, Begin(r)
  PROVE  StepMaps
  <1>1. /\ UNCHANGED tables /\ req[r] = Idle
        /\ event' = event \/ (event = "unborn" /\ event' \in {"upcoming", "past"})
    BY DEF Begin, EventCreate, BeginSignUp, BeginWithdraw, BeginToggle, BeginDriver, Admit
  <1>2. req[r].stage # "cascade" /\ req[r].holder \notin Profiles
    BY <1>1, ProfilesAssumption DEF Idle
  <1>3. req'[r].stage # "cascade" /\ req'[r].holder \notin Profiles
    BY BeginRests
  <1>4. UNCHANGED <<attendee, SeatsOffered>> /\ \A x \in Posts : Staying(x)' = Staying(x)
    BY <1>1, <1>2, <1>3, RestingShows DEF tables, Holders
  <1> QED BY <1>1, <1>4, MapOpen, MapStutter DEF Exists, StepMaps, Roster!RosterNext

\* No failure, one request: each statement is a step of the roster or changes nothing
\* that the roster shows.
LEMMA ServeMaps ==
  ASSUME \A s, t \in Requests : s = t, TypeOK, TypeOK', ReferentialIntegrity, SingletonHolders,
         SerialInv, SerialInv', NEW r \in Requests, Serve(r)
  PROVE  StepMaps
  <1> DEFINE p == req[r].profile
             post == req[r].post
             Rests == req[r].stage # "cascade" /\ req[r].holder \notin Profiles
  <1>0. /\ RequestSound(r)
        /\ req[r] \in RequestRecord
        /\ req[r].stage # "idle" => p \in Profiles
        /\ req[r].stage \in PostStages => post \in Posts
        /\ req[r].belts \in 0..MaxSeatbelts /\ 0 \in 0..MaxSeatbelts
        /\ "driver" \notin Posts
    BY BoundsAssumption DEF SerialInv, TypeOK, RequestRecord, Posts
  <1>1. req[r].stage \notin {"evict", "reselect", "insert", "cascade"} => Rests
    BY <1>0 DEF RequestSound
  <1>2. Finish(r) => /\ req'[r].stage # "cascade" /\ req'[r].holder \notin Profiles
                     /\ SeatsOffered' = seatbelts'
                     /\ \A x \in Posts : Staying(x)' = Holders(x)'
    BY FinishRests, RestingShows
  <1>3. Rests => SeatsOffered = seatbelts /\ \A x \in Posts : Staying(x) = Holders(x)
    BY RestingShows
  <1>14. \A x \in Posts : /\ Leaving = {} /\ Spared(r, x) = {} => Staying(x) = Holders(x)
                          /\ Leaving' = {} /\ Spared(r, x)' = {} => Staying(x)' = Holders(x)'
    <2>1. ASSUME NEW x \in Posts
          PROVE  /\ Staying(x) = (Holders(x) \ Leaving) \union Spared(r, x)
                 /\ Staying(x)' = (Holders(x)' \ Leaving') \union Spared(r, x)'
      BY <2>1, OneRequestStays
    <2> QED BY <2>1
  <1>15. \A x \in Posts : /\ Leaving = {} => Staying(x) = Holders(x) \union Spared(r, x)
                          /\ Leaving' = {} => Staying(x)' = Holders(x)' \union Spared(r, x)'
    BY OneRequestStays
  <1>4. CASE Enrol(r)
    <2>1. req'[r].stage # "cascade" /\ req'[r].holder \notin Profiles
      <3>1. CASE Finish(r)
        BY <3>1, <1>2
      <3>2. ASSUME NEW x, req' = [req EXCEPT ![r].stage = "select", ![r].post = x]
            PROVE  req'[r].stage # "cascade" /\ req'[r].holder \notin Profiles
        BY <1>1, <1>4, <3>2 DEF TypeOK, RequestRecord, Enrol
      <3> QED BY <1>4, <3>1, <3>2 DEF Enrol
    <2>2. Rests /\ UNCHANGED <<event, holds, seatbelts>> /\ p \in Profiles
      BY <1>0, <1>1, <1>4 DEF Enrol
    <2>3. UNCHANGED SeatsOffered /\ \A x \in Posts : Staying(x)' = Staying(x)
      BY <2>1, <2>2, <1>3, RestingShows DEF Holders
    <2>4. UNCHANGED attendee \/ (Exists /\ attendee' = [attendee EXCEPT ![p] = "signed_up"])
      BY <1>4 DEF Enrol, Exists
    <2> QED BY <2>2, <2>3, <2>4, MapSignUp, MapStutter DEF StepMaps, Roster!RosterNext, Exists
  <1>5. CASE SelectHolder(r)
    <2>1. /\ req[r].stage \in {"select", "reselect"} /\ post \in Posts
          /\ UNCHANGED <<event, attendee, holds, seatbelts>>
      BY <1>0, <1>5 DEF SelectHolder, tables, PostStages
    <2>2. CASE GoTo(r, "insert")
      <3>1. Leaving = {} /\ Leaving' = {}
        BY <2>1, <2>2, GoToSound, OneRequestStays
      <3>3. \A x \in Posts : Holders(x)' = Holders(x) /\ Spared(r, x)' = Spared(r, x)
        BY <2>1, <2>2, GoToSound DEF Holders, Spared
      <3>2. UNCHANGED SeatsOffered /\ \A x \in Posts : Staying(x)' = Staying(x)
        BY <2>1, <3>1, <3>3, <1>15 DEF SeatsOffered
      <3> QED BY <2>1, <3>1, <3>2, MapStutter DEF StepMaps, Exists
    <2>3. ASSUME req[r].stage = "select", NEW h \in OtherHolders(r),
                 req' = [req EXCEPT ![r].stage = "evict", ![r].holder = h]
          PROVE  StepMaps
      <3>1. /\ req'[r].stage = "evict" /\ req'[r].holder = h /\ UNCHANGED <<req[r].post>>
        BY <2>3 DEF TypeOK, RequestRecord
      <3>2. Holders(post) = {h}
        BY <2>1, <2>3 DEF SingletonHolders, OtherHolders
      <3>3. Leaving' = {} /\ \A x \in Posts : Holders(x)' = Holders(x) /\ Spared(r, x)' \subseteq Holders(x)
        BY <2>1, <3>1, <3>2, OneRequestStays DEF Holders, Spared
      <3>4. Leaving = {} /\ \A x \in Posts : Staying(x) = Holders(x)
        BY <1>1, <2>3, RestingShows
      <3>5. UNCHANGED SeatsOffered /\ \A x \in Posts : Staying(x)' = Staying(x)
        <4>1. \A x \in Posts : Holders(x)' \union Spared(r, x)' = Holders(x)
          BY <3>3
        <4>2. UNCHANGED SeatsOffered
          BY <2>1, <3>3, <3>4 DEF SeatsOffered
        <4> QED BY <3>3, <3>4, <4>1, <4>2, <1>15
      <3> QED BY <2>1, <3>5, MapStutter DEF StepMaps, Exists
    <2>4. CASE Finish(r) /\ OtherHolders(r) # {}
      <3>1. req[r].stage = "select"
        BY <2>1, <2>4, <1>0 DEF RequestSound, OtherHolders
      <3>2. UNCHANGED SeatsOffered /\ \A x \in Posts : Staying(x)' = Staying(x)
        BY <1>1, <1>2, <1>3, <2>1, <2>4, <3>1 DEF Holders
      <3> QED BY <2>1, <3>2, MapStutter DEF StepMaps, Exists
    <2> QED BY <1>5, <2>2, <2>3, <2>4 DEF SelectHolder
  <1>6. CASE InsertPost(r)
    <2>1. /\ req[r].stage = "insert" /\ post \in Posts /\ p \in Profiles /\ Finish(r)
          /\ UNCHANGED <<event, attendee, seatbelts>>
      BY <1>0, <1>6 DEF InsertPost, PostStages
    <2>2. /\ Holders(post) \subseteq IF req[r].holder \in Profiles THEN {} ELSE {p}
          /\ attendee[p] = "signed_up" \/ event = "deleted"
      BY <1>0, <2>1 DEF RequestSound, PostStages
    <2>3. Leaving = {} /\ UNCHANGED SeatsOffered
      BY <2>1, FinishRests, RestingShows, OneRequestStays DEF SeatsOffered
    <2>4. CASE event = "deleted"
      <3>1. UNCHANGED holds
        BY <1>6, <2>1, <2>4 DEF InsertPost, ReferentialIntegrity
      <3>2. \A x \in Posts : Staying(x)' = Staying(x)
        <4>1. \A x \in Posts : Spared(r, x) = {} /\ Holders(x)' = Holders(x)
          BY <2>4, <3>1 DEF Holders, Spared
        <4> QED BY <1>2, <2>1, <2>3, <4>1, <1>14
      <3> QED BY <2>1, <2>3, <3>2, MapStutter DEF StepMaps, Exists
    <2>5. CASE event # "deleted"
      <3>1. attendee[p] = "signed_up" /\ holds' = [holds EXCEPT ![p] = @ \union {post}]
        BY <1>6, <2>2, <2>5 DEF InsertPost, HasAttendeeRow
      <3>2. \A x \in Posts : x = post => Staying(x)' = {p}
        <4>1. \A x \in Posts : x = post => Holders(x)' = {p}
          BY <2>1, <2>2, <3>1 DEF Holders, TypeOK
        <4> QED BY <1>2, <2>1, <4>1
      <3>3. ASSUME NEW x \in Posts \ {post} PROVE Staying(x)' = Staying(x)
        <4>1. Spared(r, x) = {} /\ Holders(x)' = Holders(x)
          BY <2>1, <3>1 DEF Holders, TypeOK, Spared
        <4> QED BY <1>2, <2>1, <2>3, <4>1, <1>14
      <3>4. Roster!TakePost(p, post)
        BY <2>1, <2>3, <3>1, <3>2, <3>3, MapTakePost DEF Exists
      <3> QED BY <2>1, <3>4 DEF StepMaps, Roster!RosterNext
    <2> QED BY <2>4, <2>5
  <1>7. CASE EvictHolder(r)
    <2>1. /\ req[r].stage = "evict" /\ post \in Posts /\ req[r].holder \in Profiles
          /\ GoTo(r, "reselect")
          /\ holds' = [holds EXCEPT ![req[r].holder] = @ \ {post}]
          /\ UNCHANGED <<event, attendee, seatbelts>>
      BY <1>0, <1>7 DEF EvictHolder, DeleteResponsibility, PostStages, RequestRecord
    <2>2. Leaving = {} /\ Leaving' = {} /\ UNCHANGED SeatsOffered
      BY <2>1, GoToSound, OneRequestStays DEF SeatsOffered
    <2>3. IF event = "deleted" THEN Holders(post) = {} ELSE Holders(post) = {req[r].holder}
      BY <2>1, <1>0 DEF RequestSound, ReferentialIntegrity, Holders
    <2>4. \A x \in Posts : x = post => Holders(x)' = {}
      BY <2>1, <2>3 DEF Holders, TypeOK
    <2>5. UNCHANGED <<req[r].post, req[r].holder>>
      BY <2>1, GoToSound
    <2>6. \A x \in Posts : /\ Spared(r, x)' = Spared(r, x)
                           /\ x = post => Holders(x) \subseteq Spared(r, x)
      BY <2>1, <2>3, <2>5 DEF Spared
    <2>7. \A x \in Posts : x # post => Holders(x)' = Holders(x)
      BY <2>1 DEF Holders, TypeOK
    <2>8. ASSUME NEW x \in Posts PROVE Staying(x)' = Staying(x)
      <3>1. Holders(x)' \union Spared(r, x)' = Holders(x) \union Spared(r, x)
        BY <2>4, <2>6, <2>7
      <3> QED BY <2>2, <3>1, <1>15
    <2> QED BY <2>1, <2>2, <2>8, MapStutter DEF StepMaps, Exists
  <1>8. CASE CheckAttending(r) \/ CheckHolding(r)
    <2>1. /\ Rests /\ UNCHANGED <<event, attendee, holds, seatbelts>>
          /\ Finish(r) \/ \E s \in {"holding", "release", "select"} : GoTo(r, s)
      BY <1>1, <1>8 DEF CheckAttending, CheckHolding, tables
    <2>2. req'[r].stage # "cascade" /\ req'[r].holder \notin Profiles
      BY <2>1, <1>2, GoToSound
    <2>3. UNCHANGED SeatsOffered /\ \A x \in Posts : Staying(x)' = Staying(x)
      BY <2>1, <2>2, <1>3, RestingShows DEF Holders
    <2> QED BY <2>1, <2>3, MapStutter DEF StepMaps, Exists
  <1>9. CASE ReleasePost(r)
    <2>1. /\ Rests /\ Finish(r) /\ p \in Profiles /\ post \in Posts
          /\ holds' = [holds EXCEPT ![p] = @ \ {post}]
          /\ post \in holds[p] \/ event = "deleted"
          /\ UNCHANGED <<event, attendee, seatbelts>>
      BY <1>0, <1>1, <1>9 DEF ReleasePost, DeleteResponsibility, PostStages, RequestSound
    <2>2. UNCHANGED SeatsOffered
      BY <2>1, <1>2, <1>3
    <2>3. CASE event = "deleted"
      <3>1. \A x \in Posts : Holders(x)' = Holders(x)
        BY <2>1, <2>3 DEF ReferentialIntegrity, Holders, TypeOK
      <3> QED BY <2>1, <2>2, <3>1, <1>2, <1>3, MapStutter DEF StepMaps, Exists
    <2>4. CASE post \in holds[p]
      <3>1. Staying(post) = {p}
        BY <2>1, <2>4, <1>3 DEF SingletonHolders, Holders
      <3>2. /\ \A x \in Posts \ {post} : Staying(x)' = Staying(x)
            /\ \A x \in Posts : x = post => Staying(x)' = {}
        BY <2>1, <3>1, <1>2, <1>3 DEF Holders, TypeOK
      <3>3. Roster!LeavePost(p, post)
        BY <2>1, <2>2, <3>1, <3>2, MapLeavePost DEF Exists
      <3> QED BY <2>1, <3>3 DEF StepMaps, Roster!RosterNext
    <2> QED BY <2>1, <2>3, <2>4
  <1>10. CASE CancelAttendance(r)
    <2>1. /\ Rests /\ p \in Profiles /\ GoTo(r, "cascade")
          /\ attendee' = [attendee EXCEPT ![p] = IF @ = "signed_up" THEN "canceled" ELSE @]
          /\ UNCHANGED <<event, holds, seatbelts>>
      BY <1>0, <1>1, <1>10 DEF CancelAttendance
    <2>2. /\ Leaving' = {p} /\ req'[r].holder \notin Profiles
          /\ SeatsOffered = seatbelts /\ \A x \in Posts : Staying(x) = Holders(x)
      BY <2>1, <1>3, GoToSound, OneRequestStays
    <2>3. \A x \in Posts : Staying(x)' = Staying(x) \ {p}
      <3>1. \A x \in Posts : Spared(r, x)' = {} /\ Holders(x)' = Holders(x)
        BY <2>1, <2>2 DEF Spared, Holders
      <3>2. \A x \in Posts : Staying(x)' = (Holders(x)' \ Leaving') \union Spared(r, x)'
        BY OneRequestStays
      <3> QED BY <2>2, <3>1, <3>2
    <2>4. SeatsOffered' = [SeatsOffered EXCEPT ![p] = 0]
      BY <2>1, <2>2 DEF SeatsOffered, TypeOK
    <2>5. CASE attendee[p] = "signed_up"
      <3>1. \A x \in Posts : Staying(x) = {} \/ \E q \in Profiles : Staying(x) = {q}
        BY <2>2 DEF SingletonHolders, Holders
      <3>2. PICK q \in Profiles : q = p
        BY <2>1
      <3>3. attendee[q] = "signed_up" /\ attendee' = [attendee EXCEPT ![q] = "canceled"]
        BY <2>1, <2>5, <3>2
      <3>4. UNCHANGED Exists
        BY <2>1 DEF Exists
      <3>5. /\ SeatsOffered' = [SeatsOffered EXCEPT ![q] = 0]
            /\ \A x \in Posts : Staying(x)' = Staying(x) \ {q}
        BY <2>3, <2>4, <3>2
      <3>6. Roster!Withdraw(q)
        BY <3>1, <3>3, <3>4, <3>5, MapWithdraw
      <3> QED BY <3>6 DEF StepMaps, Roster!RosterNext
    <2>6. CASE attendee[p] # "signed_up"
      <3>1. UNCHANGED attendee
        BY <2>1, <2>6 DEF TypeOK
      <3>2. holds[p] = {}
        BY <2>1, <2>6, NobodyLeaving
      <3>3. \A x \in Posts : Staying(x)' = Staying(x)
        BY <2>2, <2>3, <3>2 DEF Holders
      <3>4. CASE HasAttendeeRow(p)
        <4>1. Roster!OfferSeats(p, 0)
          BY <2>1, <2>4, <3>1, <3>3, <3>4, MapOfferSeats DEF Exists
        <4> QED BY <1>0, <2>1, <4>1 DEF StepMaps, Roster!RosterNext
      <3>5. CASE ~ HasAttendeeRow(p)
        <4>1. seatbelts[p] = 0
          BY <2>1, <3>5 DEF ReferentialIntegrity, TypeOK
        <4>2. UNCHANGED SeatsOffered
          BY <2>1, <2>2, <2>4, <4>1 DEF TypeOK
        <4> QED BY <2>1, <3>1, <3>3, <4>2, MapStutter DEF StepMaps, Exists
      <3> QED BY <3>4, <3>5
    <2> QED BY <2>5, <2>6
  <1>11. CASE CascadeDelete(r)
    <2>1. /\ req[r].stage = "cascade" /\ p \in Profiles /\ NextInCascade(r)
          /\ DeleteResponsibility(p, CascadeOrder[req[r].step])
          /\ req[r].holder \notin Profiles
          /\ UNCHANGED <<event, attendee>>
      BY <1>0, <1>11 DEF CascadeDelete, RequestSound
    <2>2. /\ \A q \in Profiles \ {p} : holds'[q] = holds[q] /\ seatbelts'[q] = seatbelts[q]
          /\ seatbelts[p] = 0 => seatbelts'[p] = 0
      BY <2>1 DEF DeleteResponsibility, TypeOK
    <2>3. Leaving = {p} /\ \A x \in Posts : Spared(r, x) = {}
      BY <2>1, OneRequestStays DEF Spared
    <2>4. \A x \in Posts : Staying(x) = Holders(x) \ {p}
      <3>1. \A x \in Posts : Staying(x) = (Holders(x) \ Leaving) \union Spared(r, x)
        BY OneRequestStays
      <3> QED BY <2>3, <3>1
    <2>5. CASE req[r].step < Len(CascadeOrder)
      <3>1. /\ req'[r].stage = "cascade" /\ req'[r].profile = p
            /\ req'[r].holder \notin Profiles
        <4>1. req' = [req EXCEPT ![r].step = req[r].step + 1]
          BY <2>1, <2>5 DEF NextInCascade
        <4> QED BY <2>1, <4>1 DEF TypeOK, RequestRecord
      <3>2. Leaving' = {p} /\ \A x \in Posts : Spared(r, x)' = {}
        BY <3>1, OneRequestStays DEF Spared
      <3>3. \A x \in Posts : Holders(x)' \ {p} = Holders(x) \ {p}
        BY <2>2 DEF Holders
      <3>4. \A x \in Posts : Staying(x)' = Staying(x)
        <4>1. \A x \in Posts : Staying(x)' = (Holders(x)' \ Leaving') \union Spared(r, x)'
          BY OneRequestStays
        <4> QED BY <2>4, <3>2, <3>3, <4>1
      <3>5. UNCHANGED SeatsOffered
        BY <2>2, <2>3, <3>2 DEF SeatsOffered
      <3> QED BY <2>1, <3>4, <3>5, MapStutter DEF StepMaps, Exists
    <2>6. CASE ~ (req[r].step < Len(CascadeOrder))
      <3>1. Finish(r) /\ req[r].step = 5
        BY <1>0, <2>1, <2>6, CascadeLength DEF NextInCascade, RequestRecord
      <3>2. attendee[p] # "signed_up" /\ seatbelts'[p] = 0
        BY <1>0, <2>1, <2>2, <3>1 DEF RequestSound
      <3>3. holds'[p] = {}
        <4>1. Leaving' = {}
          BY <3>1, FinishRests, OneRequestStays
        <4> QED BY <2>1, <3>2, <4>1 DEF SerialInv, HoldersAttend
      <3>4. \A x \in Posts : Holders(x)' = Holders(x) \ {p}
        BY <2>2, <3>3 DEF Holders
      <3>5. \A x \in Posts : Staying(x)' = Staying(x)
        BY <1>2, <2>4, <3>1, <3>4
      <3>6. seatbelts' = [q \in Profiles |-> IF q = p THEN 0 ELSE seatbelts[q]]
        BY <2>2, <3>2 DEF TypeOK
      <3>7. UNCHANGED SeatsOffered
        BY <1>2, <2>3, <3>1, <3>6 DEF SeatsOffered
      <3> QED BY <2>1, <3>5, <3>7, MapStutter DEF StepMaps, Exists
    <2> QED BY <2>5, <2>6
  <1>12. ASSUME NEW n \in 0..MaxSeatbelts, p \in Profiles, Rests, Finish(r),
                UNCHANGED <<event, attendee>>,
                \A x \in Posts : Holders(x)' = Holders(x),
                seatbelts' = [seatbelts EXCEPT ![p] = n],
                HasAttendeeRow(p) \/ n = seatbelts[p]
         PROVE  StepMaps
    <2>1. /\ SeatsOffered' = [SeatsOffered EXCEPT ![p] = n]
          /\ \A x \in Posts : Staying(x)' = Staying(x)
      BY <1>2, <1>3, <1>12
    <2>2. CASE HasAttendeeRow(p)
      <3>1. Roster!OfferSeats(p, n)
        BY <1>12, <2>1, <2>2, MapOfferSeats DEF Exists
      <3> QED BY <1>12, <3>1 DEF StepMaps, Roster!RosterNext
    <2>3. CASE n = seatbelts[p]
      <3>1. UNCHANGED SeatsOffered
        BY <1>2, <1>3, <1>12, <2>3 DEF TypeOK
      <3> QED BY <1>12, <2>1, <3>1, MapStutter DEF StepMaps, Exists
    <2> QED BY <1>12, <2>2, <2>3
  <1>13. CASE AddDriver(r) \/ RemoveDriver(r) \/ UpdateDriverSeatbelt(r)
    <2>1. /\ Rests /\ p \in Profiles /\ Finish(r) /\ UNCHANGED <<event, attendee>>
          /\ \A x \in Posts : Holders(x)' = Holders(x)
      <3>1. Rests /\ p \in Profiles /\ Finish(r) /\ UNCHANGED <<event, attendee>>
        BY <1>0, <1>1, <1>13 DEF AddDriver, RemoveDriver, UpdateDriverSeatbelt
      <3>2. UNCHANGED holds \/ holds' = [holds EXCEPT ![p] = @ \ {"driver"}]
        BY <1>13 DEF AddDriver, RemoveDriver, UpdateDriverSeatbelt, DeleteResponsibility
      <3>3. \A x \in Posts : Holders(x)' = Holders(x)
        BY <1>0, <3>2 DEF Holders, TypeOK
      <3> QED BY <3>1, <3>3
    <2>2. ~ HasAttendeeRow(p) => seatbelts[p] = 0
      BY <2>1 DEF ReferentialIntegrity, TypeOK
    <2>3. /\ seatbelts[p] \in 0..MaxSeatbelts
          /\ seatbelts = [seatbelts EXCEPT ![p] = seatbelts[p]]
      BY <2>1 DEF TypeOK
    <2>4. \E n \in 0..MaxSeatbelts : /\ seatbelts' = [seatbelts EXCEPT ![p] = n]
                                     /\ HasAttendeeRow(p) \/ n = seatbelts[p]
      <3>1. CASE AddDriver(r)
        BY <1>0, <2>3, <3>1 DEF AddDriver
      <3>2. CASE RemoveDriver(r)
        BY <1>0, <2>2, <3>2 DEF RemoveDriver, DeleteResponsibility
      <3>3. CASE UpdateDriverSeatbelt(r)
        <4> DEFINE n == IF seatbelts[p] > 0 THEN req[r].belts ELSE seatbelts[p]
        <4>1. seatbelts' = [seatbelts EXCEPT ![p] = n]
          BY <3>3 DEF UpdateDriverSeatbelt
        <4>2. /\ n \in 0..MaxSeatbelts
              /\ HasAttendeeRow(p) \/ n = seatbelts[p]
          BY <1>0, <2>2, <2>3
        <4> QED BY <4>1, <4>2
      <3> QED BY <1>13, <3>1, <3>2, <3>3
    <2> QED BY <2>1, <2>4, <1>12
  <1> QED BY <1>4, <1>5, <1>6, <1>7, <1>8, <1>9, <1>10, <1>11, <1>13 DEF Serve

LEMMA StepRefines ==
  ASSUME \A s, t \in Requests : s = t, MaxFaults = 0
  PROVE  /\ TypeOK /\ TypeOK' /\ ReferentialIntegrity /\ SingletonHolders
         /\ SerialSoFar /\ SerialSoFar' /\ [Next]_vars
         => [Roster!RosterNext]_Roster!rosterVars
  <1> SUFFICES ASSUME TypeOK, TypeOK', ReferentialIntegrity, SingletonHolders,
                      SerialSoFar, SerialSoFar', [Next]_vars
               PROVE  StepMaps
    BY DEF StepMaps
  <1>1. SerialInv /\ SerialInv'
    BY DEF TypeOK, SerialSoFar
  <1>2. ASSUME NEW r \in Requests, StatementFails(r) PROVE FALSE
    BY <1>2 DEF StatementFails, TypeOK
  <1>3. CASE EventDelete
    BY <1>3, MapClose DEF StepMaps, Roster!RosterNext
  <1>4. CASE EventEdit \/ EndTimePasses
    <2>1. /\ UNCHANGED <<attendee, holds, seatbelts, req>>
          /\ Exists /\ Exists' /\ event # "deleted" /\ event' # "deleted"
      BY <1>4 DEF EventEdit, EndTimePasses, tables, Exists
    <2>2. UNCHANGED SeatsOffered /\ \A x \in Posts : Staying(x)' = Staying(x)
      BY <2>1 DEF SeatsOffered, Staying, Leaving, Holders
    <2> QED BY <2>1, <2>2, MapStutter DEF StepMaps
  <1>5. CASE UNCHANGED vars
    <2>1. UNCHANGED <<event, attendee, holds, seatbelts, req>>
      BY <1>5 DEF vars
    <2>2. UNCHANGED SeatsOffered /\ \A x \in Posts : Staying(x)' = Staying(x)
      BY <2>1 DEF SeatsOffered, Staying, Leaving, Holders
    <2> QED BY <2>1, <2>2, MapStutter DEF StepMaps, Exists
  <1> QED BY <1>1, <1>2, <1>3, <1>4, <1>5, BeginMaps, ServeMaps DEF Next

\* With one request at a time and no failure the handlers of events.go, a sequence
\* of single statements each, do what EventRoster promises: every statement is one
\* step of the roster, a withdrawal or a replacement at once, or shows nothing.
THEOREM Refinement ==
  ASSUME Cardinality(Requests) <= 1, MaxFaults = 0
  PROVE  Spec => ImplementsRoster
  <1>1. Init => Roster!RosterInit
    <2>1. ASSUME Init, NEW x \in Posts PROVE Staying(x) = {}
      BY <2>1, ProfilesAssumption DEF Init, Staying, Holders, Idle
    <2>2. Init => [x \in Posts |-> Shown(Staying(x))] = [x \in Posts |-> NoProfile]
      BY <2>1, ShownOne
    <2>3. Init => /\ ~ Exists /\ SeatsOffered = [p \in Profiles |-> 0]
                  /\ {p \in Profiles : HasAttendeeRow(p)} = {}
                  /\ {p \in Profiles : attendee[p] = "signed_up"} = {}
      BY DEF Init, Exists, SeatsOffered, HasAttendeeRow
    <2> QED BY <2>2, <2>3 DEF Roster!RosterInit, Shown, SeatsOffered, Exists
  <1>2. /\ TypeOK /\ TypeOK' /\ ReferentialIntegrity /\ SingletonHolders
        /\ SerialSoFar /\ SerialSoFar' /\ [Next]_vars
        => [Roster!RosterNext]_Roster!rosterVars
    BY Alone, StepRefines
  <1>3. Spec => []SingletonHolders
    BY SerialSingleton
  <1>4. Spec => []SerialSoFar
    BY SerialInvariant
  <1> QED BY <1>1, <1>2, <1>3, <1>4, TypeCorrect, Integrity, PTL
             DEF Spec, ImplementsRoster, Roster!RosterSpec
=============================================================================
