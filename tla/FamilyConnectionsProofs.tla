----------------------- MODULE FamilyConnectionsProofs -----------------------
(***************************************************************************)
(* Theorems about FamilyConnections, for any number of parents, youth,     *)
(* connections, requests that overlap and failures.                        *)
(***************************************************************************)
EXTENDS FamilyConnections, Counting

LEMMA IdleType == Idle \in RequestRecord
  BY DEF Idle, RequestRecord, Stages, Decisions

LEMMA MoveType ==
  ASSUME TypeOK, NEW r \in Requests
  PROVE  /\ Finish(r) => /\ req' \in [Requests -> RequestRecord]
                         /\ ended' \in SUBSET Requests
                         /\ req'[r].stage = "idle"
                         /\ \A s \in Requests \ {r} : req'[s] = req[s]
         /\ req[r].stage = "check" /\ GoTo(r, "insert") =>
                         /\ req' \in [Requests -> RequestRecord]
                         /\ req'[r].stage = "insert"
                         /\ \A s \in Requests \ {r} : req'[s] = req[s]
  <1>1. req \in [Requests -> RequestRecord] /\ req[r] \in RequestRecord
    BY DEF TypeOK
  <1>2. Idle.stage = "idle"
    BY DEF Idle
  <1>3. req[r].stage = "check" => [req[r] EXCEPT !.stage = "insert"] \in RequestRecord
    BY <1>1 DEF RequestRecord, Stages
  <1>4. req[r].stage = "check" => [req[r] EXCEPT !.stage = "insert"].stage = "insert"
    BY <1>1 DEF RequestRecord
  <1> QED BY <1>1, <1>2, <1>3, <1>4, IdleType DEF Finish, GoTo, TypeOK

\* What a request is about to do is on record.
LEMMA RequestFields ==
  ASSUME TypeOK, NEW r \in Requests
  PROVE  /\ req[r].stage \in {"check", "insert", "signUp", "withdraw"} =>
                req[r].parent \in Parents /\ req[r].youth \in Youth
         /\ req[r].stage = "decide" => req[r].link \in Links
         /\ req[r].decision \in Decisions
         /\ req[r].stage \in Stages
  BY DEF TypeOK, RequestRecord

\* The rows of a decision in flight still exist when no row is emptied.
LEMMA DecideType ==
  ASSUME TypeOK, NEW r \in Requests,
         req' \in [Requests -> RequestRecord],
         \A s \in Requests \ {r} : req'[s] = req[s],
         req'[r].stage # "decide",
         \A l \in Links : link[l].status # "none" => link'[l].status # "none"
  PROVE  \A s \in Requests : req'[s].stage = "decide" => link'[req'[s].link].status # "none"
  <1> SUFFICES ASSUME NEW s \in Requests, req'[s].stage = "decide"
               PROVE  link'[req'[s].link].status # "none"
    OBVIOUS
  <1>1. s # r /\ req'[s] = req[s]
    OBVIOUS
  <1>2. req[s].link \in Links /\ link[req[s].link].status # "none"
    BY <1>1, RequestFields DEF TypeOK
  <1> QED BY <1>1, <1>2

LEMMA BeginType ==
  ASSUME TypeOK, NEW r \in Requests, Begin(r)
  PROVE  /\ TypeOK'
         /\ \A s \in Requests \ {r} : req'[s] = req[s]
         /\ req[r].stage = "idle"
         /\ UNCHANGED <<registered, link, attending, ended, faults>>
  <1>0. req \in [Requests -> RequestRecord] /\ Idle.stage = "idle"
    BY DEF TypeOK, Idle
  <1> DEFINE Goal == /\ TypeOK'
                     /\ \A s \in Requests \ {r} : req'[s] = req[s]
                     /\ req[r].stage = "idle"
                     /\ UNCHANGED <<registered, link, attending, ended, faults>>
  <1>1. ASSUME NEW parent \in Parents, NEW youth \in Youth, BeginAdd(r, parent, youth)
        PROVE  Goal
    <2>1. [Idle EXCEPT !.stage = "check", !.parent = parent, !.youth = youth] \in RequestRecord
      BY IdleType DEF Idle, RequestRecord, Stages
    <2>2. /\ req' \in [Requests -> RequestRecord]
          /\ req'[r].stage = "check"
          /\ \A s \in Requests \ {r} : req'[s] = req[s]
      BY <1>0, <1>1, <2>1 DEF BeginAdd, Idle
    <2>3. link' = link
      BY <1>1 DEF BeginAdd
    <2>4. \A s \in Requests : req'[s].stage = "decide" => link'[req'[s].link].status # "none"
      BY <2>2, <2>3, DecideType
    <2> QED BY <1>0, <1>1, <2>2, <2>4 DEF BeginAdd, TypeOK
  <1>2. ASSUME NEW parent \in Parents, NEW youth \in Youth, NEW stage \in {"signUp", "withdraw"},
               BeginAct(r, parent, youth, stage)
        PROVE  Goal
    <2>1. [Idle EXCEPT !.stage = stage, !.parent = parent, !.youth = youth] \in RequestRecord
      BY IdleType DEF Idle, RequestRecord, Stages
    <2>2. /\ req' \in [Requests -> RequestRecord]
          /\ req'[r].stage # "decide"
          /\ \A s \in Requests \ {r} : req'[s] = req[s]
      BY <1>0, <1>2, <2>1 DEF BeginAct, Idle
    <2>3. link' = link
      BY <1>2 DEF BeginAct
    <2>4. \A s \in Requests : req'[s].stage = "decide" => link'[req'[s].link].status # "none"
      BY <2>2, <2>3, DecideType
    <2> QED BY <1>0, <1>2, <2>2, <2>4 DEF BeginAct, TypeOK
  <1>3. ASSUME NEW l \in Links, NEW decision \in Decisions, BeginDecide(r, l, decision)
        PROVE  Goal
    <2>1. [Idle EXCEPT !.stage = "decide", !.link = l, !.decision = decision] \in RequestRecord
      BY IdleType DEF Idle, RequestRecord, Stages
    <2>2. /\ req' \in [Requests -> RequestRecord]
          /\ req'[r].link = l
          /\ \A s \in Requests \ {r} : req'[s] = req[s]
      BY <1>0, <1>3, <2>1 DEF BeginDecide, Idle
    <2>3. link' = link /\ link[l].status # "none"
      BY <1>3 DEF BeginDecide
    <2>4. \A s \in Requests : req'[s].stage = "decide" => link'[req'[s].link].status # "none"
      BY <2>2, <2>3 DEF TypeOK
    <2> QED BY <1>0, <1>3, <2>2, <2>4 DEF BeginDecide, TypeOK
  <1> QED BY <1>1, <1>2, <1>3 DEF Begin

\* A decision sets the status of its row and leaves every other row alone.
LEMMA DecideRow ==
  ASSUME TypeOK, NEW r \in Requests, Decide(r)
  PROVE  /\ link' \in [Links -> Row]
         /\ req[r].link \in Links
         /\ link[req[r].link].status # "none"
         /\ link'[req[r].link].status = req[r].decision
         /\ link'[req[r].link].parent = link[req[r].link].parent
         /\ link'[req[r].link].youth = link[req[r].link].youth
         /\ \A l \in Links \ {req[r].link} : link'[l] = link[l]
  <1>1. /\ req[r].link \in Links
        /\ req[r].decision \in Decisions
        /\ link[req[r].link].status # "none"
    BY RequestFields DEF Decide, TypeOK
  <1>2. link[req[r].link] \in Row /\ link \in [Links -> Row]
    BY <1>1 DEF TypeOK
  <1>3. [link[req[r].link] EXCEPT !.status = req[r].decision] \in Row
    BY <1>1, <1>2 DEF Row
  <1>4. link' = [link EXCEPT ![req[r].link] =
                                [link[req[r].link] EXCEPT !.status = req[r].decision]]
    BY DEF Decide
  <1>5. /\ [link[req[r].link] EXCEPT !.status = req[r].decision].status = req[r].decision
        /\ [link[req[r].link] EXCEPT !.status = req[r].decision].parent = link[req[r].link].parent
        /\ [link[req[r].link] EXCEPT !.status = req[r].decision].youth = link[req[r].link].youth
    BY <1>2 DEF Row
  <1> HIDE DEF Row
  <1> QED BY <1>1, <1>2, <1>3, <1>4, <1>5

\* What Create inserts is a pending row of the pair.
LEMMA InsertRow ==
  ASSUME TypeOK, NEW r \in Requests, InsertLink(r)
  PROVE  /\ link' \in [Links -> Row]
         /\ \A l \in Links : l # NewLink => link'[l] = link[l]
         /\ \A l \in Links : link[l].status # "none" => link'[l].status # "none"
         /\ req[r].parent \in Parents /\ req[r].youth \in Youth
         /\ NewLink \in Links => link'[NewLink].status = "pending"
  <1>1. req[r].parent \in Parents /\ req[r].youth \in Youth
    BY RequestFields DEF InsertLink
  <1> DEFINE new == [parent |-> req[r].parent, youth |-> req[r].youth, status |-> "pending"]
  <1>2. new \in Row /\ new.status = "pending"
    BY <1>1 DEF Row
  <1>3. link' = [link EXCEPT ![NewLink] = new] /\ link \in [Links -> Row]
    BY DEF InsertLink, TypeOK
  <1> HIDE DEF new
  <1> QED BY <1>1, <1>2, <1>3

LEMMA ServeType ==
  ASSUME TypeOK, NEW r \in Requests, Serve(r)
  PROVE  /\ TypeOK'
         /\ \A s \in Requests \ {r} : req'[s] = req[s]
         /\ req'[r].stage \in {"idle", "insert"}
         /\ UNCHANGED registered
  <1> DEFINE Moved == /\ req' \in [Requests -> RequestRecord]
                      /\ \A s \in Requests \ {r} : req'[s] = req[s]
                      /\ req'[r].stage \in {"idle", "insert"}
             Kept == \A l \in Links : link[l].status # "none" => link'[l].status # "none"
  <1>0. Moved /\ Kept => /\ \A s \in Requests :
                              req'[s].stage = "decide" => link'[req'[s].link].status # "none"
                         /\ Moved
    BY DecideType
  <1>1. Finish(r) => Moved /\ ended' \in SUBSET Requests
    BY MoveType
  <1>2. req[r].stage = "check" /\ GoTo(r, "insert") => Moved
    BY MoveType
  <1>3. CASE CheckPending(r)
    <2>1. Moved /\ Kept
      BY <1>1, <1>2, <1>3 DEF CheckPending
    <2> HIDE DEF Moved, Kept
    <2>2. Moved /\ \A s \in Requests :
                     req'[s].stage = "decide" => link'[req'[s].link].status # "none"
      BY <2>1, <1>0
    <2> QED BY <2>2, <1>1, <1>3 DEF CheckPending, TypeOK, Moved
  <1>4. CASE CheckFails(r)
    <2>1. Moved /\ Kept
      BY <1>2, <1>4 DEF CheckFails
    <2> HIDE DEF Moved, Kept
    <2>2. Moved /\ \A s \in Requests :
                     req'[s].stage = "decide" => link'[req'[s].link].status # "none"
      BY <2>1, <1>0
    <2>3. faults' \in 0..MaxFaults
      BY <1>4, ConnectionsAssumption DEF CheckFails, TypeOK
    <2> QED BY <2>2, <2>3, <1>4 DEF CheckFails, TypeOK, Moved
  <1>5. CASE InsertLink(r)
    <2>1. Moved /\ Kept /\ link' \in [Links -> Row]
      BY <1>1, <1>5, InsertRow DEF InsertLink
    <2> HIDE DEF Moved, Kept
    <2>2. Moved /\ \A s \in Requests :
                     req'[s].stage = "decide" => link'[req'[s].link].status # "none"
      BY <2>1, <1>0
    <2> QED BY <2>1, <2>2, <1>1, <1>5 DEF InsertLink, TypeOK, Moved
  <1>6. CASE Decide(r)
    <2>1. Kept /\ link' \in [Links -> Row]
      BY <1>6, DecideRow, RequestFields DEF Decisions
    <2>2. Moved
      BY <1>6, IdleType DEF Decide, TypeOK, Idle
    <2>3. ended' \in SUBSET Requests
      BY <1>6 DEF Decide, TypeOK, Acting
    <2> HIDE DEF Moved, Kept
    <2>4. Moved /\ \A s \in Requests :
                     req'[s].stage = "decide" => link'[req'[s].link].status # "none"
      BY <2>1, <2>2, <1>0
    <2> QED BY <2>1, <2>3, <2>4, <1>6 DEF Decide, TypeOK, Moved
  <1>7. CASE SignUp(r) \/ Withdraw(r)
    <2>1. Moved /\ Kept
      BY <1>1, <1>7 DEF SignUp, Withdraw
    <2> HIDE DEF Moved, Kept
    <2>2. Moved /\ \A s \in Requests :
                     req'[s].stage = "decide" => link'[req'[s].link].status # "none"
      BY <2>1, <1>0
    <2>3. attending' \in SUBSET Youth
      BY <1>7, RequestFields DEF SignUp, Withdraw, TypeOK
    <2> QED BY <2>2, <2>3, <1>1, <1>7 DEF SignUp, Withdraw, TypeOK, Moved
  <1>8. CASE StatementFails(r)
    <2>1. Moved /\ Kept
      BY <1>1, <1>8 DEF StatementFails
    <2> HIDE DEF Moved, Kept
    <2>2. Moved /\ \A s \in Requests :
                     req'[s].stage = "decide" => link'[req'[s].link].status # "none"
      BY <2>1, <1>0
    <2>3. faults' \in 0..MaxFaults
      BY <1>8, ConnectionsAssumption DEF StatementFails, TypeOK
    <2> QED BY <2>2, <2>3, <1>1, <1>8 DEF StatementFails, TypeOK, Moved
  <1> QED BY <1>3, <1>4, <1>5, <1>6, <1>7, <1>8 DEF Serve

LEMMA StepType == TypeOK /\ [Next]_vars => TypeOK'
  <1> SUFFICES ASSUME TypeOK, [Next]_vars PROVE TypeOK'
    OBVIOUS
  <1>1. ASSUME NEW youth \in Youth, Register(youth) PROVE TypeOK'
    BY <1>1 DEF Register, TypeOK
  <1>2. CASE UNCHANGED vars
    BY <1>2 DEF vars, TypeOK
  <1> QED BY <1>1, <1>2, BeginType, ServeType DEF Next

\* Rows and requests keep their types, and a decision in flight is about a row that
\* exists: nothing deletes a connection.
THEOREM TypeCorrect == Spec => []TypeOK
  <1>1. Init => TypeOK
    BY IdleType, ConnectionsAssumption DEF Init, TypeOK, Row, NoRow, Idle
  <1> QED BY <1>1, StepType, PTL DEF Spec

-----------------------------------------------------------------------------

\* The row that Create inserts did not exist: the bound on rows leaves one to every
\* request that has passed RowLeft, so CHOOSE has something to choose from.
RoomInv ==
    Cardinality({l \in Links : link[l] = NoRow}) >=
        Cardinality({r \in Requests : req[r].stage \in {"check", "insert"}})
\* Requests on their way to Create, and the rows that do not exist yet.
Adding == {r \in Requests : req[r].stage \in {"check", "insert"}}
Free == {l \in Links : link[l] = NoRow}

LEMMA Finite ==
  /\ \A S \in SUBSET Links : IsFiniteSet(S) /\ Cardinality(S) \in Nat
  /\ \A S \in SUBSET Requests : IsFiniteSet(S) /\ Cardinality(S) \in Nat
                                /\ Cardinality(S) <= Cardinality(Requests)
  <1>1. IsFiniteSet(Links) /\ IsFiniteSet(Requests)
    BY ConnectionsAssumption
  <1> QED BY <1>1, CountSame

LEMMA StepRoom == TypeOK /\ RoomInv /\ [Next]_vars => RoomInv'
  <1> SUFFICES ASSUME TypeOK, RoomInv, [Next]_vars PROVE RoomInv'
    OBVIOUS
  <1>0. /\ IsFiniteSet(Adding) /\ IsFiniteSet(Adding') /\ IsFiniteSet(Free) /\ IsFiniteSet(Free')
        /\ Cardinality(Adding) \in Nat /\ Cardinality(Adding') \in Nat
        /\ Cardinality(Free) \in Nat /\ Cardinality(Free') \in Nat
        /\ Cardinality(Free) >= Cardinality(Adding)
    <2>1. /\ Adding \in SUBSET Requests /\ Adding' \in SUBSET Requests
          /\ Free \in SUBSET Links /\ Free' \in SUBSET Links
      BY DEF Adding, Free
    <2>2. Cardinality(Free) >= Cardinality(Adding)
      BY DEF Adding, Free, RoomInv
    <2> QED BY <2>1, <2>2, Finite
  <1>00. Cardinality(Free') >= Cardinality(Adding') => RoomInv'
    BY DEF Adding, Free, RoomInv
  \* Nobody joins, and no row is filled.
  <1>1. Adding' \subseteq Adding /\ Free \subseteq Free' => RoomInv'
    <2> SUFFICES ASSUME Adding' \subseteq Adding, Free \subseteq Free' PROVE RoomInv'
      OBVIOUS
    <2>1. /\ Cardinality(Adding') <= Cardinality(Adding)
          /\ Cardinality(Free) <= Cardinality(Free')
      BY <1>0, CountSame
    <2> QED BY <1>0, <1>00, <2>1
  <1>2. ASSUME NEW r \in Requests, Begin(r) PROVE RoomInv'
    <2>1. /\ \A s \in Requests \ {r} : req'[s] = req[s]
          /\ link' = link
          /\ Free' = Free
      BY <1>2, BeginType DEF Free
    <2>2. CASE RowLeft
      <3>1. Adding' \subseteq Adding \union {r}
        BY <2>1 DEF Adding
      <3>2. Cardinality(Adding') <= Cardinality(Adding) + 1
        BY <1>0, <3>1, CountUp
      <3>3. Cardinality(Free) > Cardinality(Adding)
        BY <2>2 DEF RowLeft, Free, Adding
      <3> QED BY <1>0, <1>00, <2>1, <3>2, <3>3
    <2>3. CASE ~ RowLeft
      <3>1. req'[r].stage \in {"decide", "signUp", "withdraw"}
        <4>1. ASSUME NEW parent \in Parents, NEW youth \in Youth, NEW stage \in {"signUp", "withdraw"},
                     BeginAct(r, parent, youth, stage)
              PROVE  req'[r].stage \in {"decide", "signUp", "withdraw"}
          BY <4>1 DEF BeginAct, TypeOK, Idle
        <4>2. ASSUME NEW l \in Links, NEW decision \in Decisions, BeginDecide(r, l, decision)
              PROVE  req'[r].stage \in {"decide", "signUp", "withdraw"}
          BY <4>2 DEF BeginDecide, TypeOK, Idle
        <4> QED BY <1>2, <2>3, <4>1, <4>2 DEF Begin, BeginAdd
      <3>2. Adding' \subseteq Adding
        BY <2>1, <3>1 DEF Adding
      <3> QED BY <1>1, <2>1, <3>2
    <2> QED BY <2>2, <2>3
  <1>3. ASSUME NEW r \in Requests, InsertLink(r) PROVE RoomInv'
    <2>1. /\ \A s \in Requests \ {r} : req'[s] = req[s]
          /\ req'[r].stage = "idle"
          /\ r \in Adding
      BY <1>3, MoveType DEF InsertLink, Adding
    <2>2. Adding' \subseteq Adding \ {r}
      BY <2>1 DEF Adding
    <2>3. Cardinality(Adding') <= Cardinality(Adding) - 1
      BY <1>0, <2>1, <2>2, CountDown
    <2>4. Free \subseteq Free' \union {NewLink}
      BY <1>3, InsertRow DEF Free
    <2>5. Cardinality(Free) <= Cardinality(Free') + 1
      BY <1>0, <2>4, CountUp
    <2> QED BY <1>0, <1>00, <2>3, <2>5
  <1>4. ASSUME NEW r \in Requests, Decide(r) PROVE RoomInv'
    <2>1. Adding' \subseteq Adding
      BY <1>4, ServeType DEF Serve, Adding, Decide, Idle, TypeOK
    <2>2. Free \subseteq Free'
      BY <1>4, DecideRow DEF Free, NoRow
    <2> QED BY <1>1, <2>1, <2>2
  <1>5. ASSUME NEW r \in Requests,
               \/ CheckPending(r) \/ CheckFails(r) \/ SignUp(r) \/ Withdraw(r) \/ StatementFails(r)
        PROVE  RoomInv'
    <2>1. Adding' \subseteq Adding
      BY <1>5, MoveType
      DEF Adding, CheckPending, CheckFails, SignUp, Withdraw, StatementFails
    <2>2. Free' = Free
      BY <1>5 DEF Free, CheckPending, CheckFails, SignUp, Withdraw, StatementFails
    <2> QED BY <1>1, <2>1, <2>2
  <1>6. ASSUME (\E youth \in Youth : Register(youth)) \/ UNCHANGED vars PROVE RoomInv'
    BY <1>6, <1>1 DEF Register, vars, Adding, Free
  <1> QED BY <1>2, <1>3, <1>4, <1>5, <1>6 DEF Next, Serve

LEMMA RoomInvariant == Spec => []RoomInv
  <1>1. Init => RoomInv
    <2> SUFFICES ASSUME Init PROVE RoomInv
      OBVIOUS
    <2>1. Adding = {} /\ Free \in SUBSET Links
      BY DEF Init, Adding, Free, Idle
    <2>2. Cardinality(Adding) = 0 /\ Cardinality(Free) \in Nat
      BY <2>1, Finite, FS_EmptySet
    <2>3. Cardinality(Free) >= Cardinality(Adding)
      BY <2>2
    <2> QED BY <2>3 DEF RoomInv, Adding, Free
  <1> QED BY <1>1, StepRoom, TypeCorrect, PTL DEF Spec

\* The row that Create fills was empty.
LEMMA RoomToInsert ==
  ASSUME TypeOK, RoomInv, NEW r \in Requests, InsertLink(r)
  PROVE  NewLink \in Links /\ link[NewLink] = NoRow
  <1>1. r \in Adding /\ Adding \in SUBSET Requests /\ Free \in SUBSET Links
    BY DEF InsertLink, Adding, Free
  <1>2. IsFiniteSet(Adding) /\ IsFiniteSet(Free)
    BY <1>1, Finite
  <1>3. Cardinality(Adding) # 0
    BY <1>1, <1>2, FS_EmptySet
  <1>4. Cardinality(Free) # 0
    BY <1>1, <1>3, Finite DEF RoomInv, Adding, Free
  <1>5. Free # {}
    BY <1>4, FS_EmptySet
  <1> QED BY <1>5 DEF NewLink, Free

-----------------------------------------------------------------------------
(***************************************************************************)
(* Authority.                                                              *)
(***************************************************************************)

Connected(parent, youth) ==
    \E l \in Links : /\ link[l].parent = parent
                     /\ link[l].youth = youth
                     /\ link[l].status = "approved"

\* The status of a connection changes in a decision only, and every request that acts on
\* the pair while its last approved row goes is on record in ended.
LEMMA StepActs == TypeOK /\ RoomInv /\ ActsOnlyConnected /\ [Next]_vars => ActsOnlyConnected'
  <1> SUFFICES ASSUME TypeOK, RoomInv, ActsOnlyConnected, [Next]_vars,
                      NEW s \in Requests, (req[s].stage \in {"signUp", "withdraw"})'
               PROVE  Connected(req[s].parent, req[s].youth)' \/ s \in ended'
    BY DEF ActsOnlyConnected, Connected
  <1> DEFINE Goal == Connected(req[s].parent, req[s].youth)' \/ s \in ended'
  <1>0. ASSUME req[s].stage \in {"signUp", "withdraw"}
        PROVE  Connected(req[s].parent, req[s].youth) \/ s \in ended
    BY <1>0 DEF ActsOnlyConnected, Connected
  \* A step that leaves the request, the approved rows and the history of the request.
  <1>1. ASSUME req'[s] = req[s], s \in ended => s \in ended',
               \A l \in Links : link[l].status = "approved" => link'[l] = link[l]
        PROVE  Goal
    BY <1>0, <1>1 DEF Connected
  <1>2. ASSUME NEW r \in Requests, Begin(r) PROVE Goal
    <2>1. CASE s # r
      BY <1>1, <1>2, <2>1, BeginType
    <2>2. CASE s = r
      <3>1. ASSUME NEW parent \in Parents, NEW youth \in Youth, BeginAdd(r, parent, youth)
            PROVE  FALSE
        BY <2>2, <3>1 DEF BeginAdd, TypeOK, Idle
      <3>2. ASSUME NEW l \in Links, NEW decision \in Decisions, BeginDecide(r, l, decision)
            PROVE  FALSE
        BY <2>2, <3>2 DEF BeginDecide, TypeOK, Idle
      <3>3. ASSUME NEW parent \in Parents, NEW youth \in Youth, NEW stage \in {"signUp", "withdraw"},
                   BeginAct(r, parent, youth, stage)
            PROVE  Goal
        <4>1. req'[s].parent = parent /\ req'[s].youth = youth /\ link' = link
          BY <2>2, <3>3 DEF BeginAct, TypeOK, Idle
        <4>2. Connected(parent, youth)
          BY <3>3 DEF BeginAct, canManageProfile, RowsOf, Connected
        <4> QED BY <4>1, <4>2 DEF Connected
      <3> QED BY <1>2, <3>1, <3>2, <3>3 DEF Begin
    <2> QED BY <2>1, <2>2
  <1>3. ASSUME NEW r \in Requests, InsertLink(r) PROVE Goal
    <2>1. /\ NewLink \in Links /\ link[NewLink].status = "none"
          /\ \A l \in Links \ {NewLink} : link'[l] = link[l]
      BY <1>3, RoomToInsert, InsertRow DEF NoRow
    <2>2. s # r /\ req'[s] = req[s] /\ ended' = ended \ {r}
      BY <1>3, MoveType DEF InsertLink, Finish
    <2> QED BY <1>1, <2>1, <2>2
  <1>4. ASSUME NEW r \in Requests, Decide(r) PROVE Goal
    <2> DEFINE d == req[r].link
               others == RowsOf(link[d].parent, link[d].youth, "approved") \ {d}
    <2>0. /\ req[r].stage = "decide"
          /\ req' = [req EXCEPT ![r] = Idle]
          /\ ended' = IF req[r].decision # "approved" /\ others = {}
                      THEN (ended \ {r}) \union Acting(link[d].parent, link[d].youth)
                      ELSE ended \ {r}
      BY <1>4 DEF Decide
    <2>1. s # r /\ req'[s] = req[s] /\ (s \in ended => s \in ended')
      BY <2>0 DEF TypeOK, Idle
    <2>2. /\ link'[d].status = req[r].decision
          /\ link'[d].parent = link[d].parent
          /\ link'[d].youth = link[d].youth
          /\ d \in Links
          /\ \A l \in Links \ {d} : link'[l] = link[l]
      BY <1>4, DecideRow
    <2>3. CASE ~ (link[d].status = "approved" /\ req[r].decision # "approved")
      BY <1>0, <2>1, <2>2, <2>3 DEF Connected
    <2>4. CASE link[d].status = "approved" /\ req[r].decision # "approved"
      <3>1. CASE s \in ended
        BY <2>1, <3>1
      <3>2. ASSUME NEW l \in Links, l # d,
                   link[l].parent = req[s].parent, link[l].youth = req[s].youth,
                   link[l].status = "approved"
            PROVE  Goal
        BY <2>1, <2>2, <3>2 DEF Connected
      <3>3. CASE link[d].parent = req[s].parent /\ link[d].youth = req[s].youth
        <4>1. CASE others = {}
          <5>1. s \in Acting(link[d].parent, link[d].youth)
            BY <2>1, <3>3 DEF Acting
          <5> QED BY <2>0, <2>4, <4>1, <5>1
        <4>2. CASE others # {}
          <5>1. PICK l \in others : TRUE
            BY <4>2
          <5>2. /\ l \in Links /\ l # d
                /\ link[l].parent = req[s].parent /\ link[l].youth = req[s].youth
                /\ link[l].status = "approved"
            BY <3>3, <5>1 DEF RowsOf
          <5> QED BY <3>2, <5>2
        <4> QED BY <4>1, <4>2
      <3> QED BY <1>0, <2>1, <2>2, <3>1, <3>2, <3>3 DEF Connected
    <2> QED BY <2>3, <2>4
  <1>5. ASSUME NEW r \in Requests,
               \/ CheckPending(r) \/ CheckFails(r) \/ SignUp(r) \/ Withdraw(r) \/ StatementFails(r)
        PROVE  Goal
    <2>1. s # r /\ req'[s] = req[s]
      BY <1>5, MoveType
      DEF CheckPending, CheckFails, SignUp, Withdraw, StatementFails
    <2>2. link' = link /\ (s \in ended => s \in ended')
      BY <1>5, <2>1 DEF CheckPending, CheckFails, SignUp, Withdraw, StatementFails, Finish
    <2> QED BY <1>1, <2>1, <2>2
  <1>6. ASSUME (\E youth \in Youth : Register(youth)) \/ UNCHANGED vars PROVE Goal
    BY <1>6, <1>1 DEF Register, vars
  <1> QED BY <1>2, <1>3, <1>4, <1>5, <1>6 DEF Next, Serve

\* A parent whose request changes the attendance of a youth is connected to the youth, or
\* has been disconnected while that request was in flight.
THEOREM ActsConnected == Spec => []ActsOnlyConnected
  <1>1. Init => ActsOnlyConnected
    BY DEF Init, ActsOnlyConnected, Idle
  <1> QED BY <1>1, StepActs, TypeCorrect, RoomInvariant, PTL DEF Spec
-----------------------------------------------------------------------------
(***************************************************************************)
(* Pending requests of a pair.                                             *)
(***************************************************************************)

LEMMA StepPending == TypeOK /\ PendingBounded /\ [Next]_vars => PendingBounded'
  <1> SUFFICES ASSUME TypeOK, PendingBounded, [Next]_vars,
                      NEW parent \in Parents, NEW youth \in Youth
               PROVE  Cardinality(RowsOf(parent, youth, "pending")')
                        + Cardinality(Inserting(parent, youth)')
                          <= Cardinality(Requests) + faults'
    BY DEF PendingBounded
  <1> DEFINE P == RowsOf(parent, youth, "pending")
             I == Inserting(parent, youth)
             Goal == Cardinality(P') + Cardinality(I') <= Cardinality(Requests) + faults'
  <1>0. /\ IsFiniteSet(P) /\ IsFiniteSet(P') /\ IsFiniteSet(I) /\ IsFiniteSet(I')
        /\ Cardinality(P) \in Nat /\ Cardinality(P') \in Nat
        /\ Cardinality(I) \in Nat /\ Cardinality(I') \in Nat
        /\ Cardinality(I') <= Cardinality(Requests)
        /\ Cardinality(Requests) \in Nat
        /\ Cardinality(P) + Cardinality(I) <= Cardinality(Requests) + faults
    <2>1. P \in SUBSET Links /\ P' \in SUBSET Links /\ I \in SUBSET Requests /\ I' \in SUBSET Requests
      BY DEF RowsOf, Inserting
    <2>2. Cardinality(P) + Cardinality(I) <= Cardinality(Requests) + faults
      BY DEF PendingBounded
    <2> HIDE DEF P, I
    <2> QED BY <2>1, <2>2, Finite
  <1>00. faults \in Nat /\ faults' \in Nat /\ faults' >= faults
    <2>1. TypeOK'
      BY StepType
    <2>2. faults' = faults \/ faults' = faults + 1
      BY DEF Next, Begin, BeginAdd, BeginAct, BeginDecide, Serve, CheckPending, CheckFails,
             InsertLink, Decide, SignUp, Withdraw, StatementFails, Register, vars
    <2> QED BY <2>1, <2>2, ConnectionsAssumption DEF TypeOK
  <1>1. ASSUME P' \subseteq P, I' \subseteq I PROVE Goal
    <2> HIDE DEF P, I
    <2>1. Cardinality(P') <= Cardinality(P) /\ Cardinality(I') <= Cardinality(I)
      BY <1>0, <1>1, CountSame
    <2> QED BY <1>0, <1>00, <2>1
  <1>2. ASSUME NEW r \in Requests, Begin(r) PROVE Goal
    <2>1. \A s \in Requests \ {r} : req'[s] = req[s]
      BY <1>2, BeginType
    <2>2. req'[r].stage # "insert"
      <3>1. ASSUME NEW p \in Parents, NEW y \in Youth, BeginAdd(r, p, y)
            PROVE  req'[r].stage # "insert"
        BY <3>1 DEF BeginAdd, TypeOK, Idle
      <3>2. ASSUME NEW l \in Links, NEW decision \in Decisions, BeginDecide(r, l, decision)
            PROVE  req'[r].stage # "insert"
        BY <3>2 DEF BeginDecide, TypeOK, Idle
      <3>3. ASSUME NEW p \in Parents, NEW y \in Youth, NEW stage \in {"signUp", "withdraw"},
                   BeginAct(r, p, y, stage)
            PROVE  req'[r].stage # "insert"
        BY <3>3 DEF BeginAct, TypeOK, Idle
      <3> QED BY <1>2, <3>1, <3>2, <3>3 DEF Begin
    <2>3. link' = link
      BY <1>2, BeginType
    <2>4. P' \subseteq P /\ I' \subseteq I
      BY <2>1, <2>2, <2>3 DEF RowsOf, Inserting
    <2> QED BY <1>1, <2>4
  \* The check has found no pending row: whatever the others do, it adds itself.
  <1>3. ASSUME NEW r \in Requests, CheckPending(r) PROVE Goal
    <2>1. link' = link
      BY <1>3 DEF CheckPending
    <2>2. CASE Finish(r)
      <3>1. P' \subseteq P /\ I' \subseteq I
        BY <2>1, <2>2, MoveType DEF RowsOf, Inserting
      <3> QED BY <1>1, <3>1
    <2>3. CASE GoTo(r, "insert") /\ RowsOf(req[r].parent, req[r].youth, "pending") = {}
      <3>1. /\ req'[r] = [req[r] EXCEPT !.stage = "insert"]
            /\ req[r] \in RequestRecord
            /\ \A s \in Requests \ {r} : req'[s] = req[s]
        BY <2>3 DEF GoTo, TypeOK
      <3>2. req'[r].parent = req[r].parent /\ req'[r].youth = req[r].youth
        BY <3>1 DEF RequestRecord
      <3>3. CASE req[r].parent = parent /\ req[r].youth = youth
        <4>1. P' = {}
          BY <2>1, <2>3, <3>3 DEF RowsOf
        <4> HIDE DEF P, I
        <4>2. Cardinality(P') = 0
          BY <4>1, FS_EmptySet
        <4> QED BY <1>0, <1>00, <4>2
      <3>4. CASE ~ (req[r].parent = parent /\ req[r].youth = youth)
        <4>1. P' \subseteq P /\ I' \subseteq I
          BY <2>1, <3>1, <3>2, <3>4 DEF RowsOf, Inserting
        <4> QED BY <1>1, <4>1
      <3> QED BY <3>3, <3>4
    <2> QED BY <1>3, <2>2, <2>3 DEF CheckPending
  <1>4. ASSUME NEW r \in Requests, CheckFails(r) PROVE Goal
    <2>1. link' = link /\ faults' = faults + 1
      BY <1>4 DEF CheckFails
    <2>2. \A s \in Requests \ {r} : req'[s] = req[s]
      BY <1>4, ServeType DEF Serve
    <2>3. P' \subseteq P /\ I' \subseteq I \union {r}
      BY <2>1, <2>2 DEF RowsOf, Inserting
    <2> HIDE DEF P, I
    <2>4. Cardinality(P') <= Cardinality(P) /\ Cardinality(I') <= Cardinality(I) + 1
      BY <1>0, <2>3, CountSame, CountUp
    <2> QED BY <1>0, <1>00, <2>1, <2>4
  <1>5. ASSUME NEW r \in Requests, InsertLink(r) PROVE Goal
    <2>1. /\ req[r].stage = "insert"
          /\ req'[r].stage = "idle"
          /\ \A s \in Requests \ {r} : req'[s] = req[s]
          /\ faults' = faults
      BY <1>5, MoveType DEF InsertLink
    <2>2. link' = [link EXCEPT ![NewLink] = [parent |-> req[r].parent, youth |-> req[r].youth,
                                             status |-> "pending"]]
      BY <1>5 DEF InsertLink
    <2>3. CASE req[r].parent = parent /\ req[r].youth = youth
      <3>1. r \in I /\ I' \subseteq I \ {r}
        BY <2>1, <2>3 DEF Inserting
      <3>2. P' \subseteq P \union {NewLink}
        BY <1>5, InsertRow DEF RowsOf
      <3> HIDE DEF P, I
      <3>3. Cardinality(I') <= Cardinality(I) - 1
        BY <1>0, <3>1, CountDown
      <3>4. Cardinality(P') <= Cardinality(P) + 1
        BY <1>0, <3>2, CountUp
      <3> QED BY <1>0, <1>00, <2>1, <3>3, <3>4
    <2>4. CASE ~ (req[r].parent = parent /\ req[r].youth = youth)
      <3>1. P' \subseteq P
        BY <2>2, <2>4 DEF RowsOf, TypeOK
      <3>2. I' \subseteq I
        BY <2>1 DEF Inserting
      <3> QED BY <1>1, <3>1, <3>2
    <2> QED BY <2>3, <2>4
  <1>6. ASSUME NEW r \in Requests, Decide(r) PROVE Goal
    <2>1. /\ req'[r].stage # "insert"
          /\ \A s \in Requests \ {r} : req'[s] = req[s]
      BY <1>6 DEF Decide, TypeOK, Idle
    <2>2. /\ link'[req[r].link].status # "pending"
          /\ \A l \in Links \ {req[r].link} : link'[l] = link[l]
      BY <1>6, DecideRow, RequestFields DEF Decisions
    <2>3. P' \subseteq P /\ I' \subseteq I
      BY <2>1, <2>2 DEF RowsOf, Inserting
    <2> QED BY <1>1, <2>3
  <1>7. ASSUME NEW r \in Requests, SignUp(r) \/ Withdraw(r) \/ StatementFails(r) PROVE Goal
    <2>1. /\ req'[r].stage = "idle"
          /\ \A s \in Requests \ {r} : req'[s] = req[s]
          /\ link' = link
      BY <1>7, MoveType DEF SignUp, Withdraw, StatementFails
    <2>2. P' \subseteq P /\ I' \subseteq I
      BY <2>1 DEF RowsOf, Inserting
    <2> QED BY <1>1, <2>2
  <1>8. ASSUME (\E y \in Youth : Register(y)) \/ UNCHANGED vars PROVE Goal
    <2>1. P' \subseteq P /\ I' \subseteq I
      BY <1>8 DEF RowsOf, Inserting, Register, vars
    <2> QED BY <1>1, <2>1
  <1> QED BY <1>2, <1>3, <1>4, <1>5, <1>6, <1>7, <1>8 DEF Next, Serve

\* A pair never has more pending connections than requests that overlap and lists of
\* connections that could not be read, whatever else happens to its rows.
THEOREM PendingIsBounded == Spec => []PendingBounded
  <1>1. Init => PendingBounded
    <2> SUFFICES ASSUME Init, NEW parent \in Parents, NEW youth \in Youth
                 PROVE  Cardinality(RowsOf(parent, youth, "pending"))
                          + Cardinality(Inserting(parent, youth))
                            <= Cardinality(Requests) + faults
      BY DEF PendingBounded
    <2>1. RowsOf(parent, youth, "pending") = {} /\ Inserting(parent, youth) = {} /\ faults = 0
      BY DEF Init, RowsOf, Inserting, NoRow, Idle
    <2>2. Cardinality(Requests) \in Nat
      BY Finite
    <2> QED BY <2>1, <2>2, FS_EmptySet
  <1> QED BY <1>1, StepPending, TypeCorrect, PTL DEF Spec
=============================================================================
