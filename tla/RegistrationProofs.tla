-------------------------- MODULE RegistrationProofs --------------------------
(***************************************************************************)
(* Theorems about Registration, for any number of browsers, requests that  *)
(* overlap, codes and failures, and for any limits.                        *)
(***************************************************************************)
EXTENDS Registration, Counting

Stages == {"idle"} \union RegisterStages \union VerifyStages \union CompleteStages

USE DEF RegisterStages, VerifyStages, CompleteStages

LEMMA IdleType == Idle \in RequestRecord
  BY SetsAssumption DEF Idle, RequestRecord

\* Giving up, or moving on to a stage that needs no more than the request already has.
LEMMA MoveType ==
  ASSUME TypeOK, NEW r \in Requests, req[r].stage # "idle"
  PROVE  /\ Finish(r) => req' \in [Requests -> RequestRecord]
         /\ \A s \in Stages :
              /\ GoTo(r, s)
              /\ s \in VerifyStages => req[r].code \in CodeIds
              /\ s \in {"assign", "reconcile", "link"} => req[r].user \in Users
              => req' \in [Requests -> RequestRecord]
  <1>1. req \in [Requests -> RequestRecord] /\ req[r] \in RequestRecord
    BY DEF TypeOK
  <1>2. Finish(r) => req' \in [Requests -> RequestRecord]
    BY <1>1, IdleType DEF Finish
  <1>3. ASSUME NEW s \in Stages, GoTo(r, s),
               s \in VerifyStages => req[r].code \in CodeIds,
               s \in {"assign", "reconcile", "link"} => req[r].user \in Users
        PROVE  req' \in [Requests -> RequestRecord]
    <2>1. [req[r] EXCEPT !.stage = s] \in RequestRecord
      BY <1>1, <1>3 DEF RequestRecord, Stages
    <2> QED BY <1>1, <1>3, <2>1 DEF GoTo
  <1> QED BY <1>2, <1>3

\* What a request is about to do is on record.
LEMMA RequestFields ==
  ASSUME TypeOK, NEW r \in Requests
  PROVE  /\ req[r].stage # "idle" => req[r].browser \in Browsers
         /\ req[r].stage \in VerifyStages => req[r].code \in CodeIds
         /\ req[r].stage \in {"assign", "reconcile", "link"} => req[r].user \in Users
         /\ req[r].stage \in Stages
  BY DEF TypeOK, RequestRecord, Stages

LEMMA BeginType ==
  ASSUME TypeOK, NEW r \in Requests, Begin(r)
  PROVE  TypeOK'
  <1>0. req \in [Requests -> RequestRecord] /\ Idle \in RequestRecord
    BY IdleType DEF TypeOK
  <1>1. ASSUME NEW b \in Browsers, BeginRegister(r, b) PROVE TypeOK'
    <2>1. [Idle EXCEPT !.stage = "count", !.browser = b] \in RequestRecord
      BY <1>0 DEF Idle, RequestRecord
    <2> QED BY <1>0, <1>1, <2>1 DEF BeginRegister, TypeOK, rows
  <1>2. ASSUME NEW b \in Browsers, NEW i \in CodeIds, BeginVerify(r, b, i) PROVE TypeOK'
    <2>1. ASSUME NEW stage \in {"increment", "mark"}
          PROVE  [Idle EXCEPT !.stage = stage, !.browser = b, !.code = i] \in RequestRecord
      BY <1>0 DEF Idle, RequestRecord
    <2>2. req' \in [Requests -> RequestRecord]
      BY <1>0, <1>2, <2>1 DEF BeginVerify
    <2> QED BY <1>2, <2>2 DEF BeginVerify, TypeOK, rows
  <1>3. ASSUME NEW b \in Browsers, BeginComplete(r, b) PROVE TypeOK'
    <2>1. [Idle EXCEPT !.stage = "createUser", !.browser = b] \in RequestRecord
      BY <1>0 DEF Idle, RequestRecord
    <2> QED BY <1>0, <1>3, <2>1 DEF BeginComplete, TypeOK, rows
  <1> QED BY <1>1, <1>2, <1>3 DEF Begin

LEMMA ServeType ==
  ASSUME TypeOK, NEW r \in Requests, Serve(r)
  PROVE  TypeOK'
  <1>0. /\ req[r].stage # "idle" => req[r].browser \in Browsers
        /\ req[r].stage \in VerifyStages => req[r].code \in CodeIds
        /\ req[r].stage \in {"assign", "reconcile", "link"} => req[r].user \in Users
        /\ req[r] \in RequestRecord
    BY RequestFields DEF TypeOK
  <1>1. CASE CountCodes(r)
    BY <1>1, MoveType DEF CountCodes, TypeOK, rows, Stages
  <1>2. CASE InvalidateByEmail(r)
    <2>1. code' \in [CodeIds -> CodeRow]
      BY <1>2 DEF InvalidateByEmail, TypeOK, CodeRow
    <2> QED BY <1>2, <2>1, MoveType DEF InvalidateByEmail, TypeOK, Stages
  <1>3. CASE CreateCode(r)
    <2>1. code' \in [CodeIds -> CodeRow]
      BY <1>3 DEF CreateCode, TypeOK, CodeRow, Ages
    <2> QED BY <1>3, <2>1, MoveType DEF CreateCode, TypeOK
  <1>4. CASE IncrementAttempts(r)
    <2>1. code' \in [CodeIds -> CodeRow]
      <3>1. /\ req[r].code \in CodeIds
            /\ code[req[r].code] \in CodeRow
        BY <1>0, <1>4 DEF IncrementAttempts, TypeOK
      <3>2. [code[req[r].code] EXCEPT !.attempts = @ + 1] \in CodeRow
        BY <3>1 DEF CodeRow
      <3> QED BY <1>4, <3>1, <3>2 DEF IncrementAttempts, TypeOK
    <2> QED BY <1>4, <2>1, MoveType DEF IncrementAttempts, TypeOK
  <1>5. CASE MarkUsedIfUnused(r)
    <2>1. code' \in [CodeIds -> CodeRow]
      <3>1. /\ req[r].code \in CodeIds
            /\ code[req[r].code] \in CodeRow
        BY <1>0, <1>5 DEF MarkUsedIfUnused, TypeOK
      <3>2. [code[req[r].code] EXCEPT !.used = TRUE] \in CodeRow
        BY <3>1 DEF CodeRow
      <3> QED BY <1>5, <3>1, <3>2 DEF MarkUsedIfUnused, TypeOK
    <2> QED BY <1>0, <1>5, <2>1, MoveType DEF MarkUsedIfUnused, TypeOK, Stages
  <1>6. CASE AnswerVerified(r)
    BY <1>0, <1>6, MoveType DEF AnswerVerified, TypeOK, SessionValue, rows
  <1>7. CASE CreateUser(r)
    <2>1. PICK u \in Users : /\ user' = [user EXCEPT ![u] = "bare"]
                             /\ req' = [req EXCEPT ![r].stage = "assign", ![r].user = u]
      BY <1>7 DEF CreateUser
    <2>2. [req[r] EXCEPT !.stage = "assign", !.user = u] \in RequestRecord
      BY <1>0, <1>7 DEF RequestRecord, CreateUser
    <2>3. req' \in [Requests -> RequestRecord]
      BY <2>1, <2>2 DEF TypeOK
    <2> QED BY <1>7, <2>1, <2>3 DEF CreateUser, TypeOK
  <1>8. CASE AssignRole(r)
    BY <1>0, <1>8, MoveType DEF AssignRole, TypeOK, Stages
  <1>9. CASE ReconcilePositions(r)
    BY <1>0, <1>9, MoveType DEF ReconcilePositions, TypeOK, Stages
  <1>10. CASE LinkUser(r)
    BY <1>0, <1>10, MoveType DEF LinkUser, TypeOK, Stages
  <1>11. CASE AnswerLinked(r)
    BY <1>0, <1>11, MoveType DEF AnswerLinked, TypeOK, SessionValue, NoSession, rows
  <1> QED BY <1>1, <1>2, <1>3, <1>4, <1>5, <1>6, <1>7, <1>8, <1>9, <1>10, <1>11 DEF Serve

LEMMA StepType == TypeOK /\ [Next]_vars => TypeOK'
  <1> SUFFICES ASSUME TypeOK, [Next]_vars PROVE TypeOK'
    OBVIOUS
  <1>1. ASSUME NEW r \in Requests, StatementFails(r) PROVE TypeOK'
    <2>1. faults' \in 0..MaxFaults
      BY <1>1, NumbersAssumption DEF TypeOK, StatementFails
    <2> QED BY <1>1, <2>1, MoveType DEF TypeOK, StatementFails, rows, Stages
  <1>2. ASSUME NEW b \in Browsers, SessionAges(b) \/ DropStaleSession(b) PROVE TypeOK'
    BY <1>2 DEF SessionAges, DropStaleSession, TypeOK, SessionValue, NoSession, rows
  <1>3. ASSUME NEW i \in CodeIds, CodeAges(i) PROVE TypeOK'
    <2>1. code' \in [CodeIds -> CodeRow]
      BY <1>3 DEF CodeAges, TypeOK, CodeRow, Ages
    <2> QED BY <1>3, <2>1 DEF CodeAges, TypeOK
  <1>4. CASE DeleteExpired
    <2>1. code' \in [CodeIds -> CodeRow]
      BY <1>4 DEF DeleteExpired, TypeOK, CodeRow, Ages, Unborn
    <2> QED BY <1>4, <2>1 DEF DeleteExpired, TypeOK
  <1>5. CASE UNCHANGED vars
    BY <1>5 DEF TypeOK, vars, rows
  <1> QED BY <1>1, <1>2, <1>3, <1>4, <1>5, BeginType, ServeType DEF Next

\* The rows, the sessions and the memory of every handler keep their types; a handler
\* that is about to use a code, or a user, has one.
THEOREM TypeCorrect == Spec => []TypeOK
  <1>1. Init => TypeOK
    BY IdleType, NumbersAssumption
    DEF Init, TypeOK, CodeRow, Ages, Unborn, SessionValue, NoSession
  <1> QED BY <1>1, StepType, PTL DEF Spec

-----------------------------------------------------------------------------
(***************************************************************************)
(* Users.  A handler of Complete owns the user it has created until it     *)
(* links the profile to it; no other handler, and not the profile, knows   *)
(* that user before.                                                       *)
(***************************************************************************)

Complete == IF HasPositions THEN "posted" ELSE "member"

Owns(r) == req[r].stage \in {"assign", "reconcile", "link"}

UserInv ==
    /\ \A r \in Requests :
         /\ Owns(r) => linked # req[r].user
         /\ req[r].stage = "assign" => user[req[r].user] = "bare"
         /\ req[r].stage = "reconcile" => HasPositions /\ user[req[r].user] = "member"
         /\ req[r].stage = "link" => user[req[r].user] = Complete
         /\ req[r].stage = "linked" => linked # NoUser
    /\ \A r, s \in Requests : Owns(r) /\ Owns(s) /\ req[r].user = req[s].user => r = s
    /\ linked # NoUser => user[linked] = Complete

\* A step of one request that leaves it neither owning a user nor having linked one.
Quiet(r) == /\ \A s \in Requests \ {r} : req'[s] = req[s]
            /\ req'[r].stage \notin {"assign", "reconcile", "link", "linked"}

LEMMA QuietMove ==
  ASSUME TypeOK, NEW r \in Requests
  PROVE  /\ Finish(r) => Quiet(r)
         /\ \A s \in Stages \ {"assign", "reconcile", "link", "linked"} : GoTo(r, s) => Quiet(r)
  BY DEF TypeOK, RequestRecord, Finish, GoTo, Idle, Quiet

LEMMA QuietStep ==
  ASSUME UserInv, NEW r \in Requests, Quiet(r), UNCHANGED <<linked, user>>
  PROVE  UserInv'
  BY DEF UserInv, Owns, Quiet, Complete

LEMMA StepUser == TypeOK /\ UserInv /\ [Next]_vars => UserInv'
  <1> SUFFICES ASSUME TypeOK, UserInv, [Next]_vars PROVE UserInv'
    OBVIOUS
  <1>1. ASSUME NEW r \in Requests, Begin(r) PROVE UserInv'
    <2>1. ASSUME NEW b \in Browsers, BeginRegister(r, b) PROVE Quiet(r)
      BY <2>1 DEF BeginRegister, TypeOK, Idle, Quiet
    <2>2. ASSUME NEW b \in Browsers, NEW i \in CodeIds, BeginVerify(r, b, i) PROVE Quiet(r)
      BY <2>2 DEF BeginVerify, TypeOK, Idle, Quiet
    <2>3. ASSUME NEW b \in Browsers, BeginComplete(r, b) PROVE Quiet(r)
      BY <2>3 DEF BeginComplete, TypeOK, Idle, Quiet
    <2>4. UNCHANGED <<linked, user>>
      BY <1>1 DEF Begin, BeginRegister, BeginVerify, BeginComplete, rows
    <2> QED BY <1>1, <2>1, <2>2, <2>3, <2>4, QuietStep DEF Begin
  <1>2. ASSUME NEW r \in Requests,
               \/ CountCodes(r) \/ InvalidateByEmail(r) \/ CreateCode(r)
               \/ IncrementAttempts(r) \/ MarkUsedIfUnused(r) \/ AnswerVerified(r)
               \/ AnswerLinked(r) \/ StatementFails(r)
        PROVE  UserInv'
    <2>1. Quiet(r)
      BY <1>2, QuietMove
      DEF CountCodes, InvalidateByEmail, CreateCode, IncrementAttempts, MarkUsedIfUnused,
          AnswerVerified, AnswerLinked, StatementFails, Stages
    <2>2. UNCHANGED <<linked, user>>
      BY <1>2
      DEF CountCodes, InvalidateByEmail, CreateCode, IncrementAttempts, MarkUsedIfUnused,
          AnswerVerified, AnswerLinked, StatementFails, rows
    <2> QED BY <2>1, <2>2, QuietStep
  <1>3. ASSUME NEW r \in Requests, CreateUser(r) PROVE UserInv'
    <2>1. PICK u \in Users : /\ user[u] = "none"
                             /\ user' = [user EXCEPT ![u] = "bare"]
                             /\ req' = [req EXCEPT ![r].stage = "assign", ![r].user = u]
      BY <1>3 DEF CreateUser
    <2>2. /\ \A s \in Requests \ {r} : req'[s] = req[s]
          /\ req'[r].stage = "assign"
          /\ req'[r].user = u
      BY <2>1 DEF TypeOK, RequestRecord
    <2>3. /\ user'[u] = "bare"
          /\ \A v \in Users \ {u} : user'[v] = user[v]
          /\ UNCHANGED linked
      BY <1>3, <2>1 DEF TypeOK, CreateUser
    <2>4. linked # u
      BY <2>1, SetsAssumption DEF UserInv, Complete
    <2>5. \A s \in Requests : Owns(s) => req[s].user \in Users /\ req[s].user # u
      BY <2>1, RequestFields DEF UserInv, Owns, Complete
    <2>6. linked # NoUser => linked \in Users
      BY DEF TypeOK
    <2> QED BY <2>2, <2>3, <2>4, <2>5, <2>6, SetsAssumption DEF UserInv, Owns, Complete
  <1>4. ASSUME NEW r \in Requests, AssignRole(r) \/ ReconcilePositions(r) PROVE UserInv'
    <2> DEFINE u == req[r].user
    <2>1. /\ u \in Users
          /\ Owns(r)
      BY <1>4, RequestFields DEF AssignRole, ReconcilePositions, Owns
    <2>2. /\ \A s \in Requests \ {r} : req'[s] = req[s]
          /\ req'[r].user = u
          /\ \A v \in Users \ {u} : user'[v] = user[v]
          /\ UNCHANGED linked
      BY <1>4 DEF AssignRole, ReconcilePositions, GoTo, TypeOK, RequestRecord
    <2>3. \/ req'[r].stage = "reconcile" /\ HasPositions /\ user'[u] = "member"
          \/ req'[r].stage = "link" /\ user'[u] = Complete
      BY <1>4, <2>1 DEF AssignRole, ReconcilePositions, GoTo, TypeOK, RequestRecord, Complete,
                       UserInv
    <2>4. \A s \in Requests \ {r} : Owns(s) => req[s].user \in Users /\ req[s].user # u
      BY <2>1, RequestFields DEF UserInv, Owns
    <2>5. linked # u /\ (linked # NoUser => linked \in Users)
      BY <2>1 DEF UserInv, TypeOK
    <2> HIDE DEF u
    <2> QED BY <2>1, <2>2, <2>3, <2>4, <2>5 DEF UserInv, Owns
  <1>5. ASSUME NEW r \in Requests, LinkUser(r) PROVE UserInv'
    <2>1. /\ req[r].user \in Users
          /\ Owns(r)
          /\ user[req[r].user] = Complete
      BY <1>5, RequestFields DEF LinkUser, Owns, UserInv
    <2>2. /\ \A s \in Requests \ {r} : req'[s] = req[s]
          /\ req'[r].stage = "linked"
          /\ linked' = req[r].user
          /\ UNCHANGED user
      BY <1>5 DEF LinkUser, GoTo, TypeOK, RequestRecord
    <2>3. \A s \in Requests \ {r} : Owns(s) => req[s].user # req[r].user
      BY <2>1 DEF UserInv
    <2> QED BY <2>1, <2>2, <2>3, SetsAssumption DEF UserInv, Owns, Complete
  <1>6. ASSUME \/ \E b \in Browsers : SessionAges(b) \/ DropStaleSession(b)
               \/ \E i \in CodeIds : CodeAges(i)
               \/ DeleteExpired
               \/ UNCHANGED vars
        PROVE  UserInv'
    <2>1. UNCHANGED <<linked, user, req>>
      BY <1>6 DEF SessionAges, DropStaleSession, CodeAges, DeleteExpired, vars, rows
    <2> QED BY <2>1 DEF UserInv, Owns, Complete
  <1> QED BY <1>1, <1>2, <1>3, <1>4, <1>5, <1>6 DEF Next, Serve

LEMMA UserInvariant == Spec => []UserInv
  <1>1. Init => UserInv
    BY DEF Init, UserInv, Owns, Idle
  <1> QED BY <1>1, StepUser, TypeCorrect, PTL DEF Spec

\* The user of the profile has its roles, wherever Complete fails or overlaps another.
THEOREM LinkedHasRoles == Spec => []LinkedUserHasRoles
  <1>1. UserInv => LinkedUserHasRoles
    BY DEF UserInv, LinkedUserHasRoles, Complete
  <1> QED BY <1>1, UserInvariant, PTL

\* Only the answer of a Complete that has linked the profile, or the expiry, takes a
\* verified session away.
THEOREM VerificationsKept == Spec => VerificationKept
  <1> DEFINE Kept == \A b \in Browsers :
          session[b].age = "fresh" /\ session'[b].age = "none" => linked # NoUser
  <1>1. TypeOK /\ UserInv /\ [Next]_vars => [Kept]_vars
    <2> SUFFICES ASSUME TypeOK, UserInv, Next, NEW b \in Browsers,
                        session[b].age = "fresh", session'[b].age = "none"
                 PROVE  linked # NoUser
      BY DEF Kept
    <2>1. ASSUME NEW r \in Requests, Begin(r) PROVE FALSE
      BY <2>1 DEF Begin, BeginRegister, BeginVerify, BeginComplete
    <2>2. ASSUME NEW r \in Requests, AnswerVerified(r) PROVE FALSE
      BY <2>2, RequestFields DEF AnswerVerified, TypeOK
    <2>3. ASSUME NEW r \in Requests, AnswerLinked(r) PROVE linked # NoUser
      BY <2>3 DEF AnswerLinked, UserInv
    <2>4. ASSUME NEW r \in Requests, Serve(r), ~ AnswerVerified(r), ~ AnswerLinked(r) PROVE FALSE
      BY <2>4 DEF Serve, CountCodes, InvalidateByEmail, CreateCode, IncrementAttempts,
                  MarkUsedIfUnused, CreateUser, AssignRole, ReconcilePositions, LinkUser
    <2>5. ASSUME NEW r \in Requests, StatementFails(r) PROVE FALSE
      BY <2>5 DEF StatementFails
    <2>6. ASSUME NEW c \in Browsers, SessionAges(c) \/ DropStaleSession(c) PROVE FALSE
      BY <2>6 DEF SessionAges, DropStaleSession, TypeOK, SessionValue
    <2>7. ASSUME (\E i \in CodeIds : CodeAges(i)) \/ DeleteExpired PROVE FALSE
      BY <2>7 DEF CodeAges, DeleteExpired
    <2> QED BY <2>1, <2>2, <2>3, <2>4, <2>5, <2>6, <2>7 DEF Next
  <1> QED BY <1>1, TypeCorrect, UserInvariant, PTL DEF Spec, VerificationKept

-----------------------------------------------------------------------------
(***************************************************************************)
(* Sessions.  A code that has verified a request or a browser is used or   *)
(* deleted, and stays so: no later UPDATE finds it unused.                 *)
(***************************************************************************)

Spent(i) == code[i].used \/ code[i].age = "gone"

SessionInv ==
    /\ CodeVerifiesOneSession
    /\ \A i \in CodeIds : VerifiedRequests(i) \union VerifiedBrowsers(i) # {} => Spent(i)

\* A code stays spent.
LEMMA SpentStays ==
  ASSUME TypeOK, [Next]_vars, NEW i \in CodeIds, Spent(i)
  PROVE  Spent(i)'
  <1> USE DEF Spent
  <1>1. ASSUME NEW r \in Requests, Begin(r) PROVE Spent(i)'
    BY <1>1 DEF Begin, BeginRegister, BeginVerify, BeginComplete, rows
  <1>2. ASSUME NEW r \in Requests, InvalidateByEmail(r) PROVE Spent(i)'
    BY <1>2 DEF InvalidateByEmail, Usable, TypeOK, CodeRow
  <1>3. ASSUME NEW r \in Requests, CreateCode(r) PROVE Spent(i)'
    BY <1>3 DEF CreateCode, TypeOK, CodeRow
  <1>4. ASSUME NEW r \in Requests, IncrementAttempts(r) PROVE Spent(i)'
    BY <1>4 DEF IncrementAttempts, TypeOK, CodeRow
  <1>5. ASSUME NEW r \in Requests, MarkUsedIfUnused(r) PROVE Spent(i)'
    BY <1>5 DEF MarkUsedIfUnused, TypeOK, CodeRow
  <1>6. ASSUME NEW r \in Requests,
               \/ CountCodes(r) \/ AnswerVerified(r) \/ CreateUser(r) \/ AssignRole(r)
               \/ ReconcilePositions(r) \/ LinkUser(r) \/ AnswerLinked(r) \/ StatementFails(r)
        PROVE  Spent(i)'
    BY <1>6 DEF CountCodes, AnswerVerified, CreateUser, AssignRole, ReconcilePositions,
                LinkUser, AnswerLinked, StatementFails, rows
  <1>7. ASSUME NEW j \in CodeIds, CodeAges(j) PROVE Spent(i)'
    BY <1>7 DEF CodeAges, TypeOK, CodeRow
  <1>8. CASE DeleteExpired
    BY <1>8 DEF DeleteExpired, TypeOK, CodeRow, Unborn
  <1>9. CASE (\E b \in Browsers : SessionAges(b) \/ DropStaleSession(b)) \/ UNCHANGED vars
    BY <1>9 DEF SessionAges, DropStaleSession, vars, rows
  <1> QED BY <1>1, <1>2, <1>3, <1>4, <1>5, <1>6, <1>7, <1>8, <1>9 DEF Next, Serve

\* A step that gives no request and no browser the verification of a code.
LEMMA SameSession ==
  ASSUME TypeOK, SessionInv, [Next]_vars,
         \A r \in Requests : req'[r].stage = "verified" => req'[r] = req[r],
         \A b \in Browsers : session'[b].code # 0 => session'[b].code = session[b].code
  PROVE  SessionInv'
  <1>1. \A i \in CodeIds : /\ VerifiedRequests(i)' \subseteq VerifiedRequests(i)
                           /\ VerifiedBrowsers(i)' \subseteq VerifiedBrowsers(i)
    BY NumbersAssumption DEF VerifiedRequests, VerifiedBrowsers, CodeIds
  <1>2. CodeVerifiesOneSession'
    BY <1>1 DEF SessionInv, CodeVerifiesOneSession
  <1>3. \A i \in CodeIds : Spent(i) => Spent(i)'
    BY SpentStays
  <1> HIDE DEF Spent
  <1> QED BY <1>1, <1>2, <1>3 DEF SessionInv

LEMMA StepSession == TypeOK /\ SessionInv /\ [Next]_vars => SessionInv'
  <1> SUFFICES ASSUME TypeOK, SessionInv, [Next]_vars PROVE SessionInv'
    OBVIOUS
  <1> DEFINE SameRequests == \A r \in Requests : req'[r].stage = "verified" => req'[r] = req[r]
             SameBrowsers == \A b \in Browsers :
                               session'[b].code # 0 => session'[b].code = session[b].code
  <1>0. SameRequests /\ SameBrowsers => SessionInv'
    BY SameSession
  <1>1. ASSUME NEW r \in Requests, Begin(r) PROVE SameRequests /\ SameBrowsers
    <2>1. UNCHANGED session
      BY <1>1 DEF Begin, BeginRegister, BeginVerify, BeginComplete
    <2>2. ASSUME NEW b \in Browsers, BeginRegister(r, b) PROVE SameRequests
      BY <2>2 DEF BeginRegister, TypeOK, Idle
    <2>3. ASSUME NEW b \in Browsers, NEW i \in CodeIds, BeginVerify(r, b, i) PROVE SameRequests
      BY <2>3 DEF BeginVerify, TypeOK, Idle
    <2>4. ASSUME NEW b \in Browsers, BeginComplete(r, b) PROVE SameRequests
      BY <2>4 DEF BeginComplete, TypeOK, Idle
    <2> QED BY <1>1, <2>1, <2>2, <2>3, <2>4 DEF Begin
  <1>2. ASSUME NEW r \in Requests, MarkUsedIfUnused(r) PROVE SessionInv'
    <2>0. PICK i \in CodeIds : i = req[r].code
      BY <1>2, RequestFields DEF MarkUsedIfUnused
    <2>1. i = req[r].code /\ UNCHANGED session
      BY <1>2, <2>0 DEF MarkUsedIfUnused
    <2>2. CASE Finish(r)
      <3>1. SameRequests
        BY <2>2 DEF Finish, TypeOK, Idle
      <3> QED BY <1>0, <2>1, <3>1
    <2>3. CASE Born(i) /\ ~code[i].used
      <3>1. ~Spent(i)
        BY <2>1, <2>3 DEF Born, Spent
      <3>2. VerifiedRequests(i) = {} /\ VerifiedBrowsers(i) = {}
        BY <2>1, <3>1 DEF SessionInv
      <3>3. /\ code' = [code EXCEPT ![i].used = TRUE]
            /\ req' = [req EXCEPT ![r].stage = "verified"]
        BY <1>2, <2>1, <2>3 DEF MarkUsedIfUnused, GoTo
      <3>4. /\ \A s \in Requests \ {r} : req'[s] = req[s]
            /\ req'[r].code = i
            /\ req'[r].stage = "verified"
        BY <2>1, <3>3 DEF TypeOK, RequestRecord
      <3>5. Spent(i)'
        BY <2>1, <3>3 DEF Spent, TypeOK, CodeRow
      <3>6. VerifiedRequests(i)' \subseteq {r} /\ VerifiedBrowsers(i)' = {}
        BY <2>1, <3>2, <3>4 DEF VerifiedRequests, VerifiedBrowsers
      <3>7. \A j \in CodeIds \ {i} : /\ VerifiedRequests(j)' = VerifiedRequests(j)
                                     /\ VerifiedBrowsers(j)' = VerifiedBrowsers(j)
        <4> SUFFICES ASSUME NEW j \in CodeIds \ {i}
                     PROVE  /\ VerifiedRequests(j)' = VerifiedRequests(j)
                            /\ VerifiedBrowsers(j)' = VerifiedBrowsers(j)
          OBVIOUS
        <4>1. \A s \in Requests : (req'[s].stage = "verified" /\ req'[s].code = j)
                                    <=> (req[s].stage = "verified" /\ req[s].code = j)
          BY <2>1, <3>4
        <4> QED BY <2>1, <4>1 DEF VerifiedRequests, VerifiedBrowsers
      <3>8. \A j \in CodeIds : Spent(j) => Spent(j)'
        BY SpentStays
      <3> QED BY <3>5, <3>6, <3>7, <3>8 DEF SessionInv, CodeVerifiesOneSession
    <2> QED BY <1>2, <2>1, <2>2, <2>3 DEF MarkUsedIfUnused
  <1>3. ASSUME NEW r \in Requests, AnswerVerified(r) PROVE SessionInv'
    <2>0. PICK i \in CodeIds, b \in Browsers : i = req[r].code /\ b = req[r].browser
      BY <1>3, RequestFields DEF AnswerVerified
    <2>1. i = req[r].code /\ b = req[r].browser /\ r \in VerifiedRequests(i)
      BY <1>3, <2>0 DEF AnswerVerified, VerifiedRequests
    <2>2. VerifiedBrowsers(i) = {} /\ \A s \in VerifiedRequests(i) : s = r
      BY <2>1 DEF SessionInv, CodeVerifiesOneSession
    <2>3. /\ \A s \in Requests \ {r} : req'[s] = req[s]
          /\ req'[r].stage = "idle"
          /\ \A c \in Browsers \ {b} : session'[c] = session[c]
          /\ session'[b].code = i
      BY <1>3, <2>1 DEF AnswerVerified, Finish, Idle, TypeOK
    <2>4. VerifiedRequests(i)' = {} /\ VerifiedBrowsers(i)' = {b}
      BY <2>1, <2>2, <2>3 DEF VerifiedRequests, VerifiedBrowsers
    <2>5. \A j \in CodeIds \ {i} : /\ VerifiedRequests(j)' \subseteq VerifiedRequests(j)
                                   /\ VerifiedBrowsers(j)' \subseteq VerifiedBrowsers(j)
      BY <2>3 DEF VerifiedRequests, VerifiedBrowsers
    <2>6. Spent(i)
      BY <2>1 DEF SessionInv
    <2>7. \A j \in CodeIds : Spent(j) => Spent(j)'
      BY SpentStays
    <2> QED BY <2>1, <2>4, <2>5, <2>6, <2>7 DEF SessionInv, CodeVerifiesOneSession
  <1>4. ASSUME NEW r \in Requests, CreateUser(r) PROVE SameRequests /\ SameBrowsers
    BY <1>4 DEF CreateUser, TypeOK, RequestRecord
  <1>5. ASSUME NEW r \in Requests, AnswerLinked(r) PROVE SameRequests /\ SameBrowsers
    BY <1>5 DEF AnswerLinked, Finish, Idle, NoSession, TypeOK
  <1>6. ASSUME NEW r \in Requests,
               \/ CountCodes(r) \/ InvalidateByEmail(r) \/ CreateCode(r) \/ IncrementAttempts(r)
               \/ AssignRole(r) \/ ReconcilePositions(r) \/ LinkUser(r) \/ StatementFails(r)
        PROVE  SameRequests /\ SameBrowsers
    <2>1. Finish(r) \/ \E s \in Stages \ {"verified"} : GoTo(r, s)
      BY <1>6 DEF CountCodes, InvalidateByEmail, CreateCode, IncrementAttempts, AssignRole,
                  ReconcilePositions, LinkUser, StatementFails, Stages
    <2>2. UNCHANGED session
      BY <1>6 DEF CountCodes, InvalidateByEmail, CreateCode, IncrementAttempts, AssignRole,
                  ReconcilePositions, LinkUser, StatementFails
    <2> QED BY <2>1, <2>2 DEF Finish, GoTo, Idle, TypeOK, RequestRecord
  <1>7. ASSUME NEW b \in Browsers, SessionAges(b) \/ DropStaleSession(b)
        PROVE  SameRequests /\ SameBrowsers
    BY <1>7 DEF SessionAges, DropStaleSession, NoSession, TypeOK, SessionValue
  <1>8. ASSUME (\E i \in CodeIds : CodeAges(i)) \/ DeleteExpired \/ UNCHANGED vars
        PROVE  SameRequests /\ SameBrowsers
    BY <1>8 DEF CodeAges, DeleteExpired, vars
  <1> HIDE DEF SameRequests, SameBrowsers
  <1> QED BY <1>0, <1>1, <1>2, <1>3, <1>4, <1>5, <1>6, <1>7, <1>8 DEF Next, Serve

\* A code verifies one session, however many entries of it overlap.
THEOREM OneSessionPerCode == Spec => []CodeVerifiesOneSession
  <1>1. Init => SessionInv
    BY NumbersAssumption
    DEF Init, SessionInv, CodeVerifiesOneSession, VerifiedRequests, VerifiedBrowsers, Idle,
        NoSession, CodeIds
  <1>2. SessionInv => CodeVerifiesOneSession
    BY DEF SessionInv
  <1> QED BY <1>1, <1>2, StepSession, TypeCorrect, PTL DEF Spec

-----------------------------------------------------------------------------
(***************************************************************************)
(* Limits.  Each of the three counts what there is and what a request in   *)
(* flight is about to add.  A step that adds to the first takes from the   *)
(* second; a check lets the second grow only when the first is below the   *)
(* limit, and there are no more requests than Requests.                    *)
(***************************************************************************)

At(stages) == {r \in Requests : req[r].stage \in stages}
Guessing(i) == {r \in Requests : req[r].stage = "increment" /\ req[r].code = i}
UsableCodes == {i \in CodeIds : Usable(i)}

LEMMA CodeIdsFinite == IsFiniteSet(CodeIds) /\ MaxCodes \in Nat
  BY FS_Interval, NumbersAssumption DEF CodeIds

\* A request that is at none of some stages after its step, or was at one before.
LEMMA AtSame ==
  ASSUME TypeOK, NEW r \in Requests, NEW stages,
         \A s \in Requests \ {r} : req'[s] = req[s],
         req'[r].stage \in stages => req[r].stage \in stages
  PROVE  At(stages)' \subseteq At(stages)
  BY DEF At

\* Every step moves at most one request.
LEMMA OneMoves ==
  ASSUME TypeOK, NEW r \in Requests, Begin(r) \/ Serve(r) \/ StatementFails(r)
  PROVE  \A s \in Requests \ {r} : req'[s] = req[s]
  BY DEF TypeOK, Begin, BeginRegister, BeginVerify, BeginComplete, StatementFails, Serve, CountCodes,
         InvalidateByEmail, CreateCode, IncrementAttempts, MarkUsedIfUnused, AnswerVerified,
         CreateUser, AssignRole, ReconcilePositions, LinkUser, AnswerLinked, GoTo, Finish

\* What a step does to the rows of the codes.
LEMMA CodeSteps ==
  ASSUME TypeOK, [Next]_vars
  PROVE  \/ UNCHANGED code
         \/ \E r \in Requests : \/ InvalidateByEmail(r) \/ CreateCode(r)
                              \/ IncrementAttempts(r) \/ MarkUsedIfUnused(r)
         \/ \E i \in CodeIds : CodeAges(i)
         \/ DeleteExpired
  BY DEF Next, Begin, BeginRegister, BeginVerify, BeginComplete, StatementFails, Serve, CountCodes,
         AnswerVerified, CreateUser, AssignRole, ReconcilePositions, LinkUser, AnswerLinked,
         SessionAges, DropStaleSession, vars, rows

\* The stages that are counted, and the steps that lead to them.
LEMMA CountedStages ==
  ASSUME TypeOK, NEW r \in Requests, Begin(r) \/ Serve(r) \/ StatementFails(r)
  PROVE  /\ req'[r].stage = "create" =>
              InvalidateByEmail(r) \/ (StatementFails(r) /\ req[r].stage = "invalidate")
         /\ req'[r].stage = "invalidate" => CountCodes(r) /\ Cardinality(SentThisHour) < RateLimit
         /\ req'[r].stage = "increment" =>
              \E b \in Browsers, i \in CodeIds : BeginVerify(r, b, i) /\ req'[r].code = i
  <1> DEFINE Goal ==
         /\ req'[r].stage = "create" =>
              InvalidateByEmail(r) \/ (StatementFails(r) /\ req[r].stage = "invalidate")
         /\ req'[r].stage = "invalidate" => CountCodes(r) /\ Cardinality(SentThisHour) < RateLimit
         /\ req'[r].stage = "increment" =>
              \E b \in Browsers, i \in CodeIds : BeginVerify(r, b, i) /\ req'[r].code = i
  <1>0. req \in [Requests -> RequestRecord] /\ req[r] \in RequestRecord
    BY DEF TypeOK
  <1>1. ASSUME NEW b \in Browsers, BeginRegister(r, b) PROVE Goal
    BY <1>0, <1>1 DEF BeginRegister, Idle
  <1>2. ASSUME NEW b \in Browsers, NEW i \in CodeIds, BeginVerify(r, b, i) PROVE Goal
    <2>1. req'[r].code = i /\ req'[r].stage \in {"increment", "mark"}
      BY <1>0, <1>2 DEF BeginVerify, Idle
    <2> QED BY <1>2, <2>1
  <1>3. ASSUME NEW b \in Browsers, BeginComplete(r, b) PROVE Goal
    BY <1>0, <1>3 DEF BeginComplete, Idle
  <1>4. CASE CountCodes(r)
    BY <1>0, <1>4 DEF CountCodes, GoTo, Finish, Idle, RequestRecord
  <1>5. CASE CreateUser(r)
    BY <1>0, <1>5 DEF CreateUser, RequestRecord
  <1>6. CASE InvalidateByEmail(r)
    BY <1>0, <1>6 DEF InvalidateByEmail, GoTo, RequestRecord
  <1>7. CASE StatementFails(r)
    BY <1>0, <1>7 DEF StatementFails, GoTo, Finish, Idle, RequestRecord
  <1>8. CASE \/ CreateCode(r) \/ IncrementAttempts(r) \/ MarkUsedIfUnused(r) \/ AnswerVerified(r)
             \/ AssignRole(r) \/ ReconcilePositions(r) \/ LinkUser(r) \/ AnswerLinked(r)
    BY <1>0, <1>8 DEF CreateCode, IncrementAttempts, MarkUsedIfUnused, AnswerVerified, AssignRole,
                ReconcilePositions, LinkUser, AnswerLinked, GoTo, Finish, Idle, RequestRecord
  <1> QED BY <1>1, <1>2, <1>3, <1>4, <1>5, <1>6, <1>7, <1>8 DEF Begin, Serve

\* Steps that move no request.
LEMMA NobodyMoves ==
  ASSUME [Next]_vars, ~ \E r \in Requests : Begin(r) \/ Serve(r) \/ StatementFails(r)
  PROVE  req' = req /\ faults' = faults
  BY DEF Next, SessionAges, DropStaleSession, CodeAges, DeleteExpired, vars

\* Codes become usable one at a time, when they are created.
LEMMA UsableSteps ==
  ASSUME TypeOK, [Next]_vars
  PROVE  \/ UsableCodes' \subseteq UsableCodes
         \/ \E r \in Requests, i \in CodeIds :
              CreateCode(r) /\ UsableCodes' \subseteq UsableCodes \union {i}
  <1> USE DEF UsableCodes, Usable
  <1>1. CASE UNCHANGED code
    BY <1>1
  <1>2. ASSUME NEW r \in Requests, InvalidateByEmail(r) PROVE UsableCodes' = {}
    BY <1>2 DEF InvalidateByEmail, TypeOK, CodeRow
  <1>3. ASSUME NEW r \in Requests, CreateCode(r)
        PROVE  \E i \in CodeIds : UsableCodes' \subseteq UsableCodes \union {i}
    BY <1>3 DEF CreateCode, TypeOK, CodeRow
  <1>4. ASSUME NEW r \in Requests, IncrementAttempts(r) \/ MarkUsedIfUnused(r)
        PROVE  UsableCodes' \subseteq UsableCodes
    BY <1>4 DEF IncrementAttempts, MarkUsedIfUnused, TypeOK, CodeRow
  <1>5. ASSUME NEW i \in CodeIds, CodeAges(i) PROVE UsableCodes' \subseteq UsableCodes
    BY <1>5 DEF CodeAges, TypeOK, CodeRow
  <1>6. CASE DeleteExpired
    BY <1>6 DEF DeleteExpired, TypeOK, CodeRow, Unborn
  <1> QED BY <1>1, <1>2, <1>3, <1>4, <1>5, <1>6, CodeSteps

\* The same of the codes of the last hour.
LEMMA SentSteps ==
  ASSUME TypeOK, [Next]_vars
  PROVE  \/ SentThisHour' \subseteq SentThisHour
         \/ \E r \in Requests, i \in CodeIds :
              CreateCode(r) /\ SentThisHour' \subseteq SentThisHour \union {i}
  <1> USE DEF SentThisHour
  <1>1. CASE UNCHANGED code
    BY <1>1
  <1>2. ASSUME NEW r \in Requests,
               InvalidateByEmail(r) \/ IncrementAttempts(r) \/ MarkUsedIfUnused(r)
        PROVE  SentThisHour' \subseteq SentThisHour
    BY <1>2 DEF InvalidateByEmail, IncrementAttempts, MarkUsedIfUnused, TypeOK, CodeRow
  <1>3. ASSUME NEW r \in Requests, CreateCode(r)
        PROVE  \E i \in CodeIds : SentThisHour' \subseteq SentThisHour \union {i}
    BY <1>3 DEF CreateCode, TypeOK, CodeRow
  <1>4. ASSUME NEW i \in CodeIds, CodeAges(i) PROVE SentThisHour' \subseteq SentThisHour
    BY <1>4 DEF CodeAges, TypeOK, CodeRow
  <1>5. CASE DeleteExpired
    BY <1>5 DEF DeleteExpired, TypeOK, CodeRow, Unborn
  <1> QED BY <1>1, <1>2, <1>3, <1>4, <1>5, CodeSteps

\* The sets that are counted are finite, and the requests bound those of requests.
LEMMA Finite ==
  /\ IsFiniteSet(UsableCodes) /\ IsFiniteSet(SentThisHour)
  /\ \A stages : /\ IsFiniteSet(At(stages))
                 /\ Cardinality(At(stages)) <= Cardinality(Requests)
                 /\ IsFiniteSet(At(stages)')
                 /\ Cardinality(At(stages)') <= Cardinality(Requests)
                 /\ Cardinality(At(stages)') \in Nat
  /\ Cardinality(Requests) \in Nat
  <1>1. UsableCodes \subseteq CodeIds /\ SentThisHour \subseteq CodeIds
    BY DEF UsableCodes, SentThisHour
  <1>2. \A stages : At(stages) \subseteq Requests /\ At(stages)' \subseteq Requests
    BY DEF At
  <1> QED BY <1>1, <1>2, CountSame, CodeIdsFinite, SetsAssumption

LEMMA FaultSteps ==
  ASSUME TypeOK, [Next]_vars
  PROVE  faults \in Nat /\ (faults' = faults \/ faults' = faults + 1)
  <1>1. faults \in Nat
    BY NumbersAssumption DEF TypeOK
  <1>2. ASSUME NEW r \in Requests, Begin(r) PROVE faults' = faults
    BY <1>2 DEF Begin, BeginRegister, BeginVerify, BeginComplete
  <1>3. ASSUME NEW r \in Requests, Serve(r) PROVE faults' = faults
    BY <1>3 DEF Serve, CountCodes, InvalidateByEmail, CreateCode, IncrementAttempts,
                MarkUsedIfUnused, AnswerVerified, CreateUser, AssignRole, ReconcilePositions,
                LinkUser, AnswerLinked
  <1>4. ASSUME NEW r \in Requests, StatementFails(r) PROVE faults' = faults + 1
    BY <1>4 DEF StatementFails
  <1> QED BY <1>1, <1>2, <1>3, <1>4, NobodyMoves

LEMMA StepUsable == TypeOK /\ UsableCodesBounded /\ [Next]_vars => UsableCodesBounded'
  <1> SUFFICES ASSUME TypeOK, UsableCodesBounded, [Next]_vars PROVE UsableCodesBounded'
    OBVIOUS
  <1> DEFINE Creating == At({"create"})
  <1>0. /\ UsableCodesBounded <=>
              (Cardinality(UsableCodes) + Cardinality(Creating) <= Cardinality(Requests) + faults)
        /\ UsableCodesBounded' <=>
              (Cardinality(UsableCodes') + Cardinality(Creating')
                 <= Cardinality(Requests) + faults')
    BY DEF UsableCodesBounded, UsableCodes, At
  <1>1. faults \in Nat /\ (faults' = faults \/ faults' = faults + 1)
    BY FaultSteps
  <1>2. /\ IsFiniteSet(UsableCodes) /\ IsFiniteSet(Creating) /\ IsFiniteSet(Creating')
        /\ Cardinality(Creating') <= Cardinality(Requests)
        /\ Cardinality(Creating') \in Nat
        /\ Cardinality(Requests) \in Nat
    BY Finite
  <1>3. CASE Creating' \subseteq Creating /\ UsableCodes' \subseteq UsableCodes
    <2>1. /\ Cardinality(UsableCodes') <= Cardinality(UsableCodes)
          /\ Cardinality(UsableCodes) \in Nat
          /\ Cardinality(UsableCodes') \in Nat
      BY <1>2, <1>3, CountSame
    <2>2. /\ Cardinality(Creating') <= Cardinality(Creating)
          /\ Cardinality(Creating) \in Nat
      BY <1>2, <1>3, CountSame
    <2> HIDE DEF Creating
    <2> QED BY <1>0, <1>1, <1>2, <2>1, <2>2
  <1>4. ASSUME NEW r \in Requests, InvalidateByEmail(r) PROVE UsableCodesBounded'
    <2>1. UsableCodes' = {}
      BY <1>4 DEF InvalidateByEmail, UsableCodes, Usable, TypeOK, CodeRow
    <2>2. Cardinality(UsableCodes') = 0
      BY <2>1, FS_EmptySet
    <2> HIDE DEF Creating
    <2> QED BY <1>0, <1>1, <1>2, <2>2
  <1>5. ASSUME NEW r \in Requests, StatementFails(r), req[r].stage = "invalidate"
        PROVE  UsableCodesBounded'
    <2>1. UsableCodes' = UsableCodes /\ faults' = faults + 1
      BY <1>5 DEF StatementFails, rows, UsableCodes, Usable
    <2>2. Creating' \subseteq Creating \union {r}
      BY <1>5, OneMoves DEF At
    <2>3. /\ Cardinality(Creating') <= Cardinality(Creating) + 1
          /\ Cardinality(Creating) \in Nat
          /\ Cardinality(UsableCodes) \in Nat
      BY <1>2, <2>2, CountUp, FS_CardinalityType
    <2> HIDE DEF Creating
    <2> QED BY <1>0, <1>1, <1>2, <2>1, <2>3
  <1>6. ASSUME NEW r \in Requests, CreateCode(r),
               NEW i \in CodeIds, UsableCodes' \subseteq UsableCodes \union {i}
        PROVE  UsableCodesBounded'
    <2>1. r \in Creating
      BY <1>6 DEF CreateCode, At
    <2>2. Creating' \subseteq Creating \ {r}
      BY <1>6, <2>1, OneMoves, QuietMove DEF At, CreateCode, Finish, Idle, TypeOK, Serve
    <2>3. /\ Cardinality(Creating') <= Cardinality(Creating) - 1
          /\ Cardinality(Creating) \in Nat
      BY <1>2, <2>1, <2>2, CountDown
    <2>4. /\ Cardinality(UsableCodes') <= Cardinality(UsableCodes) + 1
          /\ Cardinality(UsableCodes) \in Nat
          /\ Cardinality(UsableCodes') \in Nat
      BY <1>2, <1>6, CountUp
    <2> HIDE DEF Creating
    <2> QED BY <1>0, <1>1, <1>2, <2>3, <2>4
  <1>7. \/ Creating' \subseteq Creating
        \/ \E r \in Requests :
             InvalidateByEmail(r) \/ (StatementFails(r) /\ req[r].stage = "invalidate")
    <2> SUFFICES ASSUME \A r \in Requests :
                          ~ InvalidateByEmail(r) /\ (StatementFails(r) => req[r].stage # "invalidate")
                 PROVE  Creating' \subseteq Creating
      OBVIOUS
    <2>1. CASE \E r \in Requests : Begin(r) \/ Serve(r) \/ StatementFails(r)
      <3>1. PICK r \in Requests : Begin(r) \/ Serve(r) \/ StatementFails(r)
        BY <2>1
      <3>2. req'[r].stage # "create"
        BY <3>1, CountedStages
      <3> QED BY <3>1, <3>2, OneMoves DEF At
    <2>2. CASE ~ \E r \in Requests : Begin(r) \/ Serve(r) \/ StatementFails(r)
      BY <2>2, NobodyMoves DEF At
    <2> QED BY <2>1, <2>2
  <1> QED BY <1>3, <1>4, <1>5, <1>6, <1>7, UsableSteps

\* However many requests for a code overlap, and however many invalidations fail, the
\* codes that can be entered are no more than requests in flight and failures.
THEOREM UsableBounded == Spec => []UsableCodesBounded
  <1>1. Init => UsableCodesBounded
    <2> SUFFICES ASSUME Init PROVE UsableCodesBounded
      OBVIOUS
    <2>1. UsableCodes = {} /\ At({"create"}) = {}
      BY DEF Init, UsableCodes, Usable, Unborn, At, Idle
    <2>2. Cardinality(UsableCodes) = 0 /\ Cardinality(At({"create"})) = 0 /\ faults = 0
      BY <2>1, FS_EmptySet DEF Init
    <2> QED BY <2>2, Finite DEF UsableCodesBounded, UsableCodes, At
  <1> QED BY <1>1, StepUsable, TypeCorrect, PTL DEF Spec

-----------------------------------------------------------------------------
LEMMA StepHourly == TypeOK /\ HourlyCodesBounded /\ [Next]_vars => HourlyCodesBounded'
  <1> SUFFICES ASSUME TypeOK, HourlyCodesBounded, [Next]_vars PROVE HourlyCodesBounded'
    OBVIOUS
  <1> DEFINE Allowed == At({"invalidate", "create"})
  <1>0. /\ HourlyCodesBounded <=>
              (Cardinality(SentThisHour) + Cardinality(Allowed)
                 <= RateLimit + Cardinality(Requests) - 1)
        /\ HourlyCodesBounded' <=>
              (Cardinality(SentThisHour') + Cardinality(Allowed')
                 <= RateLimit + Cardinality(Requests) - 1)
    BY DEF HourlyCodesBounded, At
  <1>1. /\ IsFiniteSet(SentThisHour) /\ IsFiniteSet(Allowed) /\ IsFiniteSet(Allowed')
        /\ Cardinality(Allowed') <= Cardinality(Requests)
        /\ Cardinality(Allowed') \in Nat
        /\ Cardinality(Requests) \in Nat
        /\ RateLimit \in Nat
    BY Finite, NumbersAssumption
  <1>2. CASE Allowed' \subseteq Allowed /\ SentThisHour' \subseteq SentThisHour
    <2>1. /\ Cardinality(SentThisHour') <= Cardinality(SentThisHour)
          /\ Cardinality(SentThisHour) \in Nat
          /\ Cardinality(SentThisHour') \in Nat
      BY <1>1, <1>2, CountSame
    <2>2. /\ Cardinality(Allowed') <= Cardinality(Allowed)
          /\ Cardinality(Allowed) \in Nat
      BY <1>1, <1>2, CountSame
    <2> HIDE DEF Allowed
    <2> QED BY <1>0, <1>1, <2>1, <2>2
  <1>3. ASSUME NEW r \in Requests, CountCodes(r), Cardinality(SentThisHour) < RateLimit
        PROVE  HourlyCodesBounded'
    <2>1. SentThisHour' = SentThisHour
      BY <1>3 DEF CountCodes, rows, SentThisHour
    <2>2. Cardinality(SentThisHour) \in Nat
      BY <1>1, FS_CardinalityType
    <2> HIDE DEF Allowed
    <2> QED BY <1>0, <1>1, <1>3, <2>1, <2>2
  <1>4. ASSUME NEW r \in Requests, CreateCode(r),
               NEW i \in CodeIds, SentThisHour' \subseteq SentThisHour \union {i}
        PROVE  HourlyCodesBounded'
    <2>1. r \in Allowed
      BY <1>4 DEF CreateCode, At
    <2>2. Allowed' \subseteq Allowed \ {r}
      BY <1>4, <2>1, OneMoves DEF At, CreateCode, Finish, Idle, TypeOK, Serve
    <2>3. /\ Cardinality(Allowed') <= Cardinality(Allowed) - 1
          /\ Cardinality(Allowed) \in Nat
      BY <1>1, <2>1, <2>2, CountDown
    <2>4. /\ Cardinality(SentThisHour') <= Cardinality(SentThisHour) + 1
          /\ Cardinality(SentThisHour) \in Nat
          /\ Cardinality(SentThisHour') \in Nat
      BY <1>1, <1>4, CountUp
    <2> HIDE DEF Allowed
    <2> QED BY <1>0, <1>1, <2>3, <2>4
  <1>5. \/ Allowed' \subseteq Allowed
        \/ \E r \in Requests : CountCodes(r) /\ Cardinality(SentThisHour) < RateLimit
    <2> SUFFICES ASSUME \A r \in Requests : CountCodes(r) => ~ (Cardinality(SentThisHour) < RateLimit)
                 PROVE  Allowed' \subseteq Allowed
      OBVIOUS
    <2>1. CASE \E r \in Requests : Begin(r) \/ Serve(r) \/ StatementFails(r)
      <3>1. PICK r \in Requests : Begin(r) \/ Serve(r) \/ StatementFails(r)
        BY <2>1
      <3>2. req'[r].stage # "invalidate"
        BY <3>1, CountedStages
      <3>3. req'[r].stage = "create" => req[r].stage = "invalidate"
        BY <3>1, CountedStages DEF InvalidateByEmail
      <3> QED BY <3>1, <3>2, <3>3, OneMoves DEF At
    <2>2. CASE ~ \E r \in Requests : Begin(r) \/ Serve(r) \/ StatementFails(r)
      BY <2>2, NobodyMoves DEF At
    <2> QED BY <2>1, <2>2
  <1> QED BY <1>2, <1>3, <1>4, <1>5, SentSteps

\* An address has at most RateLimit codes of the last hour, and one more for every
\* further request that overlaps.
THEOREM HourlyBounded == Spec => []HourlyCodesBounded
  <1>1. Init => HourlyCodesBounded
    <2> SUFFICES ASSUME Init PROVE HourlyCodesBounded
      OBVIOUS
    <2>1. SentThisHour = {} /\ At({"invalidate", "create"}) = {}
      BY DEF Init, SentThisHour, Unborn, At, Idle
    <2>2. Cardinality(SentThisHour) = 0 /\ Cardinality(At({"invalidate", "create"})) = 0
      BY <2>1, FS_EmptySet
    <2> QED BY <2>2, Finite, NumbersAssumption DEF HourlyCodesBounded, At
  <1> QED BY <1>1, StepHourly, TypeCorrect, PTL DEF Spec

-----------------------------------------------------------------------------
\* What a step does to the attempts of a code, and to the requests about to add one.
LEMMA GuessSteps ==
  ASSUME TypeOK, [Next]_vars, NEW i \in CodeIds
  PROVE  \/ /\ code'[i].attempts <= code[i].attempts
            /\ Guessing(i)' \subseteq Guessing(i)
         \/ /\ code[i].attempts < MaxAttempts
            /\ code'[i].attempts = code[i].attempts
         \/ \E r \in Guessing(i) : /\ code'[i].attempts <= code[i].attempts + 1
                                   /\ Guessing(i)' \subseteq Guessing(i) \ {r}
  <1>0. code[i].attempts \in Nat
    BY DEF TypeOK, CodeRow
  <1>1. ASSUME NEW r \in Requests, Begin(r) \/ Serve(r) \/ StatementFails(r),
               ~ IncrementAttempts(r),
               ~ \E b \in Browsers : BeginVerify(r, b, i)
        PROVE  Guessing(i)' \subseteq Guessing(i)
    <2>1. req'[r].stage = "increment" => req'[r].code # i
      BY <1>1, CountedStages
    <2> QED BY <1>1, <2>1, OneMoves DEF Guessing
  <1>2. ASSUME NEW r \in Requests, NEW b \in Browsers, BeginVerify(r, b, i)
        PROVE  code[i].attempts < MaxAttempts /\ code'[i].attempts = code[i].attempts
    BY <1>2 DEF BeginVerify, rows
  <1>3. ASSUME NEW r \in Requests, IncrementAttempts(r)
        PROVE  \/ /\ code'[i].attempts <= code[i].attempts
                  /\ Guessing(i)' \subseteq Guessing(i)
               \/ \E s \in Guessing(i) : /\ code'[i].attempts <= code[i].attempts + 1
                                         /\ Guessing(i)' \subseteq Guessing(i) \ {s}
    <2>1. Guessing(i)' \subseteq Guessing(i) \ {r}
      BY <1>3, OneMoves DEF Guessing, IncrementAttempts, Finish, Idle, TypeOK, Serve
    <2>2. CASE req[r].code = i
      <3>1. r \in Guessing(i)
        BY <1>3, <2>2 DEF Guessing, IncrementAttempts
      <3>2. code'[i].attempts <= code[i].attempts + 1
        BY <1>0, <1>3, <2>2 DEF IncrementAttempts, TypeOK, CodeRow
      <3> QED BY <2>1, <3>1, <3>2
    <2>3. CASE req[r].code # i
      <3>1. code'[i] = code[i]
        BY <1>3, <2>3 DEF IncrementAttempts, TypeOK
      <3> QED BY <1>0, <2>1, <3>1
    <2> QED BY <2>2, <2>3
  <1>4. ASSUME ~ \E r \in Requests : Begin(r) \/ Serve(r) \/ StatementFails(r)
        PROVE  Guessing(i)' \subseteq Guessing(i)
    BY <1>4, NobodyMoves DEF Guessing
  <1>5. (\E r \in Requests : IncrementAttempts(r)) \/ code'[i].attempts <= code[i].attempts
    <2>1. CASE UNCHANGED code
      BY <1>0, <2>1
    <2>2. ASSUME NEW r \in Requests,
                 InvalidateByEmail(r) \/ CreateCode(r) \/ MarkUsedIfUnused(r)
          PROVE  code'[i].attempts <= code[i].attempts
      BY <1>0, <2>2 DEF InvalidateByEmail, CreateCode, MarkUsedIfUnused, TypeOK, CodeRow
    <2>3. ASSUME NEW j \in CodeIds, CodeAges(j) PROVE code'[i].attempts <= code[i].attempts
      BY <1>0, <2>3 DEF CodeAges, TypeOK, CodeRow
    <2>4. CASE DeleteExpired
      BY <1>0, <2>4 DEF DeleteExpired, TypeOK, CodeRow, Unborn
    <2> QED BY <2>1, <2>2, <2>3, <2>4, CodeSteps
  <1>6. CASE \E r \in Requests : Begin(r) \/ Serve(r) \/ StatementFails(r)
    <2>1. PICK r \in Requests : Begin(r) \/ Serve(r) \/ StatementFails(r)
      BY <1>6
    <2>2. CASE IncrementAttempts(r)
      BY <2>2, <1>3
    <2>3. CASE \E b \in Browsers : BeginVerify(r, b, i)
      BY <2>3, <1>2
    <2>4. CASE ~ IncrementAttempts(r) /\ ~ \E b \in Browsers : BeginVerify(r, b, i)
      <3>1. Guessing(i)' \subseteq Guessing(i)
        BY <1>1, <2>1, <2>4
      <3>2. CASE \E s \in Requests : IncrementAttempts(s)
        BY <3>2, <1>3
      <3>3. CASE ~ \E s \in Requests : IncrementAttempts(s)
        BY <3>1, <3>3, <1>5
      <3> QED BY <3>2, <3>3
    <2> QED BY <2>2, <2>3, <2>4
  <1>7. CASE ~ \E r \in Requests : Begin(r) \/ Serve(r) \/ StatementFails(r)
    BY <1>4, <1>5, <1>7 DEF Serve
  <1> QED BY <1>6, <1>7

LEMMA StepGuesses == TypeOK /\ GuessesBounded /\ [Next]_vars => GuessesBounded'
  <1> SUFFICES ASSUME TypeOK, GuessesBounded, [Next]_vars, NEW i \in CodeIds
               PROVE  code'[i].attempts + Cardinality(Guessing(i)')
                        <= MaxAttempts + Cardinality(Requests) - 1
    BY DEF GuessesBounded, Guessing
  <1>0. code[i].attempts + Cardinality(Guessing(i)) <= MaxAttempts + Cardinality(Requests) - 1
    BY DEF GuessesBounded, Guessing
  <1>1. /\ IsFiniteSet(Guessing(i)) /\ IsFiniteSet(Guessing(i)')
        /\ Cardinality(Guessing(i)') <= Cardinality(Requests)
        /\ Cardinality(Guessing(i)') \in Nat
        /\ Cardinality(Guessing(i)) \in Nat
        /\ Cardinality(Requests) \in Nat
        /\ MaxAttempts \in Nat
        /\ code[i].attempts \in Nat
        /\ code'[i].attempts \in Nat
    <2>1. Guessing(i) \subseteq Requests /\ Guessing(i)' \subseteq Requests
      BY DEF Guessing
    <2>2. TypeOK'
      BY StepType
    <2>3. code[i].attempts \in Nat /\ code'[i].attempts \in Nat
      BY <2>2 DEF TypeOK, CodeRow
    <2> QED BY <2>1, <2>3, CountSame, SetsAssumption, NumbersAssumption
  <1>2. CASE code'[i].attempts <= code[i].attempts /\ Guessing(i)' \subseteq Guessing(i)
    <2>1. Cardinality(Guessing(i)') <= Cardinality(Guessing(i))
      BY <1>1, <1>2, CountSame
    <2> QED BY <1>0, <1>1, <1>2, <2>1
  <1>3. CASE code[i].attempts < MaxAttempts /\ code'[i].attempts = code[i].attempts
    BY <1>1, <1>3
  <1>4. ASSUME NEW r \in Guessing(i), code'[i].attempts <= code[i].attempts + 1,
               Guessing(i)' \subseteq Guessing(i) \ {r}
        PROVE  code'[i].attempts + Cardinality(Guessing(i)')
                 <= MaxAttempts + Cardinality(Requests) - 1
    <2>1. Cardinality(Guessing(i)') <= Cardinality(Guessing(i)) - 1
      BY <1>1, <1>4, CountDown
    <2> QED BY <1>0, <1>1, <1>4, <2>1
  <1> QED BY <1>2, <1>3, <1>4, GuessSteps

\* A code takes at most MaxAttempts wrong entries, and one more for every further
\* request that overlaps the one that reaches the limit.
THEOREM WrongEntriesBounded == Spec => []GuessesBounded
  <1>1. Init => GuessesBounded
    <2> SUFFICES ASSUME Init, NEW i \in CodeIds
                 PROVE  code[i].attempts + Cardinality(Guessing(i))
                          <= MaxAttempts + Cardinality(Requests) - 1
      BY DEF GuessesBounded, Guessing
    <2>1. Guessing(i) = {} /\ code[i].attempts = 0
      BY DEF Init, Unborn, Guessing, Idle
    <2>2. Cardinality(Guessing(i)) = 0
      BY <2>1, FS_EmptySet
    <2> QED BY <2>1, <2>2, Finite, NumbersAssumption
  <1> QED BY <1>1, StepGuesses, TypeCorrect, PTL DEF Spec

-----------------------------------------------------------------------------
(***************************************************************************)
(* The refinement of OneTimeCodes, for any overlap and any failures.  The  *)
(* lemmas say which change of the rows, of the requests and of the cookies *)
(* is which step of the abstract codes.                                    *)
(***************************************************************************)

Admitted == {"createUser", "assign", "reconcile", "link"}

UnsentCodes == {i \in CodeIds : code[i].age = "unborn"}
OpenCodes == {i \in CodeIds : Redeemable(i)}
FreshCodes == [b \in Browsers |-> IF session[b].age = "fresh" THEN session[b].code ELSE 0]

StepMaps == OneTime!CodesNext \/ UNCHANGED OneTime!codesVars

\* A code that has not been sent has an untouched row.
UnsentUntouched == \A i \in CodeIds : code[i].age = "unborn" => code[i] = Unborn

LEMMA StepUntouched == TypeOK /\ UnsentUntouched /\ [Next]_vars => UnsentUntouched'
  <1> SUFFICES ASSUME TypeOK, UnsentUntouched, [Next]_vars PROVE UnsentUntouched'
    OBVIOUS
  <1>1. ASSUME NEW r \in Requests, InvalidateByEmail(r) PROVE UnsentUntouched'
    BY <1>1 DEF InvalidateByEmail, Usable, UnsentUntouched, TypeOK, CodeRow
  <1>2. ASSUME NEW r \in Requests, CreateCode(r) PROVE UnsentUntouched'
    BY <1>2 DEF CreateCode, UnsentUntouched, TypeOK, CodeRow
  <1>3. ASSUME NEW r \in Requests, IncrementAttempts(r) \/ MarkUsedIfUnused(r)
        PROVE  UnsentUntouched'
    BY <1>3 DEF IncrementAttempts, MarkUsedIfUnused, Born, UnsentUntouched, TypeOK, CodeRow
  <1>4. ASSUME NEW i \in CodeIds, CodeAges(i) PROVE UnsentUntouched'
    BY <1>4 DEF CodeAges, UnsentUntouched, TypeOK, CodeRow
  <1>5. CASE DeleteExpired
    BY <1>5 DEF DeleteExpired, UnsentUntouched, Unborn
  <1>6. CASE UNCHANGED code
    BY <1>6 DEF UnsentUntouched
  <1> QED BY <1>1, <1>2, <1>3, <1>4, <1>5, <1>6, CodeSteps

\* A verification in force names a code.
FreshNamed == \A b \in Browsers : session[b].age = "fresh" => session[b].code \in CodeIds

LEMMA StepFresh == TypeOK /\ FreshNamed /\ [Next]_vars => FreshNamed'
  <1> SUFFICES ASSUME TypeOK, FreshNamed, [Next]_vars PROVE FreshNamed'
    OBVIOUS
  <1>1. ASSUME NEW r \in Requests, AnswerVerified(r) PROVE FreshNamed'
    BY <1>1, RequestFields DEF AnswerVerified, FreshNamed, TypeOK
  <1>2. ASSUME NEW r \in Requests, AnswerLinked(r) PROVE FreshNamed'
    BY <1>2 DEF AnswerLinked, FreshNamed, TypeOK, NoSession
  <1>3. ASSUME NEW b \in Browsers, SessionAges(b) \/ DropStaleSession(b) PROVE FreshNamed'
    BY <1>3 DEF SessionAges, DropStaleSession, NoSession, FreshNamed, TypeOK, SessionValue
  <1>4. CASE UNCHANGED session
    BY <1>4 DEF FreshNamed
  <1>5. \/ UNCHANGED session
        \/ \E r \in Requests : AnswerVerified(r) \/ AnswerLinked(r)
        \/ \E b \in Browsers : SessionAges(b) \/ DropStaleSession(b)
    BY DEF Next, Begin, BeginRegister, BeginVerify, BeginComplete, StatementFails, Serve,
           CountCodes, InvalidateByEmail, CreateCode, IncrementAttempts, MarkUsedIfUnused,
           CreateUser, AssignRole, ReconcilePositions, LinkUser, CodeAges, DeleteExpired, vars
  <1> QED BY <1>1, <1>2, <1>3, <1>4, <1>5

\* A step that only takes codes from those that can be redeemed.
LEMMA MapClose ==
  ASSUME UNCHANGED <<UnsentCodes, FreshCodes, At(Admitted), linked>>,
         \A i \in CodeIds : Redeemable(i)' => Redeemable(i)
  PROVE  StepMaps
  <1>1. OpenCodes' \subseteq OpenCodes
    BY DEF OpenCodes
  <1>2. OneTime!Close
    BY <1>1 DEF OneTime!Close, OpenCodes, UnsentCodes, FreshCodes, At, Admitted
  <1> QED BY <1>2 DEF StepMaps, OneTime!CodesNext

\* What a step of one request does to the requests for an account.
LEMMA AdmittedMoves ==
  ASSUME NEW r \in Requests, \A s \in Requests \ {r} : req'[s] = req[s]
  PROVE  At(Admitted)' = IF req'[r].stage \in Admitted THEN At(Admitted) \union {r}
                                                       ELSE At(Admitted) \ {r}
  BY DEF At

\* A step of a request that is not about to redeem a code afterwards.
LEMMA NoNewVerify ==
  ASSUME NEW r \in Requests, \A s \in Requests \ {r} : req'[s] = req[s],
         req'[r].stage \notin {"mark", "verified"}, NEW i \in CodeIds
  PROVE  /\ Marking(i)' => Marking(i)
         /\ VerifiedRequests(i)' \subseteq VerifiedRequests(i)
  BY DEF Marking, VerifiedRequests

\* Rows that keep what can be redeemed, or lose it.
LEMMA Redeems ==
  ASSUME NEW i \in CodeIds, code[i] \in CodeRow, code'[i] \in CodeRow,
         Marking(i)' => Marking(i),
         VerifiedRequests(i)' \subseteq VerifiedRequests(i),
         ~code'[i].used => ~code[i].used,
         code'[i].age = "live" => code[i].age = "live",
         Born(i)' => Born(i),
         code'[i].attempts >= code[i].attempts
  PROVE  Redeemable(i)' => Redeemable(i)
  <1>1. CASE code'[i].age = "live" /\ ~code'[i].used /\ code'[i].attempts < MaxAttempts
    BY <1>1, NumbersAssumption DEF Redeemable, CodeRow
  <1>2. CASE Born(i)' /\ ~code'[i].used /\ Marking(i)'
    BY <1>2 DEF Redeemable
  <1>3. CASE VerifiedRequests(i)' # {}
    BY <1>3 DEF Redeemable, VerifiedRequests
  <1> QED BY <1>1, <1>2, <1>3 DEF Redeemable, VerifiedRequests

LEMMA BeginMaps ==
  ASSUME TypeOK, FreshNamed, NEW r \in Requests, Begin(r)
  PROVE  StepMaps
  <1>0. /\ UNCHANGED <<code, linked, session>>
        /\ req[r] = Idle
        /\ \A s \in Requests \ {r} : req'[s] = req[s]
        /\ req \in [Requests -> RequestRecord]
    BY OneMoves DEF Begin, BeginRegister, BeginVerify, BeginComplete, rows, TypeOK
  <1>1. UNCHANGED <<UnsentCodes, FreshCodes>>
    BY <1>0 DEF UnsentCodes, FreshCodes
  <1>2. \A i \in CodeIds : /\ UNCHANGED Born(i)
                           /\ code[i] \in CodeRow
                           /\ code'[i] = code[i]
    BY <1>0 DEF Born, TypeOK
  <1>3. ASSUME NEW b \in Browsers, BeginRegister(r, b) PROVE StepMaps
    <2>1. req'[r].stage = "count" /\ req[r].stage = "idle"
      BY <1>0, <1>3 DEF BeginRegister, Idle
    <2>2. UNCHANGED At(Admitted)
      BY <1>0, <2>1 DEF At, Admitted
    <2>3. \A i \in CodeIds : Redeemable(i)' => Redeemable(i)
      BY <1>0, <1>2, <2>1, NoNewVerify, Redeems DEF CodeRow
    <2> QED BY <1>0, <1>1, <2>2, <2>3, MapClose
  <1>4. ASSUME NEW b \in Browsers, NEW j \in CodeIds, BeginVerify(r, b, j) PROVE StepMaps
    <2>1. /\ req'[r].stage \in {"mark", "increment"} /\ req'[r].code = j
          /\ req[r].stage = "idle"
      BY <1>0, <1>4 DEF BeginVerify, Idle
    <2>2. UNCHANGED At(Admitted)
      BY <1>0, <2>1 DEF At, Admitted
    <2>3. ASSUME NEW i \in CodeIds, i # j PROVE Redeemable(i)' => Redeemable(i)
      <3>1. Marking(i)' => Marking(i)
        BY <1>0, <2>1, <2>3 DEF Marking
      <3>2. VerifiedRequests(i)' \subseteq VerifiedRequests(i)
        BY <1>0, <2>1 DEF VerifiedRequests
      <3> QED BY <1>2, <3>1, <3>2, Redeems DEF CodeRow
    <2>4. Redeemable(j)
      BY <1>4 DEF BeginVerify, Usable, Redeemable
    <2> QED BY <1>0, <1>1, <2>2, <2>3, <2>4, MapClose
  <1>5. ASSUME NEW b \in Browsers, BeginComplete(r, b) PROVE StepMaps
    <2>1. req'[r].stage = "createUser" /\ req[r].stage = "idle"
      BY <1>0, <1>5 DEF BeginComplete, Idle
    <2>2. At(Admitted)' = At(Admitted) \union {r}
      BY <1>0, <2>1, AdmittedMoves DEF Admitted
    <2>3. \A i \in CodeIds : Redeemable(i)' = Redeemable(i)
      BY <1>0, <1>2, <2>1 DEF Redeemable, Marking, VerifiedRequests
    <2>4. UNCHANGED OpenCodes
      BY <2>3 DEF OpenCodes
    <2>5. FreshCodes[b] # 0
      BY <1>5, NumbersAssumption DEF BeginComplete, FreshCodes, FreshNamed, CodeIds
    <2>6. OneTime!Admit(r, b)
      BY <1>0, <1>1, <2>2, <2>4, <2>5
      DEF OneTime!Admit, OpenCodes, UnsentCodes, FreshCodes, At, Admitted
    <2> QED BY <2>6 DEF StepMaps, OneTime!CodesNext
  <1> QED BY <1>3, <1>4, <1>5 DEF Begin

LEMMA ServeMaps ==
  ASSUME TypeOK, TypeOK', SessionInv, UnsentUntouched, NEW r \in Requests, Serve(r)
  PROVE  StepMaps
  <1>0. /\ \A s \in Requests \ {r} : req'[s] = req[s]
        /\ req \in [Requests -> RequestRecord]
        /\ req[r] \in RequestRecord /\ req'[r] \in RequestRecord
        /\ \A i \in CodeIds : code[i] \in CodeRow /\ code'[i] \in CodeRow
    BY OneMoves DEF TypeOK
  <1>1. ASSUME UNCHANGED <<session, linked>>,
               req[r].stage \notin Admitted, req'[r].stage \notin Admitted,
               UNCHANGED UnsentCodes,
               \A i \in CodeIds : Redeemable(i)' => Redeemable(i)
        PROVE  StepMaps
    <2>1. UNCHANGED <<At(Admitted), FreshCodes>>
      BY <1>0, <1>1 DEF At, FreshCodes
    <2> QED BY <1>1, <2>1, MapClose
  <1>2. ASSUME UNCHANGED code, req'[r].stage \notin {"mark", "verified"}
        PROVE  /\ UNCHANGED UnsentCodes
               /\ \A i \in CodeIds : Redeemable(i)' => Redeemable(i)
    <2>1. \A i \in CodeIds : UNCHANGED Born(i) /\ code'[i] = code[i]
      BY <1>2 DEF Born
    <2>2. UNCHANGED UnsentCodes
      BY <1>2 DEF UnsentCodes
    <2> QED BY <1>0, <1>2, <2>1, <2>2, NoNewVerify, Redeems DEF CodeRow
  <1>3. CASE CountCodes(r)
    <2>1. req'[r].stage \in {"idle", "invalidate"} /\ req[r].stage = "count"
      BY <1>0, <1>3 DEF CountCodes, GoTo, Finish, Idle, RequestRecord
    <2> QED BY <1>1, <1>2, <1>3, <2>1 DEF CountCodes, rows, Admitted
  <1>4. CASE InvalidateByEmail(r)
    <2>1. req'[r].stage = "create" /\ req[r].stage = "invalidate"
      BY <1>0, <1>4 DEF InvalidateByEmail, GoTo, RequestRecord
    <2>2. \A i \in CodeIds : /\ code'[i].age = code[i].age
                             /\ code'[i].attempts = code[i].attempts
                             /\ ~code'[i].used => ~code[i].used
      BY <1>0, <1>4 DEF InvalidateByEmail, CodeRow
    <2>3. UNCHANGED UnsentCodes /\ \A i \in CodeIds : UNCHANGED Born(i)
      BY <2>2 DEF UnsentCodes, Born
    <2>4. \A i \in CodeIds : Redeemable(i)' => Redeemable(i)
      BY <1>0, <2>1, <2>2, <2>3, NoNewVerify, Redeems DEF CodeRow
    <2> QED BY <1>1, <1>4, <2>1, <2>3, <2>4 DEF InvalidateByEmail, Admitted
  <1>5. CASE CreateCode(r)
    <2>1. req'[r].stage = "idle" /\ req[r].stage = "create"
      BY <1>0, <1>5 DEF CreateCode, Finish, Idle
    <2>2. PICK i \in CodeIds : /\ code[i].age = "unborn"
                               /\ code' = [code EXCEPT ![i].age = "live"]
      BY <1>5 DEF CreateCode
    <2>3. code'[i] = [Unborn EXCEPT !.age = "live"] /\ \A j \in CodeIds \ {i} : code'[j] = code[j]
      BY <1>0, <2>2 DEF UnsentUntouched, TypeOK
    <2>4. UnsentCodes' = UnsentCodes \ {i} /\ i \in UnsentCodes
      BY <2>2, <2>3 DEF UnsentCodes, Unborn
    <2>5. Redeemable(i)'
      BY <2>3, NumbersAssumption DEF Redeemable, Unborn
    <2>6. \A j \in CodeIds \ {i} : UNCHANGED <<Marking(j), VerifiedRequests(j), Born(j), code[j]>>
      BY <1>0, <2>1, <2>3 DEF Marking, VerifiedRequests, Born
    <2>7. \A j \in CodeIds \ {i} : Redeemable(j)' <=> Redeemable(j)
      BY <2>6 DEF Redeemable, VerifiedRequests
    <2>8. OpenCodes' = OpenCodes \union {i}
      BY <2>5, <2>7 DEF OpenCodes
    <2>9. UNCHANGED <<FreshCodes, At(Admitted), linked>>
      BY <1>0, <1>5, <2>1 DEF CreateCode, FreshCodes, At, Admitted
    <2>10. OneTime!Send(i)
      BY <2>4, <2>8, <2>9
      DEF OneTime!Send, OpenCodes, UnsentCodes, FreshCodes, At, Admitted
    <2> QED BY <2>10 DEF StepMaps, OneTime!CodesNext
  <1>6. CASE IncrementAttempts(r)
    <2>1. req'[r].stage = "idle" /\ req[r].stage = "increment"
      BY <1>0, <1>6 DEF IncrementAttempts, Finish, Idle
    <2>2. \A i \in CodeIds : /\ code'[i].age = code[i].age
                             /\ code'[i].attempts >= code[i].attempts
                             /\ code'[i].used = code[i].used
      BY <1>0, <1>6 DEF IncrementAttempts, CodeRow
    <2>3. UNCHANGED UnsentCodes /\ \A i \in CodeIds : UNCHANGED Born(i)
      BY <2>2 DEF UnsentCodes, Born
    <2>4. \A i \in CodeIds : Redeemable(i)' => Redeemable(i)
      BY <1>0, <2>1, <2>2, <2>3, NoNewVerify, Redeems DEF CodeRow
    <2> QED BY <1>1, <1>6, <2>1, <2>3, <2>4 DEF IncrementAttempts, Admitted
  <1>7. CASE MarkUsedIfUnused(r)
    <2>0. PICK i \in CodeIds : i = req[r].code
      BY <1>7, RequestFields DEF MarkUsedIfUnused
    <2>1. CASE UNCHANGED code /\ Finish(r)
      <3>1. req'[r].stage = "idle" /\ req[r].stage = "mark"
        BY <1>0, <1>7, <2>1 DEF MarkUsedIfUnused, Finish, Idle
      <3> QED BY <1>1, <1>2, <1>7, <2>1, <3>1 DEF MarkUsedIfUnused, Admitted
    <2>2. CASE Born(i) /\ ~code[i].used /\ GoTo(r, "verified")
      <3>1. /\ req'[r] = [req[r] EXCEPT !.stage = "verified"]
            /\ req[r].stage = "mark" /\ req[r].code = i
            /\ code' = [code EXCEPT ![i].used = TRUE]
        BY <1>0, <1>7, <2>0, <2>2 DEF MarkUsedIfUnused, GoTo
      <3>2. req'[r].stage = "verified" /\ req'[r].code = i
        BY <1>0, <3>1 DEF RequestRecord
      <3>3. /\ \A j \in CodeIds \ {i} : code'[j] = code[j]
            /\ code'[i].age = code[i].age
        BY <1>0, <3>1 DEF TypeOK, CodeRow
      <3>4. UNCHANGED UnsentCodes
        BY <3>3 DEF UnsentCodes
      <3>5. Redeemable(i)
        BY <2>2, <3>1 DEF Redeemable, Marking
      <3>6. ASSUME NEW j \in CodeIds, j # i PROVE Redeemable(j)' => Redeemable(j)
        <4>1. Marking(j)' => Marking(j)
          BY <1>0, <3>2, <3>6 DEF Marking
        <4>2. VerifiedRequests(j)' \subseteq VerifiedRequests(j)
          BY <1>0, <3>2, <3>6 DEF VerifiedRequests
        <4> QED BY <1>0, <3>3, <3>6, <4>1, <4>2, Redeems DEF CodeRow, Born
      <3> QED BY <1>1, <1>7, <3>1, <3>2, <3>4, <3>5, <3>6 DEF MarkUsedIfUnused, Admitted
    <2> QED BY <1>7, <2>0, <2>1, <2>2 DEF MarkUsedIfUnused
  <1>8. CASE AnswerVerified(r)
    <2>0. PICK i \in CodeIds, b \in Browsers : i = req[r].code /\ b = req[r].browser
      BY <1>8, RequestFields DEF AnswerVerified
    <2>1. /\ req[r].stage = "verified" /\ req'[r].stage = "idle"
          /\ session' = [session EXCEPT ![b] = [code |-> i, age |-> "fresh"]]
          /\ UNCHANGED <<code, linked>>
      BY <1>0, <1>8, <2>0 DEF AnswerVerified, Finish, Idle, rows
    <2>2. /\ VerifiedRequests(i) # {}
          /\ \A s \in VerifiedRequests(i) : s = r
      BY <2>0, <2>1 DEF VerifiedRequests, SessionInv, CodeVerifiesOneSession
    <2>3. Spent(i)
      BY <2>2 DEF SessionInv
    <2>4. VerifiedRequests(i)' = {}
      BY <1>0, <2>1, <2>2 DEF VerifiedRequests
    <2>5. ~ Redeemable(i)' /\ Redeemable(i)
      BY <2>1, <2>2, <2>3, <2>4 DEF Redeemable, VerifiedRequests, Spent, Born
    <2>6. ASSUME NEW j \in CodeIds, j # i PROVE Redeemable(j)' <=> Redeemable(j)
      <3>1. UNCHANGED <<Marking(j), VerifiedRequests(j), Born(j), code[j]>>
        BY <1>0, <2>0, <2>1, <2>6 DEF Marking, VerifiedRequests, Born
      <3> QED BY <3>1 DEF Redeemable, VerifiedRequests
    <2>7. OpenCodes' = OpenCodes \ {i} /\ i \in OpenCodes
      BY <2>5, <2>6 DEF OpenCodes
    <2>8. FreshCodes' = [FreshCodes EXCEPT ![b] = i]
      BY <2>1 DEF FreshCodes, TypeOK
    <2>9. UNCHANGED <<UnsentCodes, At(Admitted), linked>>
      BY <1>0, <2>1 DEF UnsentCodes, At, Admitted
    <2>10. OneTime!Redeem(i, b)
      BY <2>7, <2>8, <2>9
      DEF OneTime!Redeem, OpenCodes, UnsentCodes, FreshCodes, At, Admitted
    <2> QED BY <2>10 DEF StepMaps, OneTime!CodesNext
  <1>9. CASE CreateUser(r) \/ AssignRole(r) \/ ReconcilePositions(r)
    <2>1. /\ req[r].stage \in Admitted /\ req'[r].stage \in Admitted
          /\ UNCHANGED <<code, session, linked>>
      BY <1>0, <1>9 DEF CreateUser, AssignRole, ReconcilePositions, GoTo, RequestRecord, Admitted
    <2>2. UNCHANGED <<At(Admitted), FreshCodes>>
      BY <1>0, <2>1 DEF At, FreshCodes
    <2>3. req'[r].stage \notin {"mark", "verified"}
      BY <2>1 DEF Admitted
    <2> QED BY <1>2, <2>1, <2>2, <2>3, MapClose
  <1>10. CASE LinkUser(r)
    <2>0. PICK u \in Users : u = req[r].user
      BY <1>10, RequestFields DEF LinkUser
    <2>1. /\ req[r].stage = "link" /\ req'[r].stage = "linked"
          /\ UNCHANGED <<code, session>>
          /\ linked' = u
      BY <1>0, <1>10, <2>0 DEF LinkUser, GoTo, RequestRecord
    <2>2. At(Admitted)' = At(Admitted) \ {r} /\ r \in At(Admitted)
      BY <1>0, <2>1, AdmittedMoves DEF Admitted, At
    <2>3. \A i \in CodeIds : UNCHANGED Redeemable(i)
      BY <1>0, <2>1 DEF Redeemable, Marking, VerifiedRequests, Born
    <2>4. UNCHANGED <<OpenCodes, UnsentCodes, FreshCodes>>
      BY <2>1, <2>3 DEF OpenCodes, UnsentCodes, FreshCodes
    <2>5. OneTime!Link(r, u)
      BY <2>1, <2>2, <2>4
      DEF OneTime!Link, OpenCodes, UnsentCodes, FreshCodes, At, Admitted
    <2> QED BY <2>5 DEF StepMaps, OneTime!CodesNext
  <1>11. CASE AnswerLinked(r)
    <2>0. PICK b \in Browsers : b = req[r].browser
      BY <1>11, RequestFields DEF AnswerLinked
    <2>1. /\ req[r].stage = "linked" /\ req'[r].stage = "idle"
          /\ session' = [session EXCEPT ![b] = NoSession]
          /\ UNCHANGED <<code, linked>>
      BY <1>0, <1>11, <2>0 DEF AnswerLinked, Finish, Idle, rows
    <2>2. FreshCodes' = [FreshCodes EXCEPT ![b] = 0]
      BY <2>1 DEF FreshCodes, TypeOK, NoSession
    <2>3. \A i \in CodeIds : UNCHANGED Redeemable(i)
      BY <1>0, <2>1 DEF Redeemable, Marking, VerifiedRequests, Born
    <2>4. UNCHANGED <<OpenCodes, UnsentCodes, At(Admitted)>>
      BY <1>0, <2>1, <2>3 DEF OpenCodes, UnsentCodes, At, Admitted
    <2>5. OneTime!Lapse(b)
      BY <2>1, <2>2, <2>4
      DEF OneTime!Lapse, OpenCodes, UnsentCodes, FreshCodes, At, Admitted
    <2> QED BY <2>5 DEF StepMaps, OneTime!CodesNext
  <1> QED BY <1>3, <1>4, <1>5, <1>6, <1>7, <1>8, <1>9, <1>10, <1>11 DEF Serve

LEMMA FailureMaps ==
  ASSUME TypeOK, NEW r \in Requests, StatementFails(r)
  PROVE  StepMaps
  <1>0. /\ \A s \in Requests \ {r} : req'[s] = req[s]
        /\ req'[r].stage \in {"idle", "create"}
        /\ req[r].stage \in Admitted => req'[r].stage = "idle"
        /\ UNCHANGED <<code, session, linked>>
    BY DEF TypeOK, StatementFails, GoTo, Finish, Idle, RequestRecord, rows, Admitted
  <1>1. \A i \in CodeIds : UNCHANGED Born(i) /\ code'[i] = code[i] /\ code[i] \in CodeRow
    BY <1>0 DEF Born, TypeOK
  <1>2. UNCHANGED <<UnsentCodes, FreshCodes>>
    BY <1>0 DEF UnsentCodes, FreshCodes
  <1>3. CASE req[r].stage \in Admitted
    <2>1. At(Admitted)' = At(Admitted) \ {r}
      BY <1>0, <1>3, AdmittedMoves DEF Admitted
    <2>2. \A i \in CodeIds : UNCHANGED Redeemable(i)
      BY <1>0, <1>1, <1>3 DEF Redeemable, Marking, VerifiedRequests, Admitted
    <2>3. UNCHANGED OpenCodes
      BY <2>2 DEF OpenCodes
    <2>4. OneTime!GiveUp(r)
      BY <1>0, <1>2, <2>1, <2>3
      DEF OneTime!GiveUp, OpenCodes, UnsentCodes, FreshCodes, At, Admitted
    <2> QED BY <2>4 DEF StepMaps, OneTime!CodesNext
  <1>4. CASE req[r].stage \notin Admitted
    <2>1. UNCHANGED At(Admitted)
      BY <1>0, <1>4 DEF At, Admitted
    <2>2. \A i \in CodeIds : Redeemable(i)' => Redeemable(i)
      BY <1>0, <1>1, NoNewVerify, Redeems DEF CodeRow
    <2> QED BY <1>0, <1>2, <2>1, <2>2, MapClose
  <1> QED BY <1>3, <1>4

\* Time and the daily clean-up close codes and let verifications lapse.
LEMMA TimeMaps ==
  ASSUME TypeOK, TypeOK',
         \/ \E b \in Browsers : SessionAges(b) \/ DropStaleSession(b)
         \/ \E i \in CodeIds : CodeAges(i)
         \/ DeleteExpired
  PROVE  StepMaps
  <1>0. UNCHANGED <<req, linked, At(Admitted)>>
    BY DEF SessionAges, DropStaleSession, CodeAges, DeleteExpired, rows, At
  <1>1. \A i \in CodeIds : UNCHANGED <<Marking(i), VerifiedRequests(i)>>
    BY <1>0 DEF Marking, VerifiedRequests
  <1>2. ASSUME NEW b \in Browsers, SessionAges(b) \/ DropStaleSession(b) PROVE StepMaps
    <2>0. /\ session'[b].age \in {"stale", "none"}
          /\ \A c \in Browsers \ {b} : session'[c] = session[c]
          /\ UNCHANGED code
      BY <1>2 DEF SessionAges, DropStaleSession, rows, TypeOK, NoSession, SessionValue
    <2>1. UNCHANGED code /\ FreshCodes' = [FreshCodes EXCEPT ![b] = 0]
      BY <2>0 DEF FreshCodes
    <2>2. \A i \in CodeIds : UNCHANGED Redeemable(i)
      BY <1>1, <2>1 DEF Redeemable, VerifiedRequests, Born
    <2>3. UNCHANGED <<OpenCodes, UnsentCodes>>
      BY <2>1, <2>2 DEF OpenCodes, UnsentCodes
    <2>4. OneTime!Lapse(b)
      BY <1>0, <2>1, <2>3
      DEF OneTime!Lapse, OpenCodes, UnsentCodes, FreshCodes, At, Admitted
    <2> QED BY <2>4 DEF StepMaps, OneTime!CodesNext
  <1>3. ASSUME (\E i \in CodeIds : CodeAges(i)) \/ DeleteExpired PROVE StepMaps
    <2>1. \A i \in CodeIds :
            code[i].age # code'[i].age => /\ code[i].age \in {"live", "expired", "old"}
                                          /\ code'[i].age \in {"expired", "old", "gone"}
      BY <1>3 DEF CodeAges, DeleteExpired, TypeOK, CodeRow, Unborn
    <2>2. \A i \in CodeIds :
            code'[i].age # "gone" => /\ code'[i].used = code[i].used
                                     /\ code'[i].attempts = code[i].attempts
      BY <1>3 DEF CodeAges, DeleteExpired, TypeOK, CodeRow, Unborn
    <2>3. UNCHANGED <<UnsentCodes, FreshCodes>>
      BY <1>3, <2>1 DEF UnsentCodes, FreshCodes, CodeAges, DeleteExpired
    <2>4. \A i \in CodeIds : Redeemable(i)' => Redeemable(i)
      BY <1>1, <2>1, <2>2 DEF Redeemable, VerifiedRequests, Born
    <2> QED BY <1>0, <2>3, <2>4, MapClose
  <1> QED BY <1>2, <1>3

LEMMA StepRefines ==
  TypeOK /\ TypeOK' /\ SessionInv /\ UnsentUntouched /\ FreshNamed /\ [Next]_vars
    => [OneTime!CodesNext]_OneTime!codesVars
  <1> SUFFICES ASSUME TypeOK, TypeOK', SessionInv, UnsentUntouched, FreshNamed, [Next]_vars
               PROVE  StepMaps
    BY DEF StepMaps
  <1>1. CASE UNCHANGED vars
    <2>1. UNCHANGED <<UnsentCodes, FreshCodes, At(Admitted), linked>>
      BY <1>1 DEF vars, UnsentCodes, FreshCodes, At
    <2>2. \A i \in CodeIds : UNCHANGED Redeemable(i)
      BY <1>1 DEF vars, Redeemable, Born, Marking, VerifiedRequests
    <2> QED BY <2>1, <2>2, MapClose
  <1> QED BY <1>1, BeginMaps, ServeMaps, FailureMaps, TimeMaps DEF Next

\* However the handlers of registration.go overlap and fail, they do what OneTimeCodes
\* promises: each statement is one step of the abstract codes, or shows nothing.  A
\* code is redeemed once, by the answer that carries the session.
THEOREM CodesRefinement == Spec => ImplementsOneTimeCodes
  <1>1. Init => OneTime!CodesInit
    <2> SUFFICES ASSUME Init PROVE OneTime!CodesInit
      OBVIOUS
    <2>1. UnsentCodes = CodeIds /\ FreshCodes = [b \in Browsers |-> 0] /\ At(Admitted) = {}
      BY DEF Init, UnsentCodes, FreshCodes, At, Admitted, Unborn, NoSession, Idle
    <2>2. \A i \in CodeIds : ~ Redeemable(i)
      BY DEF Init, Redeemable, Born, Marking, VerifiedRequests, Unborn, Idle
    <2>3. OpenCodes = {}
      BY <2>2 DEF OpenCodes
    <2> QED BY <2>1, <2>3
            DEF Init, OneTime!CodesInit, UnsentCodes, OpenCodes, FreshCodes, At, Admitted
  <1>2. Init => UnsentUntouched /\ FreshNamed
    BY DEF Init, UnsentUntouched, FreshNamed, NoSession
  <1>3. Init => SessionInv
    BY NumbersAssumption
    DEF Init, SessionInv, CodeVerifiesOneSession, VerifiedRequests, VerifiedBrowsers, Idle,
        NoSession, CodeIds
  <1> QED BY <1>1, <1>2, <1>3, StepSession, StepUntouched, StepFresh, StepRefines, TypeCorrect, PTL
             DEF Spec, ImplementsOneTimeCodes, OneTime!CodesSpec
=============================================================================
