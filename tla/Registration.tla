---------------------------- MODULE Registration ----------------------------
(***************************************************************************)
(* Registration with a one-time code, for one e-mail address and the       *)
(* profile row it belongs to.                                              *)
(*                                                                         *)
(* Register sends a code, Verify trades a code for a session that is       *)
(* verified, Complete trades a verified session for a user linked to the   *)
(* profile.  Each is an HTTP handler of internal/api/registration.go: a    *)
(* sequence of SQL statements without a transaction, which interleaves     *)
(* with the statements of the others.  Every action is one statement, and  *)
(* req[r] is what the handler remembers from one statement to the next.    *)
(*                                                                         *)
(* The session is a signed cookie: it lives in the browser, and the answer *)
(* of a handler replaces it.  Two addresses share no rows, so one is       *)
(* enough; which browser speaks for the address is not known to the server.*)
(***************************************************************************)
EXTENDS Naturals, FiniteSets

CONSTANTS
    Browsers,      \* cookie jars
    NoBrowser,     \* no browser
    Requests,      \* handlers that can be in flight at the same time
    Users,         \* bound: the rows of the users table that can be created
    NoUser,        \* user_id is NULL
    HasPositions,  \* the profile lists Positions of the troop
    MaxAttempts,   \* wrong entries a code allows (5 in otpcode.go)
    RateLimit,     \* codes an address may be sent in an hour (5 in registration.go)
    MaxCodes,      \* bound: codes created
    MaxFaults      \* bound: statements that fail

ASSUME SetsAssumption ==
    /\ NoUser \notin Users
    /\ NoBrowser \notin Browsers
    /\ HasPositions \in BOOLEAN
    /\ IsFiniteSet(Requests)

ASSUME NumbersAssumption ==
    /\ MaxAttempts \in Nat \ {0}
    /\ RateLimit \in Nat \ {0}
    /\ MaxCodes \in Nat
    /\ MaxFaults \in Nat

VARIABLES
    linked,   \* user_id of the profile
    user,     \* how far each user row has come
    code,     \* the rows of otp_codes, in the order of their created_at
    session,  \* the code that verified the cookie of each browser, and since when
    req,      \* the handlers in flight
    faults    \* statements that have failed so far

rows == <<linked, user, code>>
vars == <<linked, user, code, session, req, faults>>

CodeIds == 1..MaxCodes

\* "live": before expires_at.  "expired": after it, created less than an hour ago.
\* "old": created more than an hour ago.  "gone": deleted.
Ages == {"unborn", "live", "expired", "old", "gone"}

CodeRow == [age: Ages, used: BOOLEAN, attempts: Nat]
Unborn == [age |-> "unborn", used |-> FALSE, attempts |-> 0]

NoSession == [code |-> 0, age |-> "none"]
SessionValue == [code: {0} \union CodeIds, age: {"none", "fresh", "stale"}]

RegisterStages == {"count", "invalidate", "create"}
VerifyStages == {"increment", "mark", "verified"}
CompleteStages == {"createUser", "assign", "reconcile", "link", "linked"}

RequestRecord ==
    {q \in [stage: {"idle"} \union RegisterStages \union VerifyStages \union CompleteStages,
            browser: Browsers \union {NoBrowser}, code: {0} \union CodeIds,
            user: Users \union {NoUser}] :
        /\ q.stage # "idle" => q.browser \in Browsers
        /\ q.stage \in VerifyStages => q.code \in CodeIds
        /\ q.stage \in {"assign", "reconcile", "link"} => q.user \in Users}

Idle == [stage |-> "idle", browser |-> NoBrowser, code |-> 0, user |-> NoUser]

TypeOK ==
    /\ linked \in Users \union {NoUser}
    /\ user \in [Users -> {"none", "bare", "member", "posted"}]
    /\ code \in [CodeIds -> CodeRow]
    /\ session \in [Browsers -> SessionValue]
    /\ req \in [Requests -> RequestRecord]
    /\ faults \in 0..MaxFaults

Init ==
    /\ linked = NoUser
    /\ user = [u \in Users |-> "none"]
    /\ code = [i \in CodeIds |-> Unborn]
    /\ session = [b \in Browsers |-> NoSession]
    /\ req = [r \in Requests |-> Idle]
    /\ faults = 0

GoTo(r, stage) == req' = [req EXCEPT ![r].stage = stage]
Finish(r) == req' = [req EXCEPT ![r] = Idle]

-----------------------------------------------------------------------------
(***************************************************************************)
(* Register: read the profile, count the codes of the last hour,           *)
(* invalidate those that could still be entered, create the next.          *)
(***************************************************************************)

Born(i) == code[i].age \notin {"unborn", "gone"}
Usable(i) == code[i].age = "live" /\ ~code[i].used

\* The rows that CountByEmailSince finds: DeleteExpired may have deleted some of
\* the codes sent in the hour.
SentThisHour == {i \in CodeIds : code[i].age \in {"live", "expired"}}

BeginRegister(r, b) ==
    /\ req[r] = Idle
    /\ linked = NoUser
    /\ \E i \in CodeIds : code[i].age = "unborn"
    /\ req' = [req EXCEPT ![r] = [Idle EXCEPT !.stage = "count", !.browser = b]]
    /\ UNCHANGED <<rows, session, faults>>

\* Mutant: the count may exceed the limit by one.
CountCodes_OffByOne(r) ==
    /\ req[r].stage = "count"
    /\ IF Cardinality(SentThisHour) <= RateLimit THEN GoTo(r, "invalidate") ELSE Finish(r)
    /\ UNCHANGED <<rows, session, faults>>

CountCodes(r) ==
    /\ req[r].stage = "count"
    /\ IF Cardinality(SentThisHour) < RateLimit THEN GoTo(r, "invalidate") ELSE Finish(r)
    /\ UNCHANGED <<rows, session, faults>>

\* Mutant: only codes that have met a wrong entry are invalidated.
InvalidateByEmail_OnlyTried(r) ==
    /\ req[r].stage = "invalidate"
    /\ code' = [i \in CodeIds |-> IF Usable(i) /\ code[i].attempts > 0
                                  THEN [code[i] EXCEPT !.used = TRUE] ELSE code[i]]
    /\ GoTo(r, "create")
    /\ UNCHANGED <<linked, user, session, faults>>

InvalidateByEmail(r) ==
    /\ req[r].stage = "invalidate"
    /\ code' = [i \in CodeIds |-> IF Usable(i) THEN [code[i] EXCEPT !.used = TRUE] ELSE code[i]]
    /\ GoTo(r, "create")
    /\ UNCHANGED <<linked, user, session, faults>>

\* Whether the e-mail leaves does not matter to Register, which ignores the error.
CreateCode(r) ==
    /\ req[r].stage = "create"
    /\ \E i \in CodeIds :
         /\ code[i].age = "unborn"
         /\ \A j \in CodeIds : j < i => code[j].age # "unborn"
         /\ code' = [code EXCEPT ![i].age = "live"]
    /\ Finish(r)
    /\ UNCHANGED <<linked, user, session, faults>>

-----------------------------------------------------------------------------
(***************************************************************************)
(* Verify: read the row and refuse a code that is expired, used or         *)
(* exhausted; then one UPDATE, which does not test the row again but for   *)
(* the flag used.                                                          *)
(***************************************************************************)

\* Mutant: one attempt too many.
BeginVerify_OffByOne(r, b, i) ==
    /\ req[r] = Idle
    /\ Usable(i)
    /\ code[i].attempts <= MaxAttempts
    /\ \E stage \in {"increment", "mark"} :
         req' = [req EXCEPT ![r] = [Idle EXCEPT !.stage = stage, !.browser = b, !.code = i]]
    /\ UNCHANGED <<rows, session, faults>>

BeginVerify(r, b, i) ==
    /\ req[r] = Idle
    /\ Usable(i)
    /\ code[i].attempts < MaxAttempts
    /\ \E stage \in {"increment", "mark"} :     \* a wrong entry, the right one
         req' = [req EXCEPT ![r] = [Idle EXCEPT !.stage = stage, !.browser = b, !.code = i]]
    /\ UNCHANGED <<rows, session, faults>>

IncrementAttempts(r) ==
    LET i == req[r].code
    IN /\ req[r].stage = "increment"
       /\ code' = IF Born(i) THEN [code EXCEPT ![i].attempts = @ + 1] ELSE code
       /\ Finish(r)
       /\ UNCHANGED <<linked, user, session, faults>>

\* Mutant: the UPDATE does not test the flag.
MarkUsedIfUnused_Always(r) ==
    LET i == req[r].code
    IN /\ req[r].stage = "mark"
       /\ IF Born(i)
          THEN code' = [code EXCEPT ![i].used = TRUE] /\ GoTo(r, "verified")
          ELSE UNCHANGED code /\ Finish(r)
       /\ UNCHANGED <<linked, user, session, faults>>

MarkUsedIfUnused(r) ==
    LET i == req[r].code
    IN /\ req[r].stage = "mark"
       /\ IF Born(i) /\ ~code[i].used
          THEN code' = [code EXCEPT ![i].used = TRUE] /\ GoTo(r, "verified")
          ELSE UNCHANGED code /\ Finish(r)
       /\ UNCHANGED <<linked, user, session, faults>>

\* The answer carries the verified session to the browser.
AnswerVerified(r) ==
    /\ req[r].stage = "verified"
    /\ session' = [session EXCEPT ![req[r].browser] = [code |-> req[r].code, age |-> "fresh"]]
    /\ Finish(r)
    /\ UNCHANGED <<rows, faults>>

-----------------------------------------------------------------------------
(***************************************************************************)
(* Complete: with a session verified in the last 30 minutes, read the      *)
(* profile, create a user, give it its roles, and write the profile back.  *)
(* Neither the status of the profile nor its user_id is looked at.         *)
(***************************************************************************)

BeginComplete(r, b) ==
    /\ req[r] = Idle
    /\ session[b].age = "fresh"
    /\ Cardinality({u \in Users : user[u] = "none"})
         > Cardinality({s \in Requests : req[s].stage = "createUser"})
    /\ req' = [req EXCEPT ![r] = [Idle EXCEPT !.stage = "createUser", !.browser = b]]
    /\ UNCHANGED <<rows, session, faults>>

CreateUser(r) ==
    /\ req[r].stage = "createUser"
    /\ \E u \in Users :
         /\ user[u] = "none"
         /\ user' = [user EXCEPT ![u] = "bare"]
         /\ req' = [req EXCEPT ![r].stage = "assign", ![r].user = u]
    /\ UNCHANGED <<linked, code, session, faults>>

\* Mutant: the profile is linked before its positions have given their roles.
AssignRole_LinksAtOnce(r) ==
    /\ req[r].stage = "assign"
    /\ user' = [user EXCEPT ![req[r].user] = "member"]
    /\ GoTo(r, "link")
    /\ UNCHANGED <<linked, code, session, faults>>

\* The role "parent" of an adult, "Scouts BSA" of a youth.
AssignRole(r) ==
    /\ req[r].stage = "assign"
    /\ user' = [user EXCEPT ![req[r].user] = "member"]
    /\ GoTo(r, IF HasPositions THEN "reconcile" ELSE "link")
    /\ UNCHANGED <<linked, code, session, faults>>

ReconcilePositions(r) ==
    /\ req[r].stage = "reconcile"
    /\ user' = [user EXCEPT ![req[r].user] = "posted"]
    /\ GoTo(r, "link")
    /\ UNCHANGED <<linked, code, session, faults>>

LinkUser(r) ==
    /\ req[r].stage = "link"
    /\ linked' = req[r].user
    /\ GoTo(r, "linked")
    /\ UNCHANGED <<user, code, session, faults>>

\* The answer takes the verified session away from the browser.
AnswerLinked(r) ==
    /\ req[r].stage = "linked"
    /\ session' = [session EXCEPT ![req[r].browser] = NoSession]
    /\ Finish(r)
    /\ UNCHANGED <<rows, faults>>

\* CompletePage and Complete drop a verification that has expired.
DropStaleSession(b) ==
    /\ session[b].age = "stale"
    /\ session' = [session EXCEPT ![b] = NoSession]
    /\ UNCHANGED <<rows, req, faults>>

-----------------------------------------------------------------------------
(***************************************************************************)
(* A statement fails, or the browser never gets the answer.  Register goes *)
(* on when the invalidation fails; every other error ends its handler.     *)
(***************************************************************************)

\* Mutant: a Complete whose write of the profile fails has taken the session away.
StatementFails_LosesSession(r) ==
    /\ faults < MaxFaults
    /\ faults' = faults + 1
    /\ req[r].stage # "idle"
    /\ IF req[r].stage = "invalidate" THEN GoTo(r, "create") ELSE Finish(r)
    /\ session' = IF req[r].stage = "link" THEN [session EXCEPT ![req[r].browser] = NoSession]
                                           ELSE session
    /\ UNCHANGED rows

StatementFails(r) ==
    /\ faults < MaxFaults
    /\ faults' = faults + 1
    /\ req[r].stage # "idle"
    /\ IF req[r].stage = "invalidate" THEN GoTo(r, "create") ELSE Finish(r)
    /\ UNCHANGED <<rows, session>>

(***************************************************************************)
(* Time, and the daily clean-up.                                           *)
(***************************************************************************)

\* Codes expire, and grow an hour old, in the order of their creation.
CodeAges(i) ==
    \E step \in {<<"live", "expired">>, <<"expired", "old">>} :
        /\ code[i].age = step[1]
        /\ \A j \in CodeIds : j < i => code[j].age \notin {"live", step[1]}
        /\ code' = [code EXCEPT ![i].age = step[2]]
        /\ UNCHANGED <<linked, user, session, req, faults>>

SessionAges(b) ==
    /\ session[b].age = "fresh"
    /\ session' = [session EXCEPT ![b].age = "stale"]
    /\ UNCHANGED <<rows, req, faults>>

DeleteExpired ==
    /\ \E i \in CodeIds : code[i].age \in {"expired", "old"}
    /\ code' = [i \in CodeIds |-> IF code[i].age \in {"expired", "old"}
                                  THEN [Unborn EXCEPT !.age = "gone"] ELSE code[i]]
    /\ UNCHANGED <<linked, user, session, req, faults>>

-----------------------------------------------------------------------------

Begin(r) ==
    \E b \in Browsers :
        \/ BeginRegister(r, b)
        \/ \E i \in CodeIds : BeginVerify(r, b, i)
        \/ BeginComplete(r, b)

Serve(r) ==
    \/ CountCodes(r) \/ InvalidateByEmail(r) \/ CreateCode(r)
    \/ IncrementAttempts(r) \/ MarkUsedIfUnused(r) \/ AnswerVerified(r)
    \/ CreateUser(r) \/ AssignRole(r) \/ ReconcilePositions(r) \/ LinkUser(r) \/ AnswerLinked(r)

Next ==
    \/ \E r \in Requests : Begin(r) \/ Serve(r) \/ StatementFails(r)
    \/ \E b \in Browsers : SessionAges(b) \/ DropStaleSession(b)
    \/ \E i \in CodeIds : CodeAges(i)
    \/ DeleteExpired

Spec == Init /\ [][Next]_vars

-----------------------------------------------------------------------------
(***************************************************************************)
(* Properties.                                                             *)
(***************************************************************************)

\* The requests and the browsers that code i has verified.
VerifiedRequests(i) == {r \in Requests : req[r].stage = "verified" /\ req[r].code = i}
VerifiedBrowsers(i) == {b \in Browsers : session[b].code = i}

\* One code verifies one session, however many entries of it overlap (the UPDATE of
\* MarkUsedIfUnused decides, not the SELECT before it).
CodeVerifiesOneSession ==
    \A i \in CodeIds :
        /\ \A r, s \in VerifiedRequests(i) : r = s
        /\ \A b, c \in VerifiedBrowsers(i) : b = c
        /\ VerifiedRequests(i) = {} \/ VerifiedBrowsers(i) = {}

\* A new code invalidates the ones before.  Requests for a code that overlap, or
\* whose invalidation fails, leave more than one that can be entered, but no more
\* than the requests in flight and the failures there have been.
UsableCodesBounded ==
    Cardinality({i \in CodeIds : Usable(i)})
      + Cardinality({r \in Requests : req[r].stage = "create"})
    <= Cardinality(Requests) + faults

\* An address has no more codes of the last hour than the limit, but for those of
\* requests that overlap the one that reaches it.
HourlyCodesBounded ==
    Cardinality(SentThisHour)
      + Cardinality({r \in Requests : req[r].stage \in {"invalidate", "create"}})
    <= RateLimit + Cardinality(Requests) - 1

\* A code takes no more wrong entries than MaxAttempts, but for those that overlap
\* the one that exhausts it.
GuessesBounded ==
    \A i \in CodeIds :
        code[i].attempts
          + Cardinality({r \in Requests : req[r].stage = "increment" /\ req[r].code = i})
        <= MaxAttempts + Cardinality(Requests) - 1

\* The user of a profile has the roles of its profile: Complete links last, so a
\* failure on the way leaves a user that nobody can sign in as.
LinkedUserHasRoles ==
    linked # NoUser =>
        user[linked] = IF HasPositions THEN "posted" ELSE "member"

\* A verification is good until it expires or the profile has a user: a Complete
\* that fails on the way can be repeated with the same session.
VerificationKept ==
    [][\A b \in Browsers :
          session[b].age = "fresh" /\ session'[b].age = "none" => linked # NoUser]_vars

-----------------------------------------------------------------------------
(***************************************************************************)
(* The refinement mapping.  A code can be redeemed as long as a Verify may *)
(* be admitted for it, and beyond that while one that was admitted is      *)
(* under way; the answer that carries the session redeems it.              *)
(***************************************************************************)

Marking(i) == \E r \in Requests : req[r].stage = "mark" /\ req[r].code = i

Redeemable(i) ==
    \/ code[i].age = "live" /\ ~code[i].used /\ code[i].attempts < MaxAttempts
    \/ Born(i) /\ ~code[i].used /\ Marking(i)
    \/ \E r \in Requests : req[r].stage = "verified" /\ req[r].code = i

OneTime == INSTANCE OneTimeCodes WITH
    Codes    <- CodeIds,
    NoCode   <- 0,
    unsent   <- {i \in CodeIds : code[i].age = "unborn"},
    open     <- {i \in CodeIds : Redeemable(i)},
    verified <- [b \in Browsers |-> IF session[b].age = "fresh" THEN session[b].code ELSE 0],
    admitted <- {r \in Requests : req[r].stage \in {"createUser", "assign", "reconcile", "link"}},
    account  <- linked

\* Whatever overlaps and fails, the handlers do what OneTimeCodes promises: no code is
\* redeemed twice, or after it was invalidated or deleted, or when it was exhausted before
\* its entry was admitted; and only a request admitted for a verified browser links the
\* profile.
ImplementsOneTimeCodes == OneTime!CodesSpec
=============================================================================
