-------------------------- MODULE FamilyConnections --------------------------
(***************************************************************************)
(* Connections of parents and youth: a parent asks for one                 *)
(* (internal/api/family_connections.go), an administrator decides          *)
(* (internal/api/admin.go), and a connected parent signs the youth up for  *)
(* an event or withdraws the youth (internal/api/events.go).               *)
(*                                                                         *)
(* No handler has a transaction and parent_youth_links has no unique       *)
(* index: a connection is looked for in one statement and inserted by a    *)
(* later one, a row is read in one statement and its status written by     *)
(* another, and a parent is authorised before the statement that changes   *)
(* the attendance.  Requests that are refused change nothing.              *)
(***************************************************************************)
EXTENDS Naturals, FiniteSets

CONSTANTS
    Parents,    \* profiles of adults with a user
    Youth,      \* profiles of youth
    NoProfile,  \* no profile
    Links,      \* bound: the rows of parent_youth_links
    NoLink,     \* no row
    Requests,   \* requests that can be in flight at the same time
    MaxFaults   \* bound: statements that fail

ASSUME ConnectionsAssumption ==
    /\ NoProfile \notin Parents \union Youth
    /\ NoLink \notin Links
    /\ IsFiniteSet(Links)
    /\ IsFiniteSet(Requests)
    /\ MaxFaults \in Nat

VARIABLES
    registered,  \* youth whose profile has a user
    link,        \* parent_youth_links
    attending,   \* youth who are signed up for the event
    req,         \* requests in flight
    ended,       \* history: requests whose pair was disconnected while they were in flight
    faults       \* statements that have failed so far

vars == <<registered, link, attending, req, ended, faults>>

Decisions == {"approved", "rejected", "revoked"}

NoRow == [parent |-> NoProfile, youth |-> NoProfile, status |-> "none"]

Row ==
    {row \in [parent: Parents \union {NoProfile}, youth: Youth \union {NoProfile},
              status: Decisions \union {"pending", "none"}] :
        row.status # "none" => row.parent \in Parents /\ row.youth \in Youth}

Stages == {"idle", "check", "insert", "decide", "signUp", "withdraw"}

Idle == [stage |-> "idle", parent |-> NoProfile, youth |-> NoProfile,
         link |-> NoLink, decision |-> "approved"]

RequestRecord ==
    {q \in [stage: Stages, parent: Parents \union {NoProfile}, youth: Youth \union {NoProfile},
            link: Links \union {NoLink}, decision: Decisions] :
        /\ q.stage \in {"check", "insert", "signUp", "withdraw"} =>
               q.parent \in Parents /\ q.youth \in Youth
        /\ q.stage = "decide" => q.link \in Links}

TypeOK ==
    /\ registered \in SUBSET Youth
    /\ link \in [Links -> Row]
    /\ attending \in SUBSET Youth
    /\ req \in [Requests -> RequestRecord]
    /\ \A r \in Requests : req[r].stage = "decide" => link[req[r].link].status # "none"
    /\ ended \in SUBSET Requests
    /\ faults \in 0..MaxFaults

Init ==
    /\ registered = {}
    /\ link = [l \in Links |-> NoRow]
    /\ attending = {}
    /\ req = [r \in Requests |-> Idle]
    /\ ended = {}
    /\ faults = 0

RowsOf(parent, youth, status) ==
    {l \in Links : link[l] = [parent |-> parent, youth |-> youth, status |-> status]}

GoTo(r, stage) == req' = [req EXCEPT ![r].stage = stage]

Finish(r) ==
    /\ req' = [req EXCEPT ![r] = Idle]
    /\ ended' = ended \ {r}

-----------------------------------------------------------------------------
(***************************************************************************)
(* AddConnection.  The youth must have no account; a pending request of    *)
(* the same pair refuses another, an approved one does not.                *)
(***************************************************************************)

\* The bound on rows leaves one to every request.
RowLeft ==
    Cardinality({l \in Links : link[l] = NoRow}) >
        Cardinality({r \in Requests : req[r].stage \in {"check", "insert"}})

BeginAdd(r, parent, youth) ==
    /\ req[r] = Idle
    /\ youth \notin registered
    /\ RowLeft
    /\ req' = [req EXCEPT ![r] = [Idle EXCEPT !.stage = "check", !.parent = parent,
                                              !.youth = youth]]
    /\ UNCHANGED <<registered, link, attending, ended, faults>>

\* Mutant: it is the approved connection that refuses another request.
CheckPending_Approved(r) ==
    /\ req[r].stage = "check"
    /\ IF RowsOf(req[r].parent, req[r].youth, "approved") = {}
       THEN GoTo(r, "insert") /\ UNCHANGED ended
       ELSE Finish(r)
    /\ UNCHANGED <<registered, link, attending, faults>>

CheckPending(r) ==
    /\ req[r].stage = "check"
    /\ IF RowsOf(req[r].parent, req[r].youth, "pending") = {}
       THEN GoTo(r, "insert") /\ UNCHANGED ended
       ELSE Finish(r)
    /\ UNCHANGED <<registered, link, attending, faults>>

\* A list of connections that cannot be read is taken for an empty one.
CheckFails(r) ==
    /\ faults < MaxFaults
    /\ faults' = faults + 1
    /\ req[r].stage = "check"
    /\ GoTo(r, "insert")
    /\ UNCHANGED <<registered, link, attending, ended>>

NewLink == CHOOSE l \in Links : link[l] = NoRow

\* Create.  The administrators are notified after it; a failure of that is only logged.
InsertLink(r) ==
    /\ req[r].stage = "insert"
    /\ link' = [link EXCEPT ![NewLink] = [parent |-> req[r].parent, youth |-> req[r].youth,
                                          status |-> "pending"]]
    /\ Finish(r)
    /\ UNCHANGED <<registered, attending, faults>>

-----------------------------------------------------------------------------
(***************************************************************************)
(* ApproveConnection, RejectConnection and RemoveConnection set the status *)
(* of a row, whatever it is: the page they come from may be an old one.    *)
(***************************************************************************)

BeginDecide(r, l, decision) ==
    /\ req[r] = Idle
    /\ link[l].status # "none"
    /\ req' = [req EXCEPT ![r] = [Idle EXCEPT !.stage = "decide", !.link = l,
                                              !.decision = decision]]
    /\ UNCHANGED <<registered, link, attending, ended, faults>>

\* The parents who act on a youth at the moment.
Acting(parent, youth) ==
    {r \in Requests : /\ req[r].stage \in {"signUp", "withdraw"}
                      /\ req[r].parent = parent /\ req[r].youth = youth}

\* UpdateStatus
Decide(r) ==
    LET l == req[r].link
        others == RowsOf(link[l].parent, link[l].youth, "approved") \ {l}
    IN /\ req[r].stage = "decide"
       /\ link' = [link EXCEPT ![l].status = req[r].decision]
       /\ req' = [req EXCEPT ![r] = Idle]
       /\ ended' = IF req[r].decision # "approved" /\ others = {}
                   THEN (ended \ {r}) \union Acting(link[l].parent, link[l].youth)
                   ELSE ended \ {r}
       /\ UNCHANGED <<registered, attending, faults>>

-----------------------------------------------------------------------------
(***************************************************************************)
(* SignUp and Withdraw of a youth by a parent.                             *)
(***************************************************************************)

\* Mutant: any row of the pair will do.
canManageProfile_AnyStatus(parent, youth) ==
    \E l \in Links : link[l].parent = parent /\ link[l].youth = youth

canManageProfile(parent, youth) == RowsOf(parent, youth, "approved") # {}

BeginAct(r, parent, youth, stage) ==
    /\ req[r] = Idle
    /\ canManageProfile(parent, youth)
    /\ req' = [req EXCEPT ![r] = [Idle EXCEPT !.stage = stage, !.parent = parent,
                                              !.youth = youth]]
    /\ UNCHANGED <<registered, link, attending, ended, faults>>

SignUp(r) ==
    /\ req[r].stage = "signUp"
    /\ attending' = attending \union {req[r].youth}
    /\ Finish(r)
    /\ UNCHANGED <<registered, link, faults>>

Withdraw(r) ==
    /\ req[r].stage = "withdraw"
    /\ attending' = attending \ {req[r].youth}
    /\ Finish(r)
    /\ UNCHANGED <<registered, link, faults>>

\* The youth gets an account (Registration.tla).
Register(youth) ==
    /\ youth \notin registered
    /\ registered' = registered \union {youth}
    /\ UNCHANGED <<link, attending, req, ended, faults>>

StatementFails(r) ==
    /\ faults < MaxFaults
    /\ faults' = faults + 1
    /\ req[r].stage \in {"insert", "decide", "signUp", "withdraw"}
    /\ Finish(r)
    /\ UNCHANGED <<registered, link, attending>>

-----------------------------------------------------------------------------

Begin(r) ==
    \/ \E parent \in Parents, youth \in Youth :
         \/ BeginAdd(r, parent, youth)
         \/ \E stage \in {"signUp", "withdraw"} : BeginAct(r, parent, youth, stage)
    \/ \E l \in Links, decision \in Decisions : BeginDecide(r, l, decision)

Serve(r) ==
    \/ CheckPending(r) \/ CheckFails(r) \/ InsertLink(r)
    \/ Decide(r) \/ SignUp(r) \/ Withdraw(r) \/ StatementFails(r)

Next ==
    \/ \E r \in Requests : Begin(r) \/ Serve(r)
    \/ \E youth \in Youth : Register(youth)

Spec == Init /\ [][Next]_vars

-----------------------------------------------------------------------------
(***************************************************************************)
(* Properties.                                                             *)
(***************************************************************************)

\* The pending rows of a pair, and the requests that are about to insert one.
Inserting(parent, youth) ==
    {r \in Requests : req[r].stage = "insert" /\ req[r].parent = parent /\ req[r].youth = youth}

\* AddConnection refuses a second pending request of a pair.  Its check and its INSERT
\* are two statements, and it ignores an error of the first: there are never more
\* pending rows than requests in flight at the same time and errors ignored.
PendingBounded ==
    \A parent \in Parents, youth \in Youth :
        Cardinality(RowsOf(parent, youth, "pending")) + Cardinality(Inserting(parent, youth))
            <= Cardinality(Requests) + faults

\* A parent about to change the attendance of a youth is connected to the youth, or was
\* when canManageProfile looked and has been disconnected since: a request or a
\* rejection gives no authority, and a withdrawn authority serves no later request.
ActsOnlyConnected ==
    \A r \in Requests :
        req[r].stage \in {"signUp", "withdraw"} =>
            \/ \E l \in Links : /\ link[l].parent = req[r].parent
                                /\ link[l].youth = req[r].youth
                                /\ link[l].status = "approved"
            \/ r \in ended

=============================================================================
