----------------------------- MODULE OneTimeCodes -----------------------------
(***************************************************************************)
(* What registration promises to the owner of an e-mail address: a code    *)
(* that was sent is redeemed at most once, for one browser, and never      *)
(* after it has been closed; and the profile gets an account only on       *)
(* behalf of a browser that held the verification of a code when it asked. *)
(* Registration implements it, however its handlers overlap and fail.      *)
(***************************************************************************)

CONSTANTS Codes, NoCode, Browsers, Requests, Users, NoUser

VARIABLES
    unsent,    \* the codes still to be sent
    open,      \* the codes that can be redeemed
    verified,  \* the code by which each browser is verified, or NoCode
    admitted,  \* the requests for an account that are being served
    account    \* the account of the profile, or NoUser

codesVars == <<unsent, open, verified, admitted, account>>

CodesInit ==
    /\ unsent = Codes
    /\ open = {}
    /\ verified = [b \in Browsers |-> NoCode]
    /\ admitted = {}
    /\ account = NoUser

\* A code leaves by e-mail, once.
Send(i) ==
    /\ i \in unsent
    /\ unsent' = unsent \ {i}
    /\ open' = open \union {i}
    /\ UNCHANGED <<verified, admitted, account>>

\* Codes are replaced by a new one, expire, are deleted, or have met too many wrong
\* entries.
Close ==
    /\ open' \subseteq open
    /\ UNCHANGED <<unsent, verified, admitted, account>>

Redeem(i, b) ==
    /\ i \in open
    /\ open' = open \ {i}
    /\ verified' = [verified EXCEPT ![b] = i]
    /\ UNCHANGED <<unsent, admitted, account>>

\* A verification is good for a while, or for one account.
Lapse(b) ==
    /\ verified' = [verified EXCEPT ![b] = NoCode]
    /\ UNCHANGED <<unsent, open, admitted, account>>

Admit(r, b) ==
    /\ verified[b] # NoCode
    /\ admitted' = admitted \union {r}
    /\ UNCHANGED <<unsent, open, verified, account>>

Link(r, u) ==
    /\ r \in admitted
    /\ admitted' = admitted \ {r}
    /\ account' = u
    /\ UNCHANGED <<unsent, open, verified>>

GiveUp(r) ==
    /\ admitted' = admitted \ {r}
    /\ UNCHANGED <<unsent, open, verified, account>>

CodesNext ==
    \/ Close
    \/ \E i \in Codes : Send(i) \/ \E b \in Browsers : Redeem(i, b)
    \/ \E b \in Browsers : Lapse(b) \/ \E r \in Requests : Admit(r, b)
    \/ \E r \in Requests : GiveUp(r) \/ \E u \in Users : Link(r, u)

CodesSpec == CodesInit /\ [][CodesNext]_codesVars
=============================================================================
