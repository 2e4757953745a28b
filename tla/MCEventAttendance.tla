-------------------------- MODULE MCEventAttendance --------------------------
(***************************************************************************)
(* Instances of EventAttendance for TLC: the profiles other than the       *)
(* Senior Patrol Leader and the inactive one are interchangeable, and so   *)
(* are the requests.                                                       *)
(***************************************************************************)
EXTENDS EventAttendance, TLC

Symmetry == Permutations(Profiles \ (SPLYouth \union Inactive)) \union Permutations(Requests)
=============================================================================
