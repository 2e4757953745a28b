--------------------------- MODULE MCRegistration ---------------------------
(***************************************************************************)
(* Instances of Registration for TLC: browsers, users and requests are     *)
(* interchangeable.                                                        *)
(***************************************************************************)
EXTENDS Registration, TLC

Symmetry == Permutations(Browsers) \union Permutations(Users) \union Permutations(Requests)
=============================================================================
