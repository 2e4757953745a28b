-------------------------- MODULE MCAdministration --------------------------
(***************************************************************************)
(* Instances of Administration for TLC.                                    *)
(***************************************************************************)
EXTENDS Administration

CONSTANTS b1, r1, r2, t1, i1, i2, u1, u2, u3
=============================================================================
