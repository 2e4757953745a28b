------------------------- MODULE MCFamilyConnections -------------------------
(***************************************************************************)
(* Instances of FamilyConnections for TLC: parents and requests are        *)
(* interchangeable.                                                        *)
(***************************************************************************)
EXTENDS FamilyConnections, TLC

CONSTANTS dad, mom, kid, r1, r2, l1, l2, l3, l4

Symmetry == Permutations(Parents) \union Permutations(Requests)
=============================================================================
