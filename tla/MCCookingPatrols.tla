--------------------------- MODULE MCCookingPatrols ---------------------------
(***************************************************************************)
(* Instances of CookingPatrols for TLC: profiles of one type, that change  *)
(* it or not, patrol ids and requests are interchangeable.                 *)
(***************************************************************************)
EXTENDS CookingPatrols, TLC

Symmetry ==
    Permutations(Adults \ Retyped) \union Permutations(Adults \intersect Retyped)
        \union Permutations((Profiles \ Adults) \ Retyped)
        \union Permutations((Profiles \ Adults) \intersect Retyped)
        \union Permutations(Patrols) \union Permutations(Requests)
=============================================================================
