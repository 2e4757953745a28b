------------------------------- MODULE MCTenting -------------------------------
(***************************************************************************)
(* Instances of Tenting for TLC.  Ana is born on a leap day, her sister    *)
(* Bea years later, Cat a year and a day after Ana; Dan is a boy as old as *)
(* Cat.  The event starts on a birthday of Ana's or the day before.        *)
(***************************************************************************)
EXTENDS Tenting, TLC

CONSTANTS ana, bea, cat, dan, mum

Date(y, m, d) == [year |-> y, month |-> m, day |-> d]

Born == ana :> Date(2008, 2, 29) @@ bea :> Date(2012, 5, 1)
            @@ cat :> Date(2009, 3, 1) @@ dan :> Date(2009, 3, 1)

MCBirthdate == [p \in Profiles |-> Born[p]]

MCGender == [p \in Profiles |-> IF p = dan THEN "M" ELSE "F"]

MCStarts == {Date(2020, 2, 28), Date(2020, 2, 29), Date(2021, 2, 28)}

MCLinks == {<<mum, ana>>, <<mum, bea>>}

Symmetry == Permutations(Tents) \union Permutations(Requests)
=============================================================================
