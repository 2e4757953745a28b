---------------------------- MODULE MCRosterSync ----------------------------
(***************************************************************************)
(* Instances of RosterSync for TLC.  The rosters: two members, one of them *)
(* in both lists; that one alone and in the other list, with a position    *)
(* that has the name of a status role; nobody.                             *)
(***************************************************************************)
EXTENDS RosterSync, TLC

CONSTANTS ana, ben

Roster(adults, youths) == [adults |-> adults, youths |-> youths]

MCRosters == {
    Roster(ana :> {"SPL"}, ana :> {} @@ ben :> {"SPL"}),
    Roster(<<>>, ana :> {"Scouts BSA"}),
    Roster(<<>>, <<>>)}
=============================================================================
