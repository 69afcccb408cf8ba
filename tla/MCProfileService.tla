--------------------------- MODULE MCProfileService ---------------------------
(***************************************************************************)
(* Small instances of ProfileService.                                      *)
(***************************************************************************)
EXTENDS ProfileService, TLC

P(conn, label, mode) == [conn |-> conn, label |-> label, mode |-> mode]

\* An edit from the first to the second is runtime-neutral.
Prompted == P("a", "n", "Session")
Renamed == P("a", "m", "Session")
Open == P("b", "n", "None")

Only(p) == [i \in Ids |-> IF i = 1 THEN p ELSE NoProfile]
MCProfiles == {Prompted, Renamed, Open}
MCInitialProfiles == Only(Prompted)
MCInitialOpen == [i \in Ids |-> Open]
MCEditedProfiles == {Only(NoProfile), Only(Renamed), Unreadable}

MCOneProfile == {Open}
MCRemoved == {Only(NoProfile)}
MCNoEdits == {}

TaskSymmetry == Permutations(Tasks)
=============================================================================
