--------------------------- MODULE MCConfigWriter ---------------------------
(***************************************************************************)
(* Small instances of ConfigWriter: a V1, a V2 and a missing main file,    *)
(* mutations that create, allocate, update and delete, and edits by        *)
(* another program that change the profile, the version or the syntax.     *)
(***************************************************************************)
EXTENDS ConfigWriterRefinement, TLC

P(body, mode) == [body |-> body, mode |-> mode]
File(version, profile) ==
    [version |-> version, profiles |-> [NoProfiles EXCEPT ![1] = profile]]
M(kind, expected, profile) ==
    [kind |-> kind, id |-> 1, expected |-> expected, profile |-> profile]

V1File == File("V1", P("a", "SecretEnv"))
OtherV1File == File("V1", P("b", "NoSecretEnv"))
V2File == File("V2", P("a", "Environment"))
OtherV2File == File("V2", P("b", "Session"))

MCInitialContents == {Missing, V1File, V2File}
MCMutations ==
    {M("CreateAuto", P("a", "None"), P("b", "Session")),
     M("Update", P("a", "Environment"), P("b", "Session")),
     M("Update", P("a", "Environment"), P("x", "None")),
     M("Delete", P("a", "Environment"), P("a", "None"))}
MCEditedContents == {OtherV1File, OtherV2File, Unreadable}
MCBackupContents == {V1File, OtherV1File, Unreadable}
=============================================================================
