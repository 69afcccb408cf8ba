---------------------------- MODULE ConfigContent ----------------------------
(***************************************************************************)
(* What a configuration file can hold, and the pure functions of           *)
(* src/config.rs on it: version dispatch, V1 normalisation and the four    *)
(* mutations.  A connection profile is abstracted to its body (every       *)
(* connection field) and its credential mode; ids are naturals, where n    *)
(* stands for the n-th candidate of allocate_profile_id (1 is the base id, *)
(* n > 1 is "base-n").                                                     *)
(***************************************************************************)
EXTENDS Naturals

CONSTANTS Ids,          \* profile ids
          Bodies,       \* connection fields of a profile
          ValidBodies   \* the ones validate_strict_persisted_profile accepts

ASSUME IdsAssumption == Ids \subseteq Nat \ {0}
ASSUME BodiesAssumption == ValidBodies \subseteq Bodies

NoProfile == [body |-> "none", mode |-> "none"]

\* A V1 profile has no credential mode: only the presence of secret_env.
ProfilesV1 == [body : Bodies, mode : {"SecretEnv", "NoSecretEnv"}]
ProfilesV2 == [body : Bodies, mode : {"None", "Environment", "Session"}]

Versions == {"Missing", "V1", "V2", "Unreadable", "Torn"}
Contents == [version : Versions,
             profiles : [Ids -> ProfilesV1 \cup ProfilesV2 \cup {NoProfile}]]

NoProfiles == [i \in Ids |-> NoProfile]
Missing == [version |-> "Missing", profiles |-> NoProfiles]
Unreadable == [version |-> "Unreadable", profiles |-> NoProfiles]
\* What a rename of a file that was never fsynced may leave after power loss.
Torn == [version |-> "Torn", profiles |-> NoProfiles]

\* load_path fails on bytes that are no configuration of version 1 or 2.
Loadable(content) == content.version \in {"Missing", "V1", "V2"}
MigrationRequired(content) == content.version = "V1"

\* The credential mode a V1 profile gets.
NormalizeMode(mode) == IF mode = "SecretEnv" THEN "Environment" ELSE "None"

normalize_v1(profiles) ==
    [i \in Ids |->
        IF profiles[i] = NoProfile THEN NoProfile
        ELSE [body |-> profiles[i].body, mode |-> NormalizeMode(profiles[i].mode)]]

\* The in-memory profiles of a loaded file.
ProfilesOf(content) ==
    IF content.version = "V1" THEN normalize_v1(content.profiles) ELSE content.profiles

\* ConfigMutation.  For CreateAuto the id is chosen by apply_mutation.
Mutations ==
    [kind : {"Create", "CreateAuto", "Update", "Delete"},
     id : Ids, expected : ProfilesV2, profile : ProfilesV2]

\* validate_config_mutation: Delete carries no new profile to validate.
ValidMutation(m) == m.kind = "Delete" \/ m.profile.body \in ValidBodies

FreeIds(profiles) == {i \in Ids : profiles[i] = NoProfile}

\* The lowest free suffix.
allocate_profile_id(profiles) ==
    CHOOSE i \in FreeIds(profiles) : \A j \in FreeIds(profiles) : i <= j

\* The id a mutation creates, replaces or removes.
AffectedId(m, profiles) ==
    IF m.kind = "CreateAuto" THEN allocate_profile_id(profiles) ELSE m.id

\* The error of apply_mutation, or "ok".
ApplyError(m, profiles) ==
    CASE m.kind = "Create" /\ profiles[m.id] # NoProfile -> "ProfileAlreadyExists"
      [] m.kind \in {"Update", "Delete"} /\ profiles[m.id] = NoProfile -> "ProfileMissing"
      [] m.kind \in {"Update", "Delete"} /\ profiles[m.id] \notin {NoProfile, m.expected}
            -> "ExternalChange"
      [] OTHER -> "ok"

apply_mutation(m, profiles) ==
    [profiles EXCEPT ![AffectedId(m, profiles)] =
        IF m.kind = "Delete" THEN NoProfile ELSE m.profile]

\* The bytes a successful mutation of a loaded file encodes: always version 2.
Encoded(m, content) ==
    [version |-> "V2", profiles |-> apply_mutation(m, ProfilesOf(content))]
=============================================================================
