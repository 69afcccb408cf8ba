\* A secret is stored, replaced and then kept, while one task connects.
SPECIFICATION Spec
CONSTANTS
    Ids = {1}
    Tasks = {t1}
    Profiles <- MCProfiles
    InitialProfiles <- MCInitialProfiles
    EditedProfiles <- MCNoEdits
    MaxMutations = 3
    MaxTasks = 1
    MaxEdits = 0
CHECK_DEADLOCK FALSE
INVARIANTS
    RevokedSecretUnused
