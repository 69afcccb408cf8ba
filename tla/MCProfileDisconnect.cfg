\* A disconnect that meets the end of a connect.
SPECIFICATION Spec
CONSTANTS
    Ids = {1}
    Tasks = {t1, t2}
    Profiles <- MCOneProfile
    InitialProfiles <- MCInitialOpen
    EditedProfiles <- MCRemoved
    MaxMutations = 1
    MaxTasks = 2
    MaxEdits = 1
CHECK_DEADLOCK FALSE
INVARIANTS
    DisconnectEvicts
