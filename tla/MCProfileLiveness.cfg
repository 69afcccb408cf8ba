\* Mutations and tasks end.
SPECIFICATION FairSpec
CONSTANTS
    Ids = {1}
    Tasks = {t1, t2}
    Profiles <- MCOneProfile
    InitialProfiles <- MCInitialOpen
    EditedProfiles <- MCNoEdits
    MaxMutations = 1
    MaxTasks = 2
    MaxEdits = 0
CHECK_DEADLOCK FALSE
PROPERTIES
    MutationsComplete
    TasksTerminate
