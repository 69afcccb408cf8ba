\* One profile with a session secret, two tasks, edits by another program.
SPECIFICATION Spec
CONSTANTS
    Ids = {1}
    Tasks = {t1, t2}
    Profiles <- MCProfiles
    InitialProfiles <- MCInitialProfiles
    EditedProfiles <- MCEditedProfiles
    MaxMutations = 2
    MaxTasks = 2
    MaxEdits = 1
SYMMETRY TaskSymmetry
CHECK_DEADLOCK FALSE
INVARIANTS
    CurrentSessionMatchesProfile
    HandlesAccounted
    SecretsSound
    GenerationsFresh
PROPERTIES
    FencedWorkJoined
    ReadyIsCurrent
    GenerationPinsProfile
